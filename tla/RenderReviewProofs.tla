------------------------- MODULE RenderReviewProofs -------------------------
(***************************************************************************)
(* Proofs about RenderReview, for any script, any number of reviewers,     *)
(* readers, decisions and revisions, with and without lost writes and      *)
(* crashes.                                                                *)
(***************************************************************************)
EXTENDS RenderReview, AudiobookJobProofs, FiniteSetTheorems

-----------------------------------------------------------------------------
(* Jobs as they are saved and copied                                       *)

\* What every saved row is, whoever saves it
Sound(j) ==
  /\ j \in Jobs /\ SnapshotAccepted(j)
  /\ j.state # "pending" /\ j.book # NoBook /\ Directed(j.direction)

(* Reopening a completed job leaves a sound one under review.              *)
LEMMA SoundReopened ==
  ASSUME NEW j, Sound(j), j.state = "completed"
  PROVE  /\ Sound(ReopenForReview(j))
         /\ ReopenForReview(j).state = "awaiting_review"
         /\ ReopenForReview(j).stage = "directing"
<1> DEFINE k == ReopenForReview(j)
<1>1. /\ j \in Jobs /\ HeaderAccepted(j) /\ WarningsAccepted(j)
      /\ j.book # NoBook /\ Directed(j.direction)
  BY DEF Sound, SnapshotAccepted
<1>2. /\ k \in Jobs /\ Kept(j, k)
      /\ k.state = "awaiting_review" /\ k.stage = "directing" /\ k.revision = NoRevision
      /\ k.error = FALSE /\ k.onChapter = FALSE /\ k.msg = "review"
      /\ k.done = 0 /\ k.total = 0
  BY <1>1, CommandsTyped, ReopenedFields
<1> HIDE DEF k
<1>3. HeaderAccepted(k) /\ WarningsAccepted(k)
  BY <1>1, <1>2 DEF Kept, HeaderAccepted, WarningsAccepted
<1>4. LifecycleAccepted(k)
  BY <1>1, <1>2, LifecycleByState DEF Kept, AwaitingReviewAccepted
<1>5. Sound(k)
  BY <1>1, <1>2, <1>3, <1>4 DEF Sound, Kept, SnapshotAccepted
<1> QED
  BY <1>2, <1>5 DEF k

\* A sound job's validation, as the steps below use it
LEMMA SoundParts ==
  ASSUME NEW j
  PROVE  Sound(j) <=> /\ j \in Jobs /\ HeaderAccepted(j) /\ WarningsAccepted(j)
                      /\ LifecycleAccepted(j)
                      /\ j.state # "pending" /\ j.book # NoBook /\ Directed(j.direction)
  BY DEF Sound, SnapshotAccepted

\* A sound job's validation for one that leaves a sound job's book and direction alone
LEMMA SoundKept ==
  ASSUME NEW j, Sound(j), NEW k \in Jobs, Kept(j, k),
         k.state \in {"running", "failed", "abandoned", "completed"},
         (k.stage = "completed") <=> (k.state = "completed"),
         (k.revision # NoRevision) <=> (k.state = "completed"),
         k.error <=> (k.state = "failed"), k.done <= k.total,
         k.state = "failed" => k.msg = "error", k.state = "abandoned" => k.msg = "abandoned",
         StageAccepted(k)
  PROVE  Sound(k)
<1>1. /\ j \in Jobs /\ HeaderAccepted(j) /\ WarningsAccepted(j)
      /\ j.state # "pending" /\ j.book # NoBook /\ Directed(j.direction)
  BY SoundParts
<1>2. HeaderAccepted(k) /\ WarningsAccepted(k)
  BY <1>1 DEF Kept, HeaderAccepted, WarningsAccepted
<1>3. LifecycleAccepted(k)
  BY LifecycleByState
<1> QED
  BY <1>1, <1>2, <1>3, SoundParts DEF Kept

\* What a sound job is known to be
LEMMA SoundFacts ==
  ASSUME NEW j, Sound(j)
  PROVE  /\ j \in Jobs /\ j.done \in Nat /\ j.total \in Nat /\ j.done <= j.total
         /\ j.book # NoBook /\ j.error \in BOOLEAN
         /\ j.error <=> (j.state = "failed")
         /\ (j.stage = "completed") <=> (j.state = "completed")
         /\ (j.revision # NoRevision) <=> (j.state = "completed")
         /\ j.revision \in Nat \cup {NoRevision}
         /\ j.state = "awaiting_review" => j.stage = "directing" /\ j.total = 0
         /\ j.state # "awaiting_review" => StageAccepted(j)
<1>1. /\ j \in Jobs /\ HeaderAccepted(j) /\ LifecycleAccepted(j)
      /\ j.state # "pending" /\ j.book # NoBook
  BY SoundParts
<1>2. /\ j.done \in Nat /\ j.total \in Nat /\ j.error \in BOOLEAN
      /\ j.revision \in Nat \cup {NoRevision}
  BY <1>1 DEF Jobs
<1>3. /\ j.state = "awaiting_review" => j.stage = "directing" /\ j.total = 0
      /\ j.state # "awaiting_review" => StageAccepted(j)
  BY <1>1, LifecycleByState DEF AwaitingReviewAccepted
<1> QED
  BY <1>1, <1>2, <1>3 DEF HeaderAccepted

(* Failing or abandoning a running job keeps its stage and its count.      *)
LEMMA SoundStopped ==
  ASSUME NEW j, Sound(j), j.state = "running"
  PROVE  /\ Sound(Fail(j)) /\ Fail(j).state = "failed"
         /\ Fail(j).stage = j.stage /\ Fail(j).done = j.done
         /\ Sound(MarkAbandoned(j)) /\ MarkAbandoned(j).state = "abandoned"
         /\ MarkAbandoned(j).stage = j.stage /\ MarkAbandoned(j).done = j.done
<1>1. /\ j \in Jobs /\ j.done <= j.total /\ j.error = FALSE /\ j.revision = NoRevision
      /\ j.stage # "completed" /\ j.book # NoBook /\ StageAccepted(j)
  BY SoundFacts
<1>2. /\ Sound(Fail(j)) /\ Fail(j).state = "failed"
      /\ Fail(j).stage = j.stage /\ Fail(j).done = j.done
  <2> DEFINE k == Fail(j)
  <2>1. /\ k \in Jobs /\ Kept(j, k) /\ k.state = "failed" /\ k.error = TRUE
        /\ k.msg = "error" /\ k.stage = j.stage /\ k.revision = NoRevision
        /\ k.onChapter = j.onChapter /\ k.done = j.done /\ k.total = j.total
    BY <1>1, CommandsTyped, StoppedFields
  <2> HIDE DEF k
  <2>2. StageAccepted(k)
    BY <1>1, <2>1 DEF StageAccepted, Kept
  <2>3. Sound(k)
    BY <1>1, <2>1, <2>2, SoundKept
  <2> QED
    BY <2>1, <2>3 DEF k
<1>3. /\ Sound(MarkAbandoned(j)) /\ MarkAbandoned(j).state = "abandoned"
      /\ MarkAbandoned(j).stage = j.stage /\ MarkAbandoned(j).done = j.done
  <2> DEFINE k == MarkAbandoned(j)
  <2>1. /\ k \in Jobs /\ Kept(j, k) /\ k.state = "abandoned" /\ k.error = FALSE
        /\ k.msg = "abandoned" /\ k.stage = j.stage /\ k.revision = NoRevision
        /\ k.onChapter = j.onChapter /\ k.done = j.done /\ k.total = j.total
    BY <1>1, CommandsTyped, StoppedFields
  <2> HIDE DEF k
  <2>2. StageAccepted(k)
    BY <1>1, <2>1 DEF StageAccepted, Kept
  <2>3. Sound(k)
    BY <1>1, <2>1, <2>2, SoundKept
  <2> QED
    BY <2>1, <2>3 DEF k
<1> QED
  BY <1>2, <1>3

(* The claim of a render: running, at the count and total it was told.     *)
LEMMA SoundClaimed ==
  ASSUME NEW j, Sound(j), Renderable(j),
         NEW m \in Nat, NEW n \in Nat, n >= 1, m <= n, j.stage = "assembling" => m = n
  PROVE  /\ Sound(Claimed(j, m, n)) /\ Claimed(j, m, n).state = "running"
         /\ Claimed(j, m, n).done = m /\ Claimed(j, m, n).total = n
         /\ Claimed(j, m, n).stage
              = IF j.stage = "assembling" THEN "assembling" ELSE "rendering"
<1>1. j \in Jobs /\ j.book # NoBook
  BY SoundFacts
<1>2. CASE Interrupted(j)
  <2> DEFINE k == ResumeSegments(j, m, n)
  <2>1. Claimed(j, m, n) = k
    BY <1>2 DEF Claimed
  <2>2. j.stage \in {"rendering", "assembling"}
    BY <1>2 DEF Renderable, Interrupted
  <2>3. k \in Jobs
    BY <1>1, NumbersTyped
  <2>4. /\ Kept(j, k) /\ k.state = "running" /\ k.error = FALSE
        /\ k.stage = j.stage /\ k.revision = NoRevision /\ k.onChapter = FALSE
        /\ k.done = m /\ k.total = n
    BY <1>1 DEF ResumeSegments, Retaken, Jobs, Kept
  <2> HIDE DEF k
  <2>5. StageAccepted(k)
    BY <1>1, <2>2, <2>4 DEF StageAccepted, Kept
  <2>6. k.stage # "completed" /\ k.done <= k.total
    BY <2>2, <2>4
  <2>7. Sound(k)
    BY <2>3, <2>4, <2>5, <2>6, SoundKept
  <2> QED
    BY <2>1, <2>2, <2>4, <2>7
<1>3. CASE ~Interrupted(j)
  <2> DEFINE i == ResumeApprovedRender(j)
  <2> DEFINE k == BeginRendering(i, m, n)
  <2>1. Claimed(j, m, n) = k
    BY <1>3 DEF Claimed
  <2>2. /\ j.state = "awaiting_review" /\ j.stage = "directing"
        /\ j.error = FALSE /\ j.revision = NoRevision
    BY <1>3, SoundFacts DEF Renderable
  <2>3. /\ i \in Jobs /\ Kept(j, i) /\ i.state = "running" /\ i.error = FALSE
        /\ i.revision = NoRevision
    BY <1>1, <2>2, CommandsTyped, ApprovedFields
  <2> HIDE DEF i
  <2>4. k \in Jobs
    BY <2>3, NumbersTyped
  <2>5. /\ Kept(i, k) /\ k.state = "running" /\ k.error = FALSE
        /\ k.stage = "rendering" /\ k.revision = NoRevision /\ k.onChapter = FALSE
        /\ k.done = m /\ k.total = n
    BY <2>3 DEF BeginRendering, AdvanceTo, Reported, Jobs, Kept
  <2> HIDE DEF k
  <2>6. Kept(j, k)
    BY <2>3, <2>5 DEF Kept
  <2>7. StageAccepted(k) /\ k.done <= k.total
    BY <1>1, <2>5, <2>6 DEF StageAccepted, Kept
  <2>8. Sound(k)
    BY <2>4, <2>5, <2>6, <2>7, SoundKept
  <2> QED
    BY <2>1, <2>2, <2>5, <2>8
<1> QED
  BY <1>2, <1>3

(* What a run in the rendering stage does to the job it holds.             *)
LEMMA SoundRendering ==
  ASSUME NEW j, Sound(j), j.state = "running", j.stage = "rendering"
  PROVE  /\ Sound(ReportChapter(j)) /\ ReportChapter(j).state = "running"
         /\ ReportChapter(j).stage = "rendering" /\ ReportChapter(j).done = j.done
         /\ ReportChapter(j).total = j.total
         /\ j.done < j.total =>
              /\ Sound(RecordSegmentCompleted(j))
              /\ RecordSegmentCompleted(j).state = "running"
              /\ RecordSegmentCompleted(j).stage = "rendering"
              /\ RecordSegmentCompleted(j).done = j.done + 1
              /\ RecordSegmentCompleted(j).total = j.total
         /\ j.done = j.total =>
              /\ Sound(BeginAssembly(j)) /\ BeginAssembly(j).state = "running"
              /\ BeginAssembly(j).stage = "assembling" /\ BeginAssembly(j).done = j.done
              /\ BeginAssembly(j).total = j.total
<1>1. /\ j \in Jobs /\ j.done \in Nat /\ j.total \in Nat /\ j.done <= j.total
      /\ j.error = FALSE /\ j.revision = NoRevision /\ j.book # NoBook /\ StageAccepted(j)
  BY SoundFacts
<1>2. j.total >= 1
  BY <1>1 DEF StageAccepted
<1>3. Sound(ReportChapter(j))
  <2> DEFINE k == ReportChapter(j)
  <2>1. /\ k \in Jobs /\ Kept(j, k) /\ k.state = "running" /\ k.stage = "rendering"
        /\ k.error = FALSE /\ k.revision = NoRevision
        /\ k.done = j.done /\ k.total = j.total
    BY <1>1, CommandsTyped, RenderingFields
  <2> HIDE DEF k
  <2>2. StageAccepted(k)
    BY <1>1, <1>2, <2>1 DEF StageAccepted, Kept
  <2>3. Sound(k)
    BY <1>1, <2>1, <2>2, SoundKept
  <2> QED
    BY <2>3 DEF k
<1>4. ASSUME j.done < j.total PROVE Sound(RecordSegmentCompleted(j))
  <2> DEFINE k == RecordSegmentCompleted(j)
  <2>1. /\ k \in Jobs /\ Kept(j, k) /\ k.state = "running" /\ k.stage = "rendering"
        /\ k.error = FALSE /\ k.revision = NoRevision
        /\ k.done = j.done + 1 /\ k.total = j.total
    BY <1>1, CommandsTyped, RenderingFields
  <2> HIDE DEF k
  <2>2. StageAccepted(k) /\ k.done <= k.total
    BY <1>1, <1>2, <1>4, <2>1 DEF StageAccepted, Kept
  <2>3. Sound(k)
    BY <1>1, <2>1, <2>2, SoundKept
  <2> QED
    BY <2>3 DEF k
<1>5. ASSUME j.done = j.total PROVE Sound(BeginAssembly(j))
  <2> DEFINE k == BeginAssembly(j)
  <2>1. /\ k \in Jobs /\ Kept(j, k) /\ k.state = "running" /\ k.stage = "assembling"
        /\ k.error = FALSE /\ k.revision = NoRevision /\ k.onChapter = FALSE
        /\ k.done = j.done /\ k.total = j.total
    BY <1>1, CommandsTyped, RenderingFields
  <2> HIDE DEF k
  <2>2. StageAccepted(k)
    BY <1>1, <1>2, <1>5, <2>1 DEF StageAccepted, Kept
  <2>3. Sound(k)
    BY <1>1, <2>1, <2>2, SoundKept
  <2> QED
    BY <2>3 DEF k
<1> QED
  BY <1>1, <1>3, <1>4, <1>5, RenderingFields

(* An assembled job can be completed at any catalog revision.              *)
LEMMA SoundCompleted ==
  ASSUME NEW j, Sound(j), j.state = "running", j.stage = "assembling", NEW n \in Nat
  PROVE  /\ Sound(Complete(j, n))
         /\ Complete(j, n).state = "completed" /\ Complete(j, n).stage = "completed"
         /\ Complete(j, n).revision = n /\ Complete(j, n).done = j.done
<1> DEFINE k == Complete(j, n)
<1>1. /\ j \in Jobs /\ j.done <= j.total /\ j.error = FALSE /\ j.book # NoBook
      /\ StageAccepted(j)
  BY SoundFacts
<1>2. /\ k \in Jobs /\ Kept(j, k) /\ k.state = "completed" /\ k.stage = "completed"
      /\ k.revision = n /\ k.error = FALSE /\ k.onChapter = FALSE /\ k.msg = "completed"
      /\ k.done = j.done /\ k.total = j.total
  BY <1>1, CompleteTyped, CompletedFields
<1> HIDE DEF k
<1>3. StageAccepted(k)
  BY <1>1, <1>2 DEF StageAccepted, Kept
<1>4. k.revision # NoRevision
  BY <1>2 DEF NoRevision
<1>5. Sound(k)
  BY <1>1, <1>2, <1>3, <1>4, SoundKept
<1> QED
  BY <1>2, <1>5 DEF k

(* A freshly directed job is under review.                                 *)
LEMMA SoundDirected ==
  ASSUME NEW b \in Books, NEW c \in Digests
  PROVE  /\ Sound(DirectedJob(b, c))
         /\ DirectedJob(b, c).state = "awaiting_review"
         /\ DirectedJob(b, c).stage = "directing"
<1> DEFINE j1 == BindCommand(NewJob, c)
<1> DEFINE j2 == Start(j1)
<1> DEFINE j3 == AttachBook(j2, b)
<1> DEFINE j4 == BeginDirection(j3, 1, 1)
<1> DEFINE j5 == RecordDirectionProgress(j4, 1, 1)
<1> DEFINE j6 == BindRenderContract(j5, c)
<1> DEFINE k == AwaitReview(j6)
<1> DEFINE Fresh(j) == /\ j.command = c /\ j.revision = NoRevision /\ j.done = 0
                       /\ j.total = 0 /\ j.warnings = {} /\ j.error = FALSE
<1>1. j1 \in Jobs /\ Fresh(j1)
  <2>1. j1 \in Jobs
    BY ConstructorTyped, BindingsTyped
  <2> QED
    BY <2>1, ConstructorTyped DEF BindCommand, NewJob, Jobs
<1>2. j2 \in Jobs /\ Fresh(j2)
  <2> HIDE DEF j1
  <2>1. j2 \in Jobs
    BY <1>1, CommandsTyped
  <2> QED
    BY <1>1, <2>1 DEF Start, Reported, Jobs
<1>3. j3 \in Jobs /\ Fresh(j3) /\ j3.book = b
  <2> HIDE DEF j2
  <2>1. j3 \in Jobs
    BY <1>2, AttachBookTyped
  <2> QED
    BY <1>2, <2>1 DEF AttachBook, Jobs
<1>4. /\ j4 \in Jobs /\ Fresh(j4) /\ j4.book = b /\ j4.stage = "directing"
      /\ j4.direction.ofChapters = 1 /\ j4.direction.ofPassages = 1
  <2> HIDE DEF j3
  <2>1. j4 \in Jobs
    BY <1>3, NumbersTyped
  <2> QED
    BY <1>3, <2>1 DEF BeginDirection, AdvanceTo, Reported, Jobs
<1>5. /\ j5 \in Jobs /\ Fresh(j5) /\ j5.book = b /\ j5.stage = "directing"
      /\ j5.direction.ofChapters = 1 /\ j5.direction.ofPassages = 1
      /\ j5.direction.chapters = 1 /\ j5.direction.passages = 1
  <2> HIDE DEF j4
  <2>1. j5 \in Jobs
    BY <1>4, NumbersTyped
  <2> QED
    BY <1>4, <2>1 DEF RecordDirectionProgress, Jobs, Directions
<1>6. /\ j6 \in Jobs /\ Fresh(j6) /\ j6.book = b /\ j6.stage = "directing"
      /\ j6.direction = j5.direction
  <2> HIDE DEF j5
  <2>1. j6 \in Jobs
    BY <1>5, BindingsTyped
  <2> QED
    BY <1>5, <2>1 DEF BindRenderContract, Jobs
<1>7. /\ k \in Jobs /\ Fresh(k) /\ k.book = b /\ k.stage = "directing"
      /\ k.direction = j5.direction /\ k.state = "awaiting_review" /\ k.onChapter = FALSE
      /\ k.msg = "review"
  <2> HIDE DEF j6
  <2>1. k \in Jobs
    BY <1>6, CommandsTyped
  <2> QED
    BY <1>6, <2>1 DEF AwaitReview, Jobs
<1>8. k = DirectedJob(b, c)
  BY DEF DirectedJob
<1>9. b # NoBook /\ c # NoDigest
  BY NullsAssumption
<1> HIDE DEF j5, k
<1>10. Directed(k.direction) /\ ValidDirection(k.direction)
  BY <1>5, <1>7 DEF Directed, ValidDirection, ValidTotals
<1>11. HeaderAccepted(k) /\ WarningsAccepted(k) /\ AwaitingReviewAccepted(k)
  BY <1>7, <1>9, <1>10 DEF HeaderAccepted, WarningsAccepted, AwaitingReviewAccepted
<1>12. Sound(k)
  BY <1>7, <1>9, <1>10, <1>11, LifecycleByState, SoundParts
<1> QED
  BY <1>7, <1>8, <1>12

-----------------------------------------------------------------------------
(* The inductive invariant                                                 *)

\* What a segment may have been rendered for up to now
Takes == [Segments -> 0..catalog.revision]

AllIn(takes) == \A s \in Fallback : takes[s] # None

\* The segments of one set of approvals that are durable
Durable(takes, recordings) == {s \in Segments : takes[s] \in recordings[s]}

\* What the row counts as done was durable for the approvals of some revision
Honest(j, past, recordings) ==
  j.stage \in {"rendering", "assembling", "completed"} =>
    \E i \in DOMAIN past : j.done <= Cardinality(Durable(past[i], recordings))

\* The catalog's revision is the latest of the history
CatalogInv ==
  /\ catalog \in [revision : Nat, approvals : Takes, excluded : SUBSET Fallback,
                  grant : SUBSET Fallback]
  /\ history \in Seq(Takes) /\ Len(history) = catalog.revision + 1
  /\ history[catalog.revision + 1] = catalog.approvals

AudioInv == audio \in [Segments -> SUBSET (0..catalog.revision)]

RowInv ==
  /\ Sound(row) /\ Honest(row, history, audio)
  /\ row.state = "completed" <=> output # {}
  /\ row.state = "completed" => row.revision <= catalog.revision
  /\ \A takes \in output : takes = history[row.revision + 1] /\ AllIn(takes)

-----------------------------------------------------------------------------

Claims == {"claim", "save", "render", "check", "recheck", "commit"}

Gated == {"plan", "regate"} \cup Claims

Runs ==
  [pc : {"idle", "load", "authorize", "section", "reopen", "abandon", "gate", "caught"} \cup Gated,
   kind : {"render", "direct"}, recover : BOOLEAN, job : Jobs,
   next : {"idle", "render", "recheck"}, approvals : Takes, revision : Nat,
   missing : SUBSET Segments]

\* What a run read through a gate is what some revision decided, every line of it
GateInv ==
  /\ run.revision <= catalog.revision
  /\ run.approvals = history[run.revision + 1] /\ AllIn(run.approvals)
  /\ row.state = "completed" => row.revision <= run.revision

\* A run that has claimed the job counts what is durable for the approvals it renders
ClaimInv ==
  /\ Sound(run.job) /\ run.job.state = "running"
  /\ run.job.stage \in {"rendering", "assembling"}
  /\ run.job.done = Cardinality(Segments \ run.missing)
  /\ run.job.total = Cardinality(Segments)
  /\ run.job.stage = "assembling" => run.missing = {}
  /\ run.pc = "save" => run.next = IF run.job.stage = "rendering" THEN "render" ELSE "recheck"
  /\ run.pc = "render" => run.job.stage = "rendering"
  /\ run.pc = "check" => run.missing = {}
  /\ run.pc \in {"recheck", "commit"} => run.job.stage = "assembling"

RunInv ==
  /\ run \in Runs
  /\ run.pc \in {"authorize", "section", "reopen"} =>
       Sound(run.job) /\ run.job.state = "completed"
  /\ run.pc \in {"abandon", "caught"} =>
       Sound(run.job) /\ run.job.state = "running" /\ Honest(run.job, history, audio)
  /\ run.pc \in {"gate", "plan", "regate"} => Sound(run.job) /\ Renderable(run.job)
  /\ run.pc \in Gated => GateInv
  /\ run.pc \in {"regate"} \cup Claims =>
       Segments \ run.missing \subseteq Durable(run.approvals, audio)
  /\ run.pc = "regate" /\ run.job.stage = "assembling" => run.missing = {}
  /\ run.pc \in Claims => ClaimInv

-----------------------------------------------------------------------------

Deciding == {"decide", "reconcile", "reread", "resave"}

Reviews ==
  [pc : {"idle", "loaded", "waiting"} \cup Deciding,
   op : {"none", "approve", "revoke", "grant", "ungrant"}, segment : SUBSET Fallback,
   job : Jobs, rest : SUBSET Fallback]

ReviewInv ==
  /\ reviewer \in [Reviewers -> Reviews]
  /\ \A r \in Reviewers :
       /\ reviewer[r].pc \in {"loaded", "waiting", "resave"} => Sound(reviewer[r].job)
       /\ ReviewerAt(r, "resave") => reviewer[r].job.state = "completed"
       /\ reviewer[r].op \in {"approve", "revoke"} =>
            \E s \in Fallback : reviewer[r].segment = {s}
       /\ ReviewerAt(r, "reconcile") => reviewer[r].rest \cap catalog.excluded = {}

Reading == {"preliminary", "waiting", "minting", "denied", "reopening"}

Reads ==
  [pc : {"idle", "opening", "streaming"} \cup Reading, job : Jobs, live : Nat, takes : Takes]

\* A reader's copy of the job is no newer than what anybody may complete
Abreast(v) ==
  /\ v.pc \in Reading =>
       /\ Sound(v.job) /\ v.job.state = "completed"
       /\ v.job.revision <= catalog.revision
       /\ row.state = "completed" => v.job.revision <= row.revision
       /\ run.pc \in Gated => v.job.revision <= run.revision
  /\ v.pc = "minting" => v.live = catalog.revision
  /\ v.pc = "opening" => v.takes = catalog.approvals

ReadInv == reader \in [Readers -> Reads] /\ \A d \in Readers : Abreast(reader[d])

-----------------------------------------------------------------------------

Actors == Reviewers \cup Readers \cup {"run"}

Queued(a) == \E i \in 1..Len(queue) : queue[i] = a

Holds(a) == queue # <<>> /\ queue[1] = a

\* Whoever waits for the catalog section is queued, whoever is inside holds it
QueueInv ==
  /\ queue \in Seq(Actors)
  /\ run.pc = "section" => Queued("run")
  /\ \A r \in Reviewers :
       /\ ReviewerAt(r, "waiting") => Queued(r)
       /\ reviewer[r].pc \in Deciding => Holds(r)
  /\ \A d \in Readers :
       /\ ReaderAt(d, "waiting") => Queued(d)
       /\ reader[d].pc \in {"minting", "opening"} => Holds(d)

IInv == CatalogInv /\ AudioInv /\ RowInv /\ RunInv /\ ReviewInv /\ ReadInv /\ QueueInv

-----------------------------------------------------------------------------
(* Which steps touch what                                                  *)

\* The steps that decide something
Decides(r) == ReviewSegment(r) \/ ReviewUngrant(r) \/ ReviewGrant(r) \/ ReviewReconcile(r)

(* Only a decision moves the catalog.                                      *)
LEMMA CatalogFrame ==
  ASSUME Next
  PROVE  UNCHANGED <<catalog, history>> \/ \E r \in Reviewers : Decides(r)
<1> USE DEF database, Elsewhere, Decides
<1>1. CASE Request
  BY <1>1 DEF Request, Ask, Enqueue, DropRequest, EnqueueRecovery, ReviewLoad, ReadLoad
<1>2. CASE Run
  BY <1>2 DEF Run, RunLoad, RunAuthorize, RunSection, RunReopen, RunAbandon, RunGate, RunPlan,
              RunPlanFails, RunRegate, RunClaim, RunSave, RunSegment, RunRendered, RunCheck,
              RunRecheck, RunCommit, RunThrows, RunCatch, RunRefused, RunWriteLost
<1>3. CASE Crash
  BY <1>3 DEF Crash
<1>4. ASSUME NEW r \in Reviewers, Review(r) PROVE UNCHANGED <<catalog, history>> \/ Decides(r)
  BY <1>4 DEF Review, ReviewJoin, ReviewEnter, ReviewRejected, ReviewReread, ReviewResave,
              ReviewWriteLost
<1>5. ASSUME NEW d \in Readers, Read(d) PROVE UNCHANGED <<catalog, history>>
  BY <1>5 DEF Read, ReadPreliminary, ReadEnter, ReadMint, ReadOpened, ReadClose, ReadDenied,
              ReadReopen
<1> QED
  BY <1>1, <1>2, <1>3, <1>4, <1>5 DEF Next

(* Only a rendered segment adds a recording.                               *)
LEMMA AudioFrame ==
  ASSUME Next
  PROVE  UNCHANGED audio \/ RunSegment
<1> USE DEF database, Elsewhere
<1>1. CASE Request
  BY <1>1 DEF Request, Ask, Enqueue, DropRequest, EnqueueRecovery, ReviewLoad, ReadLoad
<1>2. CASE Run
  BY <1>2 DEF Run, RunLoad, RunAuthorize, RunSection, RunReopen, RunAbandon, RunGate, RunPlan,
              RunPlanFails, RunRegate, RunClaim, RunSave, RunRendered, RunCheck,
              RunRecheck, RunCommit, RunThrows, RunCatch, RunRefused, RunWriteLost
<1>3. CASE Crash
  BY <1>3 DEF Crash
<1>4. ASSUME NEW r \in Reviewers, Review(r) PROVE UNCHANGED audio
  BY <1>4 DEF Review, ReviewJoin, ReviewEnter, ReviewRejected, ReviewReread, ReviewResave,
              ReviewWriteLost, ReviewSegment, ReviewUngrant, ReviewGrant, ReviewReconcile
<1>5. ASSUME NEW d \in Readers, Read(d) PROVE UNCHANGED audio
  BY <1>5 DEF Read, ReadPreliminary, ReadEnter, ReadMint, ReadOpened, ReadClose, ReadDenied,
              ReadReopen
<1> QED
  BY <1>1, <1>2, <1>3, <1>4, <1>5 DEF Next

\* The steps that reopen a completed job
Reopens ==
  \/ RunReopen
  \/ \E r \in Reviewers : ReviewEnter(r) \/ ReviewResave(r)
  \/ \E d \in Readers : ReadReopen(d)

\* The steps in which a run saves what became of its claim
RunSaves == RunAbandon \/ RunPlanFails \/ RunClaim \/ RunSave \/ RunCatch

(* The row and the output are written in one step.                         *)
LEMMA RowFrame ==
  ASSUME Next
  PROVE  UNCHANGED <<row, output>> \/ Reopens \/ RunSaves \/ RunCommit
<1> USE DEF database, Elsewhere, Reopens, RunSaves
<1>1. CASE Request
  BY <1>1 DEF Request, Ask, Enqueue, DropRequest, EnqueueRecovery, ReviewLoad, ReadLoad
<1>2. CASE Run
  BY <1>2 DEF Run, RunLoad, RunAuthorize, RunSection, RunGate, RunPlan, RunRegate, RunSegment,
              RunRendered, RunCheck, RunRecheck, RunThrows, RunRefused, RunWriteLost
<1>3. CASE Crash
  BY <1>3 DEF Crash
<1>4. ASSUME NEW r \in Reviewers, Review(r)
      PROVE  UNCHANGED <<row, output>> \/ ReviewEnter(r) \/ ReviewResave(r)
  BY <1>4 DEF Review, ReviewJoin, ReviewRejected, ReviewReread,
              ReviewWriteLost, ReviewSegment, ReviewUngrant, ReviewGrant, ReviewReconcile
<1>5. ASSUME NEW d \in Readers, Read(d) PROVE UNCHANGED <<row, output>> \/ ReadReopen(d)
  BY <1>5 DEF Read, ReadPreliminary, ReadEnter, ReadMint, ReadOpened, ReadClose, ReadDenied
<1> QED
  BY <1>1, <1>2, <1>3, <1>4, <1>5 DEF Next

(* Who is running, deciding or reading changes by own steps, requests and  *)
(* the death of the process.                                               *)
LEMMA ActorFrame ==
  ASSUME Next
  PROVE  /\ UNCHANGED run \/ Run \/ Crash \/ Enqueue \/ EnqueueRecovery
         /\ UNCHANGED reviewer \/ Crash \/ \E r \in Reviewers : ReviewLoad(r) \/ Review(r)
         /\ UNCHANGED reader \/ Crash \/ \E d \in Readers : ReadLoad(d) \/ Read(d)
<1>1. CASE Request
  BY <1>1 DEF Request, Ask, Enqueue, DropRequest, EnqueueRecovery, ReviewLoad, ReadLoad
<1>2. CASE Run
  BY <1>2 DEF Run, RunLoad, RunAuthorize, RunSection, RunReopen, RunAbandon, RunGate, RunPlan,
              RunPlanFails, RunRegate, RunClaim, RunSave, RunSegment, RunRendered, RunCheck,
              RunRecheck, RunCommit, RunThrows, RunCatch, RunRefused, RunWriteLost, Elsewhere
<1>3. CASE Crash
  BY <1>3
<1>4. ASSUME NEW r \in Reviewers, Review(r) PROVE UNCHANGED <<run, reader>>
  BY <1>4 DEF Review, ReviewJoin, ReviewEnter, ReviewRejected, ReviewReread, ReviewResave,
              ReviewWriteLost, ReviewSegment, ReviewUngrant, ReviewGrant, ReviewReconcile
<1>5. ASSUME NEW d \in Readers, Read(d) PROVE UNCHANGED <<run, reviewer>>
  BY <1>5 DEF Read, ReadPreliminary, ReadEnter, ReadMint, ReadOpened, ReadClose, ReadDenied,
              ReadReopen
<1> QED
  BY <1>1, <1>2, <1>3, <1>4, <1>5 DEF Next

-----------------------------------------------------------------------------
(* The catalog and the recordings only grow                                *)

\* What no step undoes
Grows ==
  /\ catalog.revision <= catalog'.revision
  /\ Len(history) <= Len(history')
  /\ \A i \in 1..Len(history) : history'[i] = history[i]

(* What was rendered for a revision stays rendered for a revision.         *)
LEMMA TakesGrow ==
  ASSUME catalog.revision \in Nat, catalog'.revision \in Nat,
         catalog.revision <= catalog'.revision
  PROVE  Takes \subseteq Takes'
<1>1. 0..catalog.revision \subseteq 0..catalog'.revision
  OBVIOUS
<1> QED
  BY <1>1 DEF Takes

(* A committed decision is the next revision.                              *)
LEMMA CommitGrows ==
  ASSUME CatalogInv, NEW c, Commit(c),
         c \in [revision : Nat, approvals : [Segments -> 0..(catalog.revision + 1)],
                excluded : SUBSET Fallback, grant : SUBSET Fallback]
  PROVE  /\ CatalogInv' /\ Grows
         /\ catalog'.approvals = c.approvals /\ catalog'.excluded = c.excluded
         /\ catalog'.revision = catalog.revision + 1
<1>1. /\ catalog' = [c EXCEPT !.revision = catalog.revision + 1]
      /\ history' = Append(history, c.approvals)
  BY DEF Commit
<1>2. /\ catalog.revision \in Nat /\ history \in Seq(Takes)
      /\ Len(history) = catalog.revision + 1
  BY DEF CatalogInv
<1>3. /\ catalog'.approvals = c.approvals /\ catalog'.excluded = c.excluded
      /\ catalog'.grant = c.grant /\ catalog'.revision = catalog.revision + 1
  BY <1>1
<1>4. Takes' = [Segments -> 0..(catalog.revision + 1)]
  BY <1>3 DEF Takes
<1>5. history \in Seq(Takes') /\ c.approvals \in Takes'
  <2>1. Takes \subseteq Takes'
    BY <1>2, <1>3, TakesGrow
  <2> QED
    BY <1>2, <1>4, <2>1
<1>6. /\ history' \in Seq(Takes') /\ Len(history') = Len(history) + 1
      /\ history'[Len(history) + 1] = c.approvals
      /\ \A i \in 1..Len(history) : history'[i] = history[i]
  <2> HIDE DEF Takes
  <2> QED
    BY <1>1, <1>5
<1>7. catalog' \in [revision : Nat, approvals : Takes', excluded : SUBSET Fallback,
                    grant : SUBSET Fallback]
  <2> DEFINE T == Takes'
  <2>1. /\ c \in [revision : Nat, approvals : T, excluded : SUBSET Fallback,
                  grant : SUBSET Fallback]
        /\ catalog.revision + 1 \in Nat
    BY <1>2, <1>4
  <2> HIDE DEF T
  <2>2. catalog' \in [revision : Nat, approvals : T, excluded : SUBSET Fallback,
                      grant : SUBSET Fallback]
    BY <1>1, <2>1
  <2> QED
    BY <2>2 DEF T
<1> QED
  BY <1>2, <1>3, <1>6, <1>7 DEF CatalogInv, Grows

(* Approving and withdrawing one line.                                     *)
LEMMA SegmentCommitted ==
  ASSUME CatalogInv, NEW s \in Fallback
  PROVE  /\ SaveApproval(s) =>
              CatalogInv' /\ Grows /\ catalog'.excluded = catalog.excluded \ {s}
         /\ Withdraw(s) => CatalogInv' /\ Grows /\ catalog.excluded \subseteq catalog'.excluded
<1>1. s \in Segments
  BY ScriptAssumption
<1>2. /\ catalog \in [revision : Nat, approvals : [Segments -> 0..catalog.revision],
                      excluded : SUBSET Fallback, grant : SUBSET Fallback]
      /\ catalog.revision \in Nat
  BY DEF CatalogInv, Takes
<1> DEFINE wider == [Segments -> 0..(catalog.revision + 1)]
<1>3. catalog.approvals \in wider
  BY <1>2
<1>4. ASSUME SaveApproval(s)
      PROVE  CatalogInv' /\ Grows /\ catalog'.excluded = catalog.excluded \ {s}
  <2> DEFINE c == [catalog EXCEPT !.approvals[s] = catalog.revision + 1, !.excluded = @ \ {s}]
  <2>1. [catalog.approvals EXCEPT ![s] = catalog.revision + 1] \in wider
    BY <1>1, <1>2, <1>3
  <2>2. c = [catalog EXCEPT !.approvals = [catalog.approvals EXCEPT ![s] = catalog.revision + 1],
                            !.excluded = catalog.excluded \ {s}]
    BY <1>2
  <2>3. /\ c \in [revision : Nat, approvals : wider, excluded : SUBSET Fallback,
                  grant : SUBSET Fallback]
        /\ c.excluded = catalog.excluded \ {s}
    BY <1>2, <2>1, <2>2
  <2>4. Commit(c)
    BY <1>4 DEF SaveApproval
  <2> HIDE DEF c
  <2> QED
    BY <2>3, <2>4, CommitGrows
<1>5. ASSUME Withdraw(s)
      PROVE  CatalogInv' /\ Grows /\ catalog.excluded \subseteq catalog'.excluded
  <2> DEFINE c == [catalog EXCEPT !.approvals[s] = None, !.excluded = @ \cup {s}]
  <2>1. [catalog.approvals EXCEPT ![s] = None] \in wider
    BY <1>1, <1>2, <1>3 DEF None
  <2>2. c = [catalog EXCEPT !.approvals = [catalog.approvals EXCEPT ![s] = None],
                            !.excluded = catalog.excluded \cup {s}]
    BY <1>2
  <2>3. /\ c \in [revision : Nat, approvals : wider, excluded : SUBSET Fallback,
                  grant : SUBSET Fallback]
        /\ c.excluded = catalog.excluded \cup {s}
    BY <1>2, <2>1, <2>2
  <2>4. Commit(c)
    BY <1>5 DEF Withdraw
  <2> HIDE DEF c
  <2> QED
    BY <2>3, <2>4, CommitGrows
<1> QED
  BY <1>4, <1>5

(* Giving and taking back a grant for the book.                            *)
LEMMA GrantCommitted ==
  ASSUME CatalogInv
  PROVE  /\ \A subjects \in SUBSET Fallback : SaveBookGrant(subjects) =>
              CatalogInv' /\ Grows /\ catalog'.excluded = catalog.excluded
         /\ RevokeBookGrant => CatalogInv' /\ Grows /\ catalog'.excluded = catalog.excluded
<1>1. ASSUME NEW subjects \in SUBSET Fallback, Commit([catalog EXCEPT !.grant = subjects])
      PROVE  CatalogInv' /\ Grows /\ catalog'.excluded = catalog.excluded
  <2> DEFINE c == [catalog EXCEPT !.grant = subjects]
  <2>1. /\ catalog \in [revision : Nat, approvals : [Segments -> 0..catalog.revision],
                        excluded : SUBSET Fallback, grant : SUBSET Fallback]
        /\ catalog.revision \in Nat
    BY DEF CatalogInv, Takes
  <2>2. catalog.approvals \in [Segments -> 0..(catalog.revision + 1)]
    BY <2>1
  <2>3. /\ c \in [revision : Nat, approvals : [Segments -> 0..(catalog.revision + 1)],
                  excluded : SUBSET Fallback, grant : SUBSET Fallback]
        /\ c.excluded = catalog.excluded
    BY <2>1, <2>2
  <2> HIDE DEF c
  <2> QED
    BY <1>1, <2>3, CommitGrows DEF c
<1>2. ASSUME NEW subjects \in SUBSET Fallback, SaveBookGrant(subjects)
      PROVE  CatalogInv' /\ Grows /\ catalog'.excluded = catalog.excluded
  BY <1>1, <1>2 DEF SaveBookGrant
<1>3. ASSUME RevokeBookGrant
      PROVE  CatalogInv' /\ Grows /\ catalog'.excluded = catalog.excluded
  BY <1>1, <1>3 DEF RevokeBookGrant
<1> QED
  BY <1>2, <1>3

(* Every step leaves a catalog whose revision is the latest of a longer or *)
(* the same history.                                                       *)
LEMMA CatalogStep ==
  ASSUME CatalogInv, ReviewInv, Next
  PROVE  CatalogInv' /\ Grows
<1>1. CASE UNCHANGED <<catalog, history>>
  <2>1. /\ catalog.revision \in Nat /\ Len(history) \in Nat
    BY DEF CatalogInv
  <2> QED
    BY <1>1, <2>1 DEF CatalogInv, Takes, Grows
<1>2. ASSUME NEW r \in Reviewers, Decides(r) PROVE CatalogInv' /\ Grows
  <2>1. reviewer[r].segment \subseteq Fallback /\ reviewer[r].rest \subseteq Fallback
    BY DEF ReviewInv, Reviews
  <2>2. CASE ReviewSegment(r)
    BY <2>1, <2>2, SegmentCommitted DEF ReviewSegment
  <2>3. CASE ReviewUngrant(r)
    BY <2>3, GrantCommitted DEF ReviewUngrant
  <2>4. CASE ReviewGrant(r)
    <3>1. PICK subjects \in SUBSET Offerable \ {{}} : SaveBookGrant(subjects)
      BY <2>4 DEF ReviewGrant
    <3>2. subjects \in SUBSET Fallback
      BY DEF Offerable
    <3> QED
      BY <3>1, <3>2, GrantCommitted
  <2>5. CASE ReviewReconcile(r)
    BY <2>1, <2>5, SegmentCommitted DEF ReviewReconcile
  <2> QED
    BY <1>2, <2>2, <2>3, <2>4, <2>5 DEF Decides
<1> QED
  BY <1>1, <1>2, CatalogFrame

(* A recording is of some decision, and is never taken away.               *)
LEMMA AudioStep ==
  ASSUME CatalogInv, AudioInv, RunInv, Next, CatalogInv', Grows
  PROVE  AudioInv' /\ \A s \in Segments : audio[s] \subseteq audio'[s]
<1>1. 0..catalog.revision \subseteq 0..catalog'.revision
  BY DEF CatalogInv, Grows
<1>2. CASE UNCHANGED audio
  BY <1>1, <1>2 DEF AudioInv
<1>3. CASE RunSegment
  <2>1. PICK s \in run.missing : audio' = [audio EXCEPT ![s] = @ \cup {run.approvals[s]}]
    BY <1>3 DEF RunSegment
  <2>2. s \in Segments /\ run.approvals \in [Segments -> 0..catalog.revision]
    BY DEF RunInv, Runs, Takes
  <2>3. run.approvals[s] \in 0..catalog.revision
    BY <2>2
  <2> QED
    BY <1>1, <2>1, <2>2, <2>3 DEF AudioInv
<1> QED
  BY <1>2, <1>3, AudioFrame

-----------------------------------------------------------------------------
(* Counting what is durable                                                *)

(* What was durable for some approvals stays durable for them.             *)
LEMMA DurableGrows ==
  ASSUME NEW takes, NEW a, NEW b, \A s \in Segments : a[s] \subseteq b[s]
  PROVE  /\ Durable(takes, a) \subseteq Durable(takes, b)
         /\ Cardinality(Durable(takes, a)) <= Cardinality(Durable(takes, b))
         /\ Cardinality(Durable(takes, a)) \in Nat
<1>1. Durable(takes, a) \subseteq Durable(takes, b) /\ Durable(takes, b) \subseteq Segments
  BY DEF Durable
<1>2. IsFiniteSet(Durable(takes, b))
  BY <1>1, ScriptAssumption, FS_Subset
<1>3. /\ IsFiniteSet(Durable(takes, a))
      /\ Cardinality(Durable(takes, a)) <= Cardinality(Durable(takes, b))
  BY <1>1, <1>2, FS_Subset
<1> QED
  BY <1>1, <1>3, FS_CardinalityType

(* An honest count stays honest.                                           *)
LEMMA HonestGrows ==
  ASSUME NEW j, CatalogInv, Grows, j.done \in Nat, Honest(j, history, audio),
         \A s \in Segments : audio[s] \subseteq audio'[s]
  PROVE  Honest(j, history', audio')
<1>1. SUFFICES ASSUME j.stage \in {"rendering", "assembling", "completed"}
               PROVE  \E i \in DOMAIN history' :
                        j.done <= Cardinality(Durable(history'[i], audio'))
  BY DEF Honest
<1>2. PICK i \in DOMAIN history : j.done <= Cardinality(Durable(history[i], audio))
  BY <1>1 DEF Honest
<1>3. DOMAIN history = 1..Len(history)
  BY DEF CatalogInv
<1>4. i \in DOMAIN history' /\ history'[i] = history[i]
  BY <1>2, <1>3 DEF Grows
<1> QED
  BY <1>2, <1>4, DurableGrows

(* A claimed job counts what is durable for the approvals it renders, and  *)
(* those are the approvals of a revision of the catalog.                   *)
LEMMA ClaimHonest ==
  ASSUME CatalogInv, RunInv, run.pc \in Claims
  PROVE  /\ \E i \in DOMAIN history :
              run.job.done <= Cardinality(Durable(history[i], audio))
         /\ Honest(run.job, history, audio)
<1> DEFINE i == run.revision + 1
<1>1. /\ run.revision \in Nat /\ run.revision <= catalog.revision
      /\ run.approvals = history[i]
      /\ run.job.done = Cardinality(Segments \ run.missing)
      /\ Segments \ run.missing \subseteq Durable(run.approvals, audio)
  BY DEF RunInv, Runs, GateInv, ClaimInv, Gated
<1>2. i \in DOMAIN history
  BY <1>1 DEF CatalogInv
<1>3. IsFiniteSet(Durable(run.approvals, audio))
  BY ScriptAssumption, FS_Subset DEF Durable
<1>4. run.job.done <= Cardinality(Durable(history[i], audio))
  BY <1>1, <1>3, FS_Subset
<1> QED
  BY <1>2, <1>4 DEF Honest

(* A count of nothing is honest.                                           *)
LEMMA NothingHonest ==
  ASSUME CatalogInv, NEW j, j.done = 0
  PROVE  Honest(j, history, audio)
<1>1. 1 \in DOMAIN history
  BY DEF CatalogInv
<1>2. Cardinality(Durable(history[1], audio)) \in Nat
  <2>1. IsFiniteSet(Durable(history[1], audio))
    BY ScriptAssumption, FS_Subset DEF Durable
  <2> QED
    BY <2>1, FS_CardinalityType
<1> QED
  BY <1>1, <1>2 DEF Honest

(* The claim a failed plan leaves behind counts nothing.                   *)
LEMMA EmptyClaim ==
  ASSUME CatalogInv, RunInv, run.pc = "plan", run.job.state = "awaiting_review",
         NEW j, j = BeginRendering(ResumeApprovedRender(run.job), 0, Cardinality(Segments))
  PROVE  Sound(j) /\ j.state = "running" /\ Honest(j, history, audio)
<1>1. Sound(run.job) /\ Renderable(run.job)
  BY DEF RunInv
<1>2. j = Claimed(run.job, 0, Cardinality(Segments)) /\ run.job.stage # "assembling"
  BY <1>1, SoundFacts DEF Claimed, Interrupted
<1>3. Cardinality(Segments) \in Nat /\ Cardinality(Segments) >= 1
  BY ScriptAssumption, FS_CardinalityType, FS_EmptySet
<1>4. Sound(j) /\ j.state = "running" /\ j.done = 0
  BY <1>1, <1>2, <1>3, SoundClaimed
<1> QED
  BY <1>4, NothingHonest

\* What a step that replaces the row of an open job writes
Writes(j) ==
  /\ SaveJob(j) /\ Sound(j) /\ j.state # "completed" /\ Honest(j, history, audio)

(* Whoever saves the row saves a sound job, honest about its progress and  *)
(* without an output, but for the commit of a render.                      *)
LEMMA RowWritten ==
  ASSUME CatalogInv, RunInv, ReviewInv, ReadInv, Next
  PROVE  UNCHANGED <<row, output>> \/ RunCommit \/ \E j : Writes(j)
<1>1. ASSUME NEW j, Sound(j), j.state = "completed", SaveJob(ReopenForReview(j))
      PROVE  Writes(ReopenForReview(j))
  BY <1>1, SoundReopened DEF Writes, Honest
<1>2. CASE Reopens
  <2>1. CASE RunReopen
    BY <1>1, <2>1 DEF RunReopen, RunAt, RunInv
  <2>2. ASSUME NEW r \in Reviewers, ReviewEnter(r)
        PROVE  UNCHANGED <<row, output>> \/ \E j : Writes(j)
    BY <1>1, <2>2 DEF ReviewEnter, ReviewerAt, ReviewInv
  <2>3. ASSUME NEW r \in Reviewers, ReviewResave(r)
        PROVE  \E j : Writes(j)
    BY <1>1, <2>3 DEF ReviewResave, ReviewerAt, ReviewInv
  <2>4. ASSUME NEW d \in Readers, ReadReopen(d)
        PROVE  UNCHANGED <<row, output>> \/ \E j : Writes(j)
    BY <1>1, <2>4 DEF ReadReopen, ReaderAt, ReadInv, Abreast, Reading
  <2> QED
    BY <1>2, <2>1, <2>2, <2>3, <2>4 DEF Reopens
<1>3. CASE RunSaves
  <2>1. CASE RunAbandon
    <3>1. /\ SaveJob(MarkAbandoned(run.job)) /\ Sound(run.job) /\ run.job.state = "running"
          /\ Honest(run.job, history, audio)
      BY <2>1 DEF RunAbandon, RunAt, RunInv
    <3>2. Writes(MarkAbandoned(run.job))
      BY <3>1, SoundStopped DEF Writes, Honest
    <3> QED
      BY <3>2
  <2>2. CASE RunPlanFails
    <3>1. /\ SaveJob(BeginRendering(ResumeApprovedRender(run.job), 0, Cardinality(Segments)))
          /\ run.pc = "plan" /\ run.job.state = "awaiting_review"
      BY <2>2 DEF RunPlanFails, RunAt
    <3> QED
      BY <3>1, EmptyClaim DEF Writes
  <2>3. CASE RunClaim \/ RunSave
    <3>1. /\ run.pc \in Claims /\ SaveJob(run.job)
          /\ Sound(run.job) /\ run.job.state = "running"
      BY <2>3 DEF RunClaim, RunSave, RunAt, RunInv, ClaimInv, Claims
    <3> QED
      BY <3>1, ClaimHonest DEF Writes
  <2>4. CASE RunCatch
    <3>1. /\ SaveJob(Fail(run.job)) \/ SaveJob(MarkAbandoned(run.job))
          /\ Sound(run.job) /\ run.job.state = "running" /\ Honest(run.job, history, audio)
      BY <2>4 DEF RunCatch, RunAt, RunInv
    <3>2. Writes(Fail(run.job)) \/ Writes(MarkAbandoned(run.job))
      BY <3>1, SoundStopped DEF Writes, Honest
    <3> QED
      BY <3>2
  <2> QED
    BY <1>3, <2>1, <2>2, <2>3, <2>4 DEF RunSaves
<1> QED
  BY <1>2, <1>3, RowFrame

(* The row stays sound and honest, and an output stays what the revision   *)
(* of a completed row decided.                                             *)
LEMMA RowStep ==
  ASSUME CatalogInv, RowInv, RunInv, ReviewInv, ReadInv, Next,
         CatalogInv', Grows, \A s \in Segments : audio[s] \subseteq audio'[s]
  PROVE  RowInv'
<1>1. row.done \in Nat /\ (row.state = "completed" => row.revision \in Nat)
  BY SoundFacts DEF RowInv
<1>2. CASE UNCHANGED <<row, output>>
  <2>1. Honest(row, history', audio')
    BY <1>1, HonestGrows DEF RowInv
  <2>2. row.state = "completed" => row.revision <= catalog'.revision
    BY <1>1 DEF RowInv, Grows, CatalogInv
  <2>3. ASSUME NEW takes \in output
        PROVE  takes = history'[row.revision + 1] /\ AllIn(takes)
    <3>1. /\ row.revision \in Nat /\ row.revision <= catalog.revision
          /\ takes = history[row.revision + 1] /\ AllIn(takes)
      BY <1>1, <2>3 DEF RowInv
    <3>2. row.revision + 1 \in 1..Len(history)
      BY <3>1 DEF CatalogInv
    <3> QED
      BY <3>1, <3>2 DEF Grows
  <2> QED
    BY <1>2, <2>1, <2>2, <2>3 DEF RowInv, Sound, AllIn
<1>3. ASSUME NEW j, Writes(j) PROVE RowInv'
  <2>1. /\ row' = j /\ output' = {} /\ Sound(j) /\ j.state # "completed"
        /\ Honest(j, history, audio) /\ j.done \in Nat
    BY <1>3, SoundFacts DEF Writes, SaveJob
  <2>2. Honest(j, history', audio')
    BY <2>1, HonestGrows
  <2> QED
    BY <2>1, <2>2 DEF RowInv
<1>4. CASE RunCommit
  <2> DEFINE j == Complete(run.job, run.revision)
  <2>1. /\ row' = j /\ output' = {run.approvals} /\ run.pc = "commit"
        /\ catalog' = catalog /\ history' = history /\ audio' = audio
    BY <1>4 DEF RunCommit, RunAt
  <2>2. /\ run.revision \in Nat /\ run.revision <= catalog.revision
        /\ run.approvals = history[run.revision + 1] /\ AllIn(run.approvals)
        /\ Sound(run.job) /\ run.job.state = "running" /\ run.job.stage = "assembling"
    BY <2>1 DEF RunInv, Runs, Gated, Claims, GateInv, ClaimInv
  <2>3. /\ Sound(j) /\ j.state = "completed" /\ j.revision = run.revision
        /\ j.done = run.job.done
    BY <2>2, SoundCompleted
  <2> HIDE DEF j
  <2>4. Honest(j, history, audio)
    BY <2>1, <2>3, ClaimHonest DEF Honest, Claims
  <2> QED
    BY <2>1, <2>2, <2>3, <2>4 DEF RowInv, AllIn
<1> QED
  BY <1>2, <1>3, <1>4, RowWritten

-----------------------------------------------------------------------------
(* The run                                                                 *)

(* No run, and a run that was just enqueued, hold nothing yet.             *)
LEMMA NoRunInv ==
  ASSUME CatalogInv', run'.pc \in {"idle", "load"},
         run'.kind \in {"render", "direct"}, run'.recover \in BOOLEAN, run'.next = "idle",
         run' = [pc |-> run'.pc, kind |-> run'.kind, recover |-> run'.recover, job |-> NewJob,
                 next |-> run'.next, approvals |-> NoDecisions, revision |-> 0, missing |-> {}]
  PROVE  RunInv'
<1>1. NoDecisions \in Takes'
  BY DEF NoDecisions, Takes, None, CatalogInv
<1> DEFINE T == Takes'
<1> HIDE DEF T
<1>2. run' \in [pc : {"idle", "load", "authorize", "section", "reopen", "abandon", "gate",
                      "caught"} \cup Gated,
                kind : {"render", "direct"}, recover : BOOLEAN, job : Jobs,
                next : {"idle", "render", "recheck"}, approvals : T, revision : Nat,
                missing : SUBSET Segments]
  BY <1>1, ConstructorTyped DEF T
<1> QED
  BY <1>2 DEF RunInv, Runs, Gated, Claims, T

(* A run that takes no step loses nothing by the steps of others.          *)
LEMMA RunKept ==
  ASSUME CatalogInv, AudioInv, RowInv, RunInv, ReviewInv, ReadInv, Next, UNCHANGED run,
         CatalogInv', Grows, \A s \in Segments : audio[s] \subseteq audio'[s]
  PROVE  RunInv'
<1>1. run \in Runs'
  <2>1. Takes \subseteq Takes'
    BY TakesGrow DEF CatalogInv, Grows
  <2> DEFINE T == Takes
  <2> DEFINE U == Takes'
  <2>2. T \subseteq U
    BY <2>1
  <2>3. run \in [pc : {"idle", "load", "authorize", "section", "reopen", "abandon", "gate",
                       "caught"} \cup Gated,
                 kind : {"render", "direct"}, recover : BOOLEAN, job : Jobs,
                 next : {"idle", "render", "recheck"}, approvals : T, revision : Nat,
                 missing : SUBSET Segments]
    BY DEF RunInv, Runs
  <2> HIDE DEF T, U
  <2>4. run \in [pc : {"idle", "load", "authorize", "section", "reopen", "abandon", "gate",
                       "caught"} \cup Gated,
                 kind : {"render", "direct"}, recover : BOOLEAN, job : Jobs,
                 next : {"idle", "render", "recheck"}, approvals : U, revision : Nat,
                 missing : SUBSET Segments]
    BY <2>2, <2>3
  <2> QED
    BY <2>4 DEF Runs, U
<1>2. run.pc \in {"abandon", "caught"} => Honest(run.job, history', audio')
  <2>1. run.job.done \in Nat
    BY DEF RunInv, Runs, Jobs
  <2> QED
    BY <2>1, HonestGrows DEF RunInv
<1>3. run.pc \in Gated => GateInv'
  <2>1. SUFFICES ASSUME run.pc \in Gated PROVE GateInv'
    OBVIOUS
  <2>2. run.revision \in Nat /\ GateInv
    BY <2>1 DEF RunInv, Runs
  <2>3. run.revision <= catalog'.revision /\ run.approvals = history'[run.revision + 1]
    <3>1. run.revision + 1 \in 1..Len(history)
      BY <2>2 DEF GateInv, CatalogInv
    <3> QED
      BY <2>2, <3>1 DEF GateInv, CatalogInv, Grows
  <2>4. ~RunCommit
    BY DEF RunCommit, RunAt, NoRun
  <2>5. row'.state = "completed" => row' = row
    BY <2>4, RowWritten DEF Writes, SaveJob
  <2> QED
    BY <2>2, <2>3, <2>5 DEF GateInv, AllIn
<1>4. Durable(run.approvals, audio) \subseteq Durable(run.approvals, audio')
  BY DurableGrows
<1>5. run.pc \in Claims => ClaimInv'
  BY DEF RunInv, ClaimInv, Sound
<1> QED
  BY <1>1, <1>2, <1>3, <1>4, <1>5 DEF RunInv, Sound, Renderable, Interrupted

(* Where a render goes from the row it loaded.                             *)
LEMMA AfterLoadCases ==
  ASSUME NEW j
  PROVE  \/ AfterLoad(j) = "idle"
         \/ AfterLoad(j) = "abandon" /\ j.state = "running"
         \/ AfterLoad(j) = "authorize" /\ j.state = "completed"
         \/ AfterLoad(j) = "gate" /\ Renderable(j)
<1>1. CASE j.state = "running" /\ run.recover
  BY <1>1 DEF AfterLoad
<1>2. CASE ~(j.state = "running" /\ run.recover) /\ run.kind = "direct"
  BY <1>2 DEF AfterLoad
<1>3. CASE ~(j.state = "running" /\ run.recover) /\ run.kind # "direct" /\ j.state = "completed"
  BY <1>3 DEF AfterLoad
<1>4. CASE /\ ~(j.state = "running" /\ run.recover) /\ run.kind # "direct"
           /\ j.state # "completed" /\ j.state = "abandoned" /\ ~run.recover
  BY <1>4 DEF AfterLoad
<1>5. CASE /\ ~(j.state = "running" /\ run.recover) /\ run.kind # "direct"
           /\ j.state # "completed" /\ ~(j.state = "abandoned" /\ ~run.recover)
           /\ Renderable(j)
  BY <1>5 DEF AfterLoad
<1>6. CASE /\ ~(j.state = "running" /\ run.recover) /\ run.kind # "direct"
           /\ j.state # "completed" /\ ~(j.state = "abandoned" /\ ~run.recover)
           /\ ~Renderable(j)
  BY <1>6 DEF AfterLoad
<1> QED
  BY <1>1, <1>2, <1>3, <1>4, <1>5, <1>6

(* What a gate read stays what its revision decided.                       *)
LEMMA GateKept ==
  ASSUME GateInv, UNCHANGED <<catalog, history>>,
         run'.revision = run.revision, run'.approvals = run.approvals,
         row' = row \/ row'.state # "completed"
  PROVE  GateInv'
  BY DEF GateInv, AllIn

(* The steps before the claim.                                             *)
LEMMA RunBeforeClaim ==
  ASSUME CatalogInv, AudioInv, RowInv, RunInv, CatalogInv',
         RunLoad \/ RunAuthorize \/ RunSection \/ RunReopen \/ RunAbandon
  PROVE  RunInv'
<1>1. UNCHANGED <<catalog, history, audio>>
  BY DEF RunLoad, RunAuthorize, RunSection, RunReopen, RunAbandon, database
<1>2. Runs' = Runs /\ Takes' = Takes
  BY <1>1 DEF Runs, Takes
<1>3. ASSUME run' = NoRun PROVE RunInv'
  BY <1>3, NoRunInv DEF NoRun
<1>4. run \in Runs
  BY DEF RunInv
<1>5. CASE RunLoad
  <2>1. CASE AfterLoad(row) = "idle"
    BY <1>3, <1>5, <2>1 DEF RunLoad
  <2>2. CASE AfterLoad(row) # "idle"
    <3>1. /\ run' = [run EXCEPT !.pc = AfterLoad(row), !.job = row]
          /\ Sound(row) /\ row \in Jobs /\ Honest(row, history, audio)
      BY <1>5, <2>2 DEF RunLoad, RowInv, Sound
    <3>2. /\ run' \in Runs /\ run'.job = row /\ run'.pc = AfterLoad(row)
      BY <1>4, <2>2, <3>1, AfterLoadCases DEF Runs
    <3> QED
      BY <1>1, <1>2, <2>2, <3>1, <3>2, AfterLoadCases DEF RunInv, Gated, Claims
  <2> QED
    BY <2>1, <2>2
<1>6. CASE RunAuthorize
  <2>1. /\ run' \in Runs /\ run'.job = run.job /\ run'.pc \in {"section", "reopen"}
        /\ Sound(run.job) /\ run.job.state = "completed"
    BY <1>4, <1>6 DEF RunAuthorize, RunAt, Goes, Runs, RunInv
  <2> QED
    BY <1>1, <1>2, <2>1 DEF RunInv, Gated, Claims
<1>7. CASE RunSection
  <2>1. CASE run' = NoRun
    BY <1>3, <2>1
  <2>2. CASE run' # NoRun
    <3>1. /\ run' \in Runs /\ run'.job = run.job /\ run'.pc = "reopen"
          /\ Sound(run.job) /\ run.job.state = "completed"
      BY <1>4, <1>7, <2>2 DEF RunSection, RunAt, Goes, Runs, RunInv
    <3> QED
      BY <1>1, <1>2, <3>1 DEF RunInv, Gated, Claims
  <2> QED
    BY <2>1, <2>2
<1>8. CASE RunReopen
  <2> DEFINE j == ReopenForReview(run.job)
  <2>1. Sound(run.job) /\ run.job.state = "completed"
    BY <1>8 DEF RunReopen, RunAt, RunInv
  <2>2. Sound(j) /\ j.state = "awaiting_review" /\ j \in Jobs
    BY <2>1, SoundReopened, SoundFacts
  <2>3. run' = [run EXCEPT !.pc = "gate", !.job = j]
    BY <1>8 DEF RunReopen
  <2> HIDE DEF j
  <2>4. run' \in Runs /\ run'.job = j /\ run'.pc = "gate"
    BY <1>4, <2>2, <2>3 DEF Runs
  <2> QED
    BY <1>1, <1>2, <2>2, <2>4 DEF RunInv, Gated, Claims, Renderable
<1>9. CASE RunAbandon
  <2> DEFINE j == MarkAbandoned(run.job)
  <2>1. Sound(run.job) /\ run.job.state = "running"
    BY <1>9 DEF RunAbandon, RunAt, RunInv
  <2>2. Sound(j) /\ j \in Jobs
    BY <2>1, SoundStopped, SoundFacts
  <2>3. \/ run' = NoRun
        \/ run' = [run EXCEPT !.pc = "gate", !.job = j] /\ Renderable(j)
    BY <1>9 DEF RunAbandon
  <2> HIDE DEF j
  <2>4. CASE run' = [run EXCEPT !.pc = "gate", !.job = j] /\ Renderable(j)
    <3>1. run' \in Runs /\ run'.job = j /\ run'.pc = "gate"
      BY <1>4, <2>2, <2>4 DEF Runs
    <3> QED
      BY <1>1, <1>2, <2>2, <2>4, <3>1 DEF RunInv, Gated, Claims
  <2> QED
    BY <1>3, <2>3, <2>4
<1> QED
  BY <1>5, <1>6, <1>7, <1>8, <1>9

(* The steps from the first gate to the claim.                             *)
LEMMA RunToClaim ==
  ASSUME CatalogInv, AudioInv, RowInv, RunInv, CatalogInv',
         RunGate \/ RunPlan \/ RunPlanFails \/ RunRegate
  PROVE  RunInv'
<1>1. UNCHANGED <<catalog, history, audio>>
  BY DEF RunGate, RunPlan, RunPlanFails, RunRegate, database
<1>2. Runs' = Runs /\ Takes' = Takes
  BY <1>1 DEF Runs, Takes
<1>3. ASSUME run' = NoRun PROVE RunInv'
  BY <1>3, NoRunInv DEF NoRun
<1>4. run \in Runs
  BY DEF RunInv
<1>5. CASE RunGate
  <2>1. /\ row' = row /\ Sound(run.job) /\ Renderable(run.job)
        /\ row.state = "completed" => row.revision <= catalog.revision
    BY <1>5 DEF RunGate, RunAt, RunInv, RowInv, database
  <2>2. CASE run' = NoRun
    BY <1>3, <2>2
  <2>3. CASE run' # NoRun
    <3>1. /\ AllDecided(catalog)
          /\ run' = [run EXCEPT !.pc = "plan", !.approvals = catalog.approvals,
                                !.revision = catalog.revision]
      BY <1>5, <2>3 DEF RunGate
    <3>2. /\ catalog.approvals \in Takes /\ catalog.revision \in Nat
          /\ history[catalog.revision + 1] = catalog.approvals
      BY DEF CatalogInv
    <3>3. /\ run' \in Runs /\ run'.job = run.job /\ run'.pc = "plan"
          /\ run'.approvals = catalog.approvals /\ run'.revision = catalog.revision
      BY <1>4, <3>1, <3>2 DEF Runs, Gated
    <3>4. GateInv'
      BY <1>1, <2>1, <3>1, <3>2, <3>3 DEF GateInv, AllIn, AllDecided
    <3> QED
      BY <1>1, <1>2, <2>1, <3>3, <3>4 DEF RunInv, Claims
  <2> QED
    BY <2>2, <2>3
<1>6. CASE RunPlan
  <2> DEFINE missing == {s \in Segments : run.approvals[s] \notin audio[s]}
  <2>1. /\ row' = row /\ Sound(run.job) /\ Renderable(run.job) /\ GateInv
    BY <1>6 DEF RunPlan, RunAt, RunInv, Gated, database
  <2>2. CASE run' = NoRun
    BY <1>3, <2>2
  <2>3. CASE run' # NoRun
    <3>1. /\ run.job.stage = "assembling" => missing = {}
          /\ run' = [run EXCEPT !.pc = "regate", !.missing = missing]
      BY <1>6, <2>3 DEF RunPlan
    <3>2. /\ run' \in Runs /\ run'.job = run.job /\ run'.pc = "regate"
          /\ run'.approvals = run.approvals /\ run'.revision = run.revision
          /\ run'.missing = missing
      BY <1>4, <3>1 DEF Runs, Gated
    <3>3. GateInv'
      BY <1>1, <2>1, <3>2, GateKept
    <3>4. Segments \ missing \subseteq Durable(run.approvals, audio)
      BY DEF Durable
    <3> QED
      BY <1>1, <1>2, <2>1, <3>1, <3>2, <3>3, <3>4 DEF RunInv, Claims
  <2> QED
    BY <2>2, <2>3
<1>7. CASE RunPlanFails
  <2> DEFINE j == BeginRendering(ResumeApprovedRender(run.job), 0, Cardinality(Segments))
  <2>1. /\ run' = [run EXCEPT !.pc = "caught", !.job = j]
        /\ run.pc = "plan" /\ run.job.state = "awaiting_review"
    BY <1>7 DEF RunPlanFails, RunAt
  <2>2. Sound(j) /\ j \in Jobs /\ j.state = "running" /\ Honest(j, history, audio)
    BY <2>1, EmptyClaim, SoundFacts
  <2> HIDE DEF j
  <2>3. run' \in Runs /\ run'.job = j /\ run'.pc = "caught"
    BY <1>4, <2>1, <2>2 DEF Runs
  <2> QED
    BY <1>1, <1>2, <2>2, <2>3 DEF RunInv, Gated, Claims
<1>8. CASE RunRegate
  <2> DEFINE done == Cardinality(Segments \ run.missing)
  <2> DEFINE total == Cardinality(Segments)
  <2> DEFINE j == Claimed(run.job, done, total)
  <2>1. /\ row' = row /\ Sound(run.job) /\ Renderable(run.job) /\ GateInv
        /\ Segments \ run.missing \subseteq Durable(run.approvals, audio)
        /\ run.job.stage = "assembling" => run.missing = {}
    BY <1>8 DEF RunRegate, RunAt, RunInv, Gated, database
  <2>2. CASE run' = NoRun
    BY <1>3, <2>2
  <2>3. CASE run' # NoRun
    <3>1. /\ catalog.revision = run.revision
          /\ run' = [run EXCEPT !.pc = "claim", !.revision = catalog.revision, !.job = j]
      BY <1>8, <2>3 DEF RunRegate
    <3>2. /\ done \in Nat /\ total \in Nat /\ done <= total /\ total >= 1
          /\ run.job.stage = "assembling" => done = total
      <4>1. IsFiniteSet(Segments \ run.missing) /\ done <= total
        BY ScriptAssumption, FS_Subset
      <4>2. done \in Nat
        BY <4>1, FS_CardinalityType
      <4>3. total \in Nat /\ total # 0
        BY ScriptAssumption, FS_CardinalityType, FS_EmptySet
      <4>4. run.job.stage = "assembling" => Segments \ run.missing = Segments
        BY <2>1
      <4> QED
        BY <4>1, <4>2, <4>3, <4>4
    <3>3. /\ Sound(j) /\ j.state = "running" /\ j.done = done /\ j.total = total
          /\ j.stage = IF run.job.stage = "assembling" THEN "assembling" ELSE "rendering"
      BY <2>1, <3>2, SoundClaimed
    <3>4. j \in Jobs
      BY <3>3, SoundFacts
    <3> HIDE DEF j
    <3>5. /\ run' \in Runs /\ run'.job = j /\ run'.pc = "claim"
          /\ run'.approvals = run.approvals /\ run'.revision = run.revision
          /\ run'.missing = run.missing
      BY <1>4, <3>1, <3>4 DEF Runs, Gated, Claims
    <3>6. GateInv'
      BY <1>1, <2>1, <3>5, GateKept
    <3>7. ClaimInv'
      BY <2>1, <3>3, <3>5 DEF ClaimInv
    <3>8. Segments \ run'.missing \subseteq Durable(run'.approvals, audio')
      BY <1>1, <2>1, <3>5
    <3> HIDE DEF done, total
    <3> QED
      BY <1>2, <3>5, <3>6, <3>7, <3>8 DEF RunInv, Gated, Claims
  <2> QED
    BY <2>2, <2>3
<1> QED
  BY <1>5, <1>6, <1>7, <1>8

(* The saves of a claimed run.                                             *)
LEMMA RunClaimSaved ==
  ASSUME CatalogInv, AudioInv, RowInv, RunInv, CatalogInv', RunClaim \/ RunSave
  PROVE  RunInv'
<1>1. /\ UNCHANGED <<catalog, history, audio>> /\ row' = run.job
      /\ run.pc \in {"claim", "save"}
  BY DEF RunClaim, RunSave, RunAt, SaveJob
<1>2. Runs' = Runs /\ Takes' = Takes
  BY <1>1 DEF Runs, Takes
<1>3. /\ run \in Runs /\ GateInv /\ ClaimInv
      /\ Segments \ run.missing \subseteq Durable(run.approvals, audio)
  BY <1>1 DEF RunInv, Gated, Claims
<1>4. /\ Sound(run.job) /\ run.job.state = "running"
      /\ run.job.stage \in {"rendering", "assembling"}
      /\ run.job.stage = "assembling" => run.missing = {}
  BY <1>3 DEF ClaimInv
<1>5. GateInv /\ row'.state # "completed"
  BY <1>1, <1>3, <1>4
<1>6. CASE RunClaim /\ run.job.stage = "assembling"
  <2>1. /\ run' \in Runs /\ run'.job = run.job /\ run'.pc = "check"
        /\ run'.approvals = run.approvals /\ run'.revision = run.revision
        /\ run'.missing = run.missing
    BY <1>3, <1>6 DEF RunClaim, Runs, Gated, Claims
  <2>2. GateInv'
    BY <1>1, <1>5, <2>1, GateKept
  <2>3. ClaimInv'
    BY <1>3, <1>4, <1>6, <2>1 DEF ClaimInv, Sound
  <2> QED
    BY <1>1, <1>2, <1>3, <2>1, <2>2, <2>3 DEF RunInv, Gated, Claims
<1>7. CASE RunClaim /\ run.job.stage # "assembling"
  <2> DEFINE j == ReportChapter(run.job)
  <2>1. /\ Sound(j) /\ j.state = "running" /\ j.stage = "rendering" /\ j.done = run.job.done
        /\ j.total = run.job.total /\ j \in Jobs
    BY <1>4, <1>7, SoundRendering, SoundFacts
  <2>2. run' = [run EXCEPT !.pc = "save", !.next = "render", !.job = j]
    BY <1>7 DEF RunClaim
  <2> HIDE DEF j
  <2>3. /\ run' \in Runs /\ run'.job = j /\ run'.pc = "save" /\ run'.next = "render"
        /\ run'.approvals = run.approvals /\ run'.revision = run.revision
        /\ run'.missing = run.missing
    BY <1>3, <2>1, <2>2 DEF Runs, Gated, Claims
  <2>4. GateInv'
    BY <1>1, <1>5, <2>3, GateKept
  <2>5. ClaimInv'
    BY <1>3, <2>1, <2>3 DEF ClaimInv
  <2> QED
    BY <1>1, <1>2, <1>3, <2>3, <2>4, <2>5 DEF RunInv, Gated, Claims
<1>8. CASE RunSave
  <2>1. /\ run.pc = "save" /\ run' = [run EXCEPT !.pc = run.next]
        /\ run.next = IF run.job.stage = "rendering" THEN "render" ELSE "recheck"
    BY <1>3, <1>8 DEF RunSave, RunAt, Goes, ClaimInv
  <2>2. /\ run' \in Runs /\ run'.job = run.job /\ run'.pc = run.next
        /\ run'.approvals = run.approvals /\ run'.revision = run.revision
        /\ run'.missing = run.missing
    BY <1>3, <2>1 DEF Runs, Gated, Claims
  <2>3. GateInv'
    BY <1>1, <1>5, <2>2, GateKept
  <2>4. ClaimInv'
    BY <1>3, <1>4, <2>1, <2>2 DEF ClaimInv, Sound
  <2> QED
    BY <1>1, <1>2, <1>3, <2>1, <2>2, <2>3, <2>4 DEF RunInv, Gated, Claims
<1> QED
  BY <1>6, <1>7, <1>8

(* One more segment is durable, and counted.                               *)
LEMMA RunSegmentCounted ==
  ASSUME CatalogInv, AudioInv, RowInv, RunInv, CatalogInv', RunSegment
  PROVE  RunInv'
<1>1. PICK s \in run.missing :
        /\ audio' = [audio EXCEPT ![s] = @ \cup {run.approvals[s]}]
        /\ run' = [run EXCEPT !.pc = "save", !.next = "render", !.missing = @ \ {s},
                              !.job = RecordSegmentCompleted(@)]
  BY DEF RunSegment
<1>2. /\ UNCHANGED <<row, catalog, history>> /\ run.pc = "render"
  BY DEF RunSegment, RunAt
<1>3. Runs' = Runs /\ Takes' = Takes
  BY <1>2 DEF Runs, Takes
<1>4. /\ run \in Runs /\ GateInv /\ ClaimInv
      /\ Segments \ run.missing \subseteq Durable(run.approvals, audio)
      /\ run.missing \subseteq Segments
  BY <1>2 DEF RunInv, Runs, Gated, Claims
<1>5. /\ Sound(run.job) /\ run.job.state = "running" /\ run.job.stage = "rendering"
      /\ run.job.done = Cardinality(Segments \ run.missing)
      /\ run.job.total = Cardinality(Segments)
  BY <1>2, <1>4 DEF ClaimInv
<1> DEFINE rest == run.missing \ {s}
<1>6. /\ Cardinality(Segments \ rest) = run.job.done + 1
      /\ run.job.done < run.job.total
  <2>1. /\ Segments \ rest = (Segments \ run.missing) \cup {s}
        /\ s \notin Segments \ run.missing
    BY <1>4
  <2>2. IsFiniteSet(Segments \ run.missing) /\ IsFiniteSet(Segments \ rest)
    BY ScriptAssumption, FS_Subset
  <2>3. Cardinality(Segments \ rest) = Cardinality(Segments \ run.missing) + 1
    BY <2>1, <2>2, FS_AddElement
  <2>4. Cardinality(Segments \ rest) <= Cardinality(Segments)
    BY ScriptAssumption, FS_Subset
  <2>5. Cardinality(Segments) \in Nat /\ Cardinality(Segments \ run.missing) \in Nat
    BY <2>2, ScriptAssumption, FS_CardinalityType
  <2> QED
    BY <1>5, <2>3, <2>4, <2>5
<1> DEFINE j == RecordSegmentCompleted(run.job)
<1>7. /\ Sound(j) /\ j.state = "running" /\ j.stage = "rendering"
      /\ j.done = run.job.done + 1 /\ j.total = run.job.total
  BY <1>5, <1>6, SoundRendering
<1>8. j \in Jobs
  BY <1>7, SoundFacts
<1>9. run' = [run EXCEPT !.pc = "save", !.next = "render", !.missing = rest, !.job = j]
  BY <1>1
<1> HIDE DEF j
<1>10. /\ run' \in Runs /\ run'.job = j /\ run'.pc = "save" /\ run'.next = "render"
       /\ run'.approvals = run.approvals /\ run'.revision = run.revision
       /\ run'.missing = rest
  BY <1>4, <1>8, <1>9 DEF Runs, Gated, Claims
<1>11. GateInv'
  BY <1>2, <1>4, <1>10, GateKept
<1>12. ClaimInv'
  BY <1>5, <1>6, <1>7, <1>10 DEF ClaimInv
<1>13. Segments \ rest \subseteq Durable(run.approvals, audio')
  <2>1. audio \in [Segments -> SUBSET (0..catalog.revision)] /\ s \in Segments
    BY <1>4 DEF AudioInv
  <2> QED
    BY <1>1, <1>4, <2>1 DEF Durable
<1> QED
  BY <1>2, <1>3, <1>10, <1>11, <1>12, <1>13 DEF RunInv, Gated, Claims

(* From the last segment to the commit, and out of it.                     *)
LEMMA RunToCommit ==
  ASSUME CatalogInv, AudioInv, RowInv, RunInv, CatalogInv',
         RunRendered \/ RunCheck \/ RunRecheck \/ RunThrows
  PROVE  RunInv'
<1>1. /\ UNCHANGED <<row, catalog, history, audio>>
      /\ run.pc \in {"save", "render", "check", "recheck"}
  BY DEF RunRendered, RunCheck, RunRecheck, RunThrows, RunAt, database
<1>2. Runs' = Runs /\ Takes' = Takes
  BY <1>1 DEF Runs, Takes
<1>3. /\ run \in Runs /\ GateInv /\ ClaimInv
      /\ Segments \ run.missing \subseteq Durable(run.approvals, audio)
  BY <1>1 DEF RunInv, Gated, Claims
<1>4. /\ Sound(run.job) /\ run.job.state = "running"
      /\ run.job.stage \in {"rendering", "assembling"}
      /\ run.job.done = Cardinality(Segments \ run.missing)
      /\ run.job.total = Cardinality(Segments)
      /\ Honest(run.job, history, audio)
  BY <1>1, <1>3, ClaimHonest DEF ClaimInv, Claims
<1>5. ASSUME run' = [run EXCEPT !.pc = "caught"] PROVE RunInv'
  <2>1. run' \in Runs /\ run'.job = run.job /\ run'.pc = "caught"
    BY <1>3, <1>5 DEF Runs
  <2> QED
    BY <1>1, <1>2, <1>4, <2>1 DEF RunInv, Gated, Claims
<1>6. ASSUME NEW pc \in Claims, run' = [run EXCEPT !.pc = pc], ClaimInv' PROVE RunInv'
  <2>1. /\ run' \in Runs /\ run'.pc = pc
        /\ run'.approvals = run.approvals /\ run'.revision = run.revision
        /\ run'.missing = run.missing
    BY <1>3, <1>6 DEF Runs, Gated
  <2>2. GateInv'
    BY <1>1, <1>3, <2>1, GateKept
  <2> QED
    BY <1>1, <1>2, <1>3, <1>6, <2>1, <2>2 DEF RunInv, Gated, Claims
<1>7. CASE RunRendered
  <2>1. run' = [run EXCEPT !.pc = "check"] /\ run.missing = {} /\ run.pc = "render"
    BY <1>7 DEF RunRendered, RunAt, Goes
  <2>2. /\ run'.job = run.job /\ run'.pc = "check" /\ run'.missing = {} /\ run'.next = run.next
    BY <1>3, <2>1 DEF Runs
  <2>3. ClaimInv'
    BY <1>3, <2>1, <2>2 DEF ClaimInv, Sound
  <2> QED
    BY <1>6, <2>1, <2>3 DEF Claims
<1>8. CASE RunCheck
  <2>1. run.pc = "check" /\ run.missing = {}
    BY <1>3, <1>8 DEF RunCheck, RunAt, ClaimInv
  <2>2. CASE run' = [run EXCEPT !.pc = "caught"]
    BY <1>5, <2>2
  <2>3. CASE run' = [run EXCEPT !.pc = "recheck"] /\ run.job.stage = "assembling"
    <3>1. /\ run'.job = run.job /\ run'.pc = "recheck" /\ run'.missing = {}
      BY <1>3, <2>1, <2>3 DEF Runs
    <3>2. ClaimInv'
      BY <1>3, <2>1, <2>3, <3>1 DEF ClaimInv, Sound
    <3> QED
      BY <1>6, <2>3, <3>2 DEF Claims
  <2>4. CASE /\ run' = [run EXCEPT !.pc = "save", !.next = "recheck", !.job = BeginAssembly(@)]
             /\ run.job.stage # "assembling"
    <3> DEFINE j == BeginAssembly(run.job)
    <3>1. /\ run.job.stage = "rendering" /\ run.job.done = run.job.total
      BY <1>4, <2>1, <2>4
    <3>2. /\ Sound(j) /\ j.state = "running" /\ j.stage = "assembling"
          /\ j.done = run.job.done /\ j.total = run.job.total
      BY <1>4, <3>1, SoundRendering
    <3>3. j \in Jobs
      BY <3>2, SoundFacts
    <3>4. run' = [run EXCEPT !.pc = "save", !.next = "recheck", !.job = j]
      BY <2>4
    <3> HIDE DEF j
    <3>5. /\ run' \in Runs /\ run'.job = j /\ run'.pc = "save" /\ run'.next = "recheck"
          /\ run'.approvals = run.approvals /\ run'.revision = run.revision
          /\ run'.missing = run.missing
      BY <1>3, <3>3, <3>4 DEF Runs, Gated, Claims
    <3>6. GateInv'
      BY <1>1, <1>3, <3>5, GateKept
    <3>7. ClaimInv'
      BY <1>4, <2>1, <3>2, <3>5 DEF ClaimInv
    <3> QED
      BY <1>1, <1>2, <1>3, <3>5, <3>6, <3>7 DEF RunInv, Gated, Claims
  <2> QED
    BY <1>8, <2>2, <2>3, <2>4 DEF RunCheck
<1>9. CASE RunRecheck
  <2>1. CASE run' = [run EXCEPT !.pc = "caught"]
    BY <1>5, <2>1
  <2>2. CASE run' = [run EXCEPT !.pc = "commit"]
    <3>1. run.pc = "recheck" /\ run.job.stage = "assembling" /\ run.missing = {}
      BY <1>3, <1>9 DEF RunRecheck, RunAt, ClaimInv
    <3>2. /\ run'.job = run.job /\ run'.pc = "commit" /\ run'.missing = {}
      BY <1>3, <2>2, <3>1 DEF Runs
    <3>3. ClaimInv'
      BY <1>3, <3>1, <3>2 DEF ClaimInv, Sound
    <3> QED
      BY <1>6, <2>2, <3>3 DEF Claims
  <2> QED
    BY <1>9, <2>1, <2>2 DEF RunRecheck, Goes
<1>10. CASE RunThrows
  BY <1>5, <1>10 DEF RunThrows, Goes
<1> QED
  BY <1>7, <1>8, <1>9, <1>10

(* What a run holds stays what the code may rely on.                       *)
LEMMA RunStep ==
  ASSUME CatalogInv, AudioInv, RowInv, RunInv, ReviewInv, ReadInv, Next,
         CatalogInv', Grows, \A s \in Segments : audio[s] \subseteq audio'[s]
  PROVE  RunInv'
<1>1. ASSUME run' = NoRun PROVE RunInv'
  BY <1>1, NoRunInv DEF NoRun
<1>2. CASE UNCHANGED run
  BY <1>2, RunKept
<1>3. CASE Crash
  BY <1>1, <1>3 DEF Crash
<1>4. CASE Enqueue
  <2>1. CASE UNCHANGED run
    BY <2>1, RunKept
  <2>2. CASE run' = [NoRun EXCEPT !.pc = "load", !.recover = (asked = "resume")]
    BY <2>2, NoRunInv DEF NoRun
  <2> QED
    BY <1>4, <2>1, <2>2 DEF Enqueue
<1>5. CASE EnqueueRecovery
  BY <1>5, NoRunInv DEF EnqueueRecovery, NoRun
<1>6. CASE Run
  <2>1. CASE RunCommit \/ RunCatch \/ RunRefused \/ RunWriteLost
    BY <1>1, <2>1 DEF RunCommit, RunCatch, RunRefused, RunWriteLost
  <2> QED
    BY <1>6, <2>1, RunBeforeClaim, RunToClaim, RunClaimSaved, RunSegmentCounted, RunToCommit
    DEF Run
<1> QED
  BY <1>2, <1>3, <1>4, <1>5, <1>6, ActorFrame

-----------------------------------------------------------------------------
(* The catalog section                                                     *)

(* Of two actors inside one is the other.                                  *)
LEMMA OneInside ==
  ASSUME NEW a, NEW b, Holds(a), Holds(b)
  PROVE  a = b
  BY DEF Holds

(* While a reviewer decides, no other does, and no reader is inside.       *)
LEMMA DecidesAlone ==
  ASSUME ReviewInv, QueueInv, NEW r \in Reviewers, Decides(r)
  PROVE  /\ \A q \in Reviewers : reviewer[q].pc \in Deciding => q = r
         /\ \A d \in Readers : reader[d].pc \notin {"minting", "opening"}
<1>1. reviewer[r].pc \in Deciding
  BY DEF Decides, ReviewSegment, ReviewUngrant, ReviewGrant, ReviewReconcile, ReviewerAt, Deciding
<1>2. Holds(r)
  BY <1>1 DEF QueueInv
<1>3. \A q \in Reviewers : reviewer[q].pc \in Deciding => q = r
  BY <1>2, OneInside DEF QueueInv
<1>4. ASSUME NEW d \in Readers PROVE reader[d].pc \notin {"minting", "opening"}
  BY <1>2, <1>4, OneInside, ActorsAssumption DEF QueueInv
<1> QED
  BY <1>3, <1>4

(* Nobody withdraws a line while a grant is being reconciled.              *)
LEMMA NothingWithdrawn ==
  ASSUME CatalogInv, ReviewInv, QueueInv, Next,
         NEW q \in Reviewers, ReviewerAt(q, "reconcile")
  PROVE  catalog'.excluded \subseteq catalog.excluded
<1>1. CASE UNCHANGED <<catalog, history>>
  BY <1>1
<1>2. ASSUME NEW r \in Reviewers, Decides(r)
      PROVE  catalog'.excluded \subseteq catalog.excluded
  <2>1. r = q
    BY <1>2, DecidesAlone DEF ReviewerAt, Deciding
  <2>2. ReviewReconcile(q)
    BY <1>2, <2>1 DEF Decides, ReviewSegment, ReviewUngrant, ReviewGrant, ReviewerAt
  <2>3. PICK s \in reviewer[q].rest : SaveApproval(s)
    BY <2>2 DEF ReviewReconcile
  <2>4. s \in Fallback
    BY DEF ReviewInv, Reviews
  <2> QED
    BY <2>3, <2>4, SegmentCommitted
<1> QED
  BY <1>1, <1>2, CatalogFrame

\* What is known of a reviewer, whatever its place
Settled(v) ==
  /\ v.pc \in {"loaded", "waiting", "resave"} => Sound(v.job)
  /\ v.pc = "resave" => v.job.state = "completed"
  /\ v.op \in {"approve", "revoke"} => \E s \in Fallback : v.segment = {s}

(* A step that gives one reviewer a new state.                             *)
LEMMA ReviewerReplaced ==
  ASSUME CatalogInv, ReviewInv, QueueInv, Next,
         NEW r \in Reviewers, NEW v \in Reviews, reviewer' = [reviewer EXCEPT ![r] = v],
         Settled(v), v.pc = "reconcile" => v.rest \cap catalog'.excluded = {}
  PROVE  ReviewInv'
<1>1. reviewer' \in [Reviewers -> Reviews]
  BY DEF ReviewInv
<1>2. ASSUME NEW q \in Reviewers, q # r
      PROVE  /\ reviewer'[q] = reviewer[q]
             /\ ReviewerAt(q, "reconcile") => reviewer[q].rest \cap catalog'.excluded = {}
  BY <1>2, NothingWithdrawn DEF ReviewInv
<1>3. reviewer'[r] = v
  BY DEF ReviewInv
<1> QED
  BY <1>1, <1>2, <1>3 DEF ReviewInv, Settled, ReviewerAt, Sound

(* Reviewers go on with what they read and were asked.                     *)
LEMMA ReviewStep ==
  ASSUME CatalogInv, RowInv, ReviewInv, QueueInv, Next
  PROVE  ReviewInv'
<1>1. NoReview \in Reviews /\ Settled(NoReview) /\ NoReview.pc = "idle"
  BY ConstructorTyped DEF NoReview, Reviews, Settled
<1>2. CASE UNCHANGED reviewer
  BY <1>2, NothingWithdrawn DEF ReviewInv, ReviewerAt
<1>3. CASE Crash
  <2>1. reviewer' = [r \in Reviewers |-> NoReview]
    BY <1>3 DEF Crash
  <2>2. reviewer' \in [Reviewers -> Reviews] /\ \A r \in Reviewers : reviewer'[r] = NoReview
    BY <1>1, <2>1
  <2> QED
    BY <2>2, <1>1 DEF ReviewInv, Settled, ReviewerAt, NoReview
<1>4. ASSUME NEW r \in Reviewers, reviewer' = [reviewer EXCEPT ![r] = NoReview]
      PROVE  ReviewInv'
  BY <1>1, <1>4, ReviewerReplaced
<1>5. ASSUME NEW r \in Reviewers, NEW pc \in {"waiting", "reread"},
             reviewer' = [reviewer EXCEPT ![r].pc = pc],
             pc = "waiting" => ReviewerAt(r, "loaded")
      PROVE  ReviewInv'
  <2> DEFINE v == [reviewer[r] EXCEPT !.pc = pc]
  <2>1. reviewer[r] \in Reviews /\ reviewer' = [reviewer EXCEPT ![r] = v]
    BY <1>5 DEF ReviewInv
  <2>2. v \in Reviews /\ v.pc = pc /\ v.job = reviewer[r].job /\ v.op = reviewer[r].op
        /\ v.segment = reviewer[r].segment
    BY <2>1 DEF Reviews, Deciding
  <2> HIDE DEF v
  <2>3. Settled(v)
    BY <1>5, <2>2 DEF ReviewInv, Settled, ReviewerAt
  <2> QED
    BY <2>1, <2>2, <2>3, ReviewerReplaced
<1>6. ASSUME NEW r \in Reviewers, ReviewerDecides(r) PROVE ReviewInv'
  <2> DEFINE v == [reviewer[r] EXCEPT !.pc = "decide", !.job = NewJob]
  <2>1. reviewer[r] \in Reviews /\ reviewer' = [reviewer EXCEPT ![r] = v]
    BY <1>6 DEF ReviewInv, ReviewerDecides
  <2>2. v \in Reviews /\ v.pc = "decide" /\ v.op = reviewer[r].op
        /\ v.segment = reviewer[r].segment
    BY <2>1, ConstructorTyped DEF Reviews, Deciding
  <2> HIDE DEF v
  <2>3. Settled(v)
    BY <2>2 DEF ReviewInv, Settled
  <2> QED
    BY <2>1, <2>2, <2>3, ReviewerReplaced
<1>7. ASSUME NEW r \in Reviewers, ReviewLoad(r) PROVE ReviewInv'
  <2>1. PICK op \in Decisions, s \in Fallback :
          reviewer' = [reviewer EXCEPT ![r] =
                         [NoReview EXCEPT !.pc = "loaded", !.op = op, !.job = row,
                            !.segment = IF op \in {"approve", "revoke"} THEN {s} ELSE {}]]
    BY <1>7 DEF ReviewLoad
  <2> DEFINE v == [NoReview EXCEPT !.pc = "loaded", !.op = op, !.job = row,
                     !.segment = IF op \in {"approve", "revoke"} THEN {s} ELSE {}]
  <2>2. row \in Jobs /\ Sound(row)
    BY SoundFacts DEF RowInv
  <2>3. /\ v \in Reviews /\ v.pc = "loaded" /\ v.job = row
        /\ v.op \in {"approve", "revoke"} => v.segment = {s}
    BY <2>2, ScriptAssumption DEF Reviews, NoReview
  <2>4. reviewer' = [reviewer EXCEPT ![r] = v]
    BY <2>1
  <2> HIDE DEF v
  <2>5. Settled(v)
    BY <2>2, <2>3 DEF Settled
  <2> QED
    BY <2>3, <2>4, <2>5, ReviewerReplaced
<1>8. ASSUME NEW r \in Reviewers, Review(r) PROVE ReviewInv'
  <2>1. CASE ReviewJoin(r)
    BY <1>5, <2>1 DEF ReviewJoin, ReviewerGoes
  <2>2. CASE ReviewSegment(r) \/ ReviewUngrant(r)
    <3>1. reviewer' = [reviewer EXCEPT ![r].pc = "reread"]
      BY <2>2 DEF ReviewSegment, ReviewUngrant, ReviewerGoes
    <3> QED
      BY <1>5, <3>1
  <2>3. CASE ReviewEnter(r)
    BY <1>4, <1>6, <2>3 DEF ReviewEnter, ReviewerLeaves
  <2>4. CASE ReviewRejected(r) \/ ReviewResave(r) \/ ReviewWriteLost(r)
    BY <1>4, <2>4 DEF ReviewRejected, ReviewResave, ReviewWriteLost, ReviewerLeaves
  <2>5. CASE ReviewGrant(r)
    <3>1. PICK subjects \in SUBSET Offerable \ {{}} :
            /\ SaveBookGrant(subjects)
            /\ reviewer' = [reviewer EXCEPT ![r].pc = "reconcile", ![r].rest = subjects]
      BY <2>5 DEF ReviewGrant
    <3> DEFINE v == [reviewer[r] EXCEPT !.pc = "reconcile", !.rest = subjects]
    <3>2. subjects \in SUBSET Fallback /\ subjects \cap catalog.excluded = {}
      BY DEF Offerable
    <3>3. catalog'.excluded = catalog.excluded
      BY <3>1, <3>2, GrantCommitted
    <3>4. reviewer[r] \in Reviews /\ reviewer' = [reviewer EXCEPT ![r] = v]
      BY <3>1 DEF ReviewInv
    <3>5. v \in Reviews /\ v.pc = "reconcile" /\ v.rest = subjects /\ v.op = reviewer[r].op
          /\ v.segment = reviewer[r].segment
      BY <3>2, <3>4 DEF Reviews, Deciding
    <3> HIDE DEF v
    <3>6. Settled(v)
      BY <3>5 DEF ReviewInv, Settled
    <3> QED
      BY <3>2, <3>3, <3>4, <3>5, <3>6, ReviewerReplaced
  <2>6. CASE ReviewReconcile(r)
    <3>1. PICK s \in reviewer[r].rest :
            LET rest == reviewer[r].rest \ {s}
            IN reviewer' = [reviewer EXCEPT ![r].rest = rest,
                              ![r].pc = IF rest = {} THEN "reread" ELSE @]
      BY <2>6 DEF ReviewReconcile
    <3> DEFINE rest == reviewer[r].rest \ {s}
    <3> DEFINE pc == IF rest = {} THEN "reread" ELSE "reconcile"
    <3> DEFINE v == [reviewer[r] EXCEPT !.rest = rest, !.pc = pc]
    <3>2. reviewer[r] \in Reviews /\ ReviewerAt(r, "reconcile")
      BY <2>6 DEF ReviewInv, ReviewReconcile
    <3>3. reviewer' = [reviewer EXCEPT ![r] = v]
      BY <3>1, <3>2 DEF ReviewInv, ReviewerAt
    <3>4. v \in Reviews /\ v.pc = pc /\ v.rest = rest /\ v.op = reviewer[r].op
          /\ v.segment = reviewer[r].segment
      BY <3>2 DEF Reviews, Deciding
    <3>5. reviewer[r].rest \cap catalog'.excluded = {}
      BY <3>2, NothingWithdrawn DEF ReviewInv
    <3>6. rest \cap catalog'.excluded = {}
      BY <3>5
    <3> HIDE DEF v
    <3>7. Settled(v)
      BY <3>4 DEF ReviewInv, Settled
    <3> QED
      BY <3>3, <3>4, <3>6, <3>7, ReviewerReplaced
  <2>7. CASE ReviewReread(r)
    <3>1. CASE reviewer' = [reviewer EXCEPT ![r] = NoReview]
      BY <1>4, <3>1
    <3>2. CASE /\ reviewer' = [reviewer EXCEPT ![r].pc = "resave", ![r].job = row]
               /\ row.state = "completed"
      <4> DEFINE v == [reviewer[r] EXCEPT !.pc = "resave", !.job = row]
      <4>1. reviewer[r] \in Reviews /\ reviewer' = [reviewer EXCEPT ![r] = v]
        BY <3>2 DEF ReviewInv
      <4>2. row \in Jobs /\ Sound(row)
        BY SoundFacts DEF RowInv
      <4>3. v \in Reviews /\ v.pc = "resave" /\ v.job = row /\ v.op = reviewer[r].op
            /\ v.segment = reviewer[r].segment
        BY <4>1, <4>2 DEF Reviews, Deciding
      <4> HIDE DEF v
      <4>4. Settled(v)
        BY <3>2, <4>2, <4>3 DEF ReviewInv, Settled
      <4> QED
        BY <4>1, <4>3, <4>4, ReviewerReplaced
    <3> QED
      BY <2>7, <3>1, <3>2 DEF ReviewReread, ReviewerLeaves
  <2> QED
    BY <1>8, <2>1, <2>2, <2>3, <2>4, <2>5, <2>6, <2>7 DEF Review
<1> QED
  BY <1>2, <1>3, <1>7, <1>8, ActorFrame

-----------------------------------------------------------------------------
(* The readers                                                             *)

(* A run that has read a gate keeps its revision until it reads the next.  *)
LEMMA GateRevision ==
  ASSUME CatalogInv, RunInv, Next, run'.pc \in Gated
  PROVE  \/ run'.revision = catalog.revision
         \/ run.pc \in Gated /\ run'.revision = run.revision
<1>1. run \in Runs
  BY DEF RunInv
<1>2. NoRun.pc \notin Gated /\ "load" \notin Gated /\ "caught" \notin Gated /\ "idle" \notin Gated
      /\ "abandon" \notin Gated /\ "authorize" \notin Gated /\ "gate" \notin Gated
      /\ "section" \notin Gated /\ "reopen" \notin Gated
  BY DEF NoRun, Gated, Claims
<1>3. CASE UNCHANGED run
  BY <1>3
<1>4. CASE Crash \/ Enqueue \/ EnqueueRecovery
  <2>1. UNCHANGED run \/ run' = NoRun \/ run'.pc = "load"
    BY <1>4 DEF Crash, Enqueue, EnqueueRecovery, NoRun
  <2> QED
    BY <1>2, <1>3, <2>1
<1>5. CASE RunLoad
  <2>1. run' = NoRun \/ run'.pc \in {"abandon", "authorize", "gate"}
    BY <1>1, <1>5, AfterLoadCases DEF RunLoad, Runs
  <2> QED
    BY <1>2, <2>1
<1>6. CASE RunAuthorize \/ RunSection \/ RunReopen \/ RunAbandon \/ RunThrows
  <2>1. run' = NoRun \/ run'.pc \in {"section", "reopen", "gate", "caught"}
    BY <1>1, <1>6 DEF RunAuthorize, RunSection, RunReopen, RunAbandon, RunThrows, Goes, Runs
  <2> QED
    BY <1>2, <2>1
<1>7. CASE RunPlanFails \/ RunCommit \/ RunCatch \/ RunRefused \/ RunWriteLost
  <2>1. run' = NoRun \/ run'.pc = "caught"
    BY <1>1, <1>7 DEF RunPlanFails, RunCommit, RunCatch, RunRefused, RunWriteLost, Runs
  <2> QED
    BY <1>2, <2>1
<1>8. CASE RunGate \/ RunRegate
  BY ZenonT(40), <1>1, <1>2, <1>8 DEF RunGate, RunRegate, Runs
<1>9. CASE RunPlan
  BY <1>1, <1>2, <1>9 DEF RunPlan, RunAt, Runs, Gated
<1>10. CASE RunClaim \/ RunSave \/ RunSegment \/ RunRendered \/ RunCheck \/ RunRecheck
  BY ZenonT(40), <1>1, <1>2, <1>10
  DEF RunClaim, RunSave, RunSegment, RunRendered, RunCheck, RunRecheck, RunAt, Goes, Runs, Gated,
      Claims
<1> QED
  BY <1>3, <1>4, <1>5, <1>6, <1>7, <1>8, <1>9, <1>10, ActorFrame DEF Run

(* What was completed before a reader looked is no newer than what is      *)
(* completed from there on.                                                *)
LEMMA CompletedLater ==
  ASSUME CatalogInv, RowInv, RunInv, ReviewInv, ReadInv, Next, Grows, CatalogInv',
         NEW d \in Readers, reader[d].pc \in Reading
  PROVE  /\ reader[d].job.revision <= catalog'.revision
         /\ row'.state = "completed" => reader[d].job.revision <= row'.revision
         /\ run'.pc \in Gated => reader[d].job.revision <= run'.revision
<1>1. /\ Sound(reader[d].job) /\ reader[d].job.state = "completed"
      /\ reader[d].job.revision <= catalog.revision
      /\ row.state = "completed" => reader[d].job.revision <= row.revision
      /\ run.pc \in Gated => reader[d].job.revision <= run.revision
  BY DEF ReadInv, Abreast
<1>2. reader[d].job.revision \in Nat
  BY <1>1, SoundFacts
<1>3. reader[d].job.revision <= catalog'.revision
  BY <1>1, <1>2 DEF Grows, CatalogInv
<1>4. row'.state = "completed" => reader[d].job.revision <= row'.revision
  <2>1. CASE RunCommit
    <3>1. /\ row' = Complete(run.job, run.revision) /\ run.pc = "commit"
      BY <2>1 DEF RunCommit, RunAt
    <3>2. /\ run.revision \in Nat /\ Sound(run.job) /\ run.job.state = "running"
          /\ run.job.stage = "assembling" /\ run.pc \in Gated
      BY <3>1 DEF RunInv, Runs, Gated, Claims, ClaimInv
    <3>3. row'.revision = run.revision
      BY <3>1, <3>2, SoundCompleted
    <3> QED
      BY <1>1, <3>2, <3>3
  <2>2. ASSUME NEW j, Writes(j), row'.state = "completed" PROVE FALSE
    BY <2>2 DEF Writes, SaveJob
  <2> QED
    BY <1>1, <2>1, <2>2, RowWritten
<1>5. run'.pc \in Gated => reader[d].job.revision <= run'.revision
  BY <1>1, GateRevision
<1> QED
  BY <1>3, <1>4, <1>5

(* A reader that takes no step loses nothing by the steps of others.       *)
LEMMA ReaderKept ==
  ASSUME CatalogInv, RowInv, RunInv, ReviewInv, ReadInv, QueueInv, Next, Grows, CatalogInv',
         NEW d \in Readers, reader'[d] = reader[d]
  PROVE  Abreast(reader[d])' /\ reader'[d] \in Reads'
<1>1. reader[d] \in Reads /\ Abreast(reader[d])
  BY DEF ReadInv
<1>2. reader[d].pc \in {"minting", "opening"} => UNCHANGED catalog
  BY DecidesAlone, CatalogFrame
<1>3. reader'[d] \in Reads'
  <2>1. Takes \subseteq Takes'
    BY TakesGrow DEF CatalogInv, Grows
  <2> DEFINE T == Takes
  <2> DEFINE U == Takes'
  <2>2. T \subseteq U
    BY <2>1
  <2>3. reader[d] \in [pc : {"idle", "opening", "streaming"} \cup Reading, job : Jobs,
                       live : Nat, takes : T]
    BY <1>1 DEF Reads
  <2> HIDE DEF T, U
  <2>4. reader[d] \in [pc : {"idle", "opening", "streaming"} \cup Reading, job : Jobs,
                       live : Nat, takes : U]
    BY <2>2, <2>3
  <2> QED
    BY <2>4 DEF Reads, U
<1>4. Abreast(reader[d])'
  <2>1. reader[d].pc \in Reading =>
          /\ reader[d].job.revision <= catalog'.revision
          /\ row'.state = "completed" => reader[d].job.revision <= row'.revision
          /\ run'.pc \in Gated => reader[d].job.revision <= run'.revision
    BY CompletedLater
  <2> QED
    BY <1>1, <1>2, <2>1 DEF Abreast, Sound
<1> QED
  BY <1>3, <1>4

(* What a reader does with the copy it took.                               *)
LEMMA ReaderMoves ==
  ASSUME CatalogInv, RowInv, RunInv, ReviewInv, ReadInv, QueueInv, Next, Grows, CatalogInv',
         NEW d \in Readers, ReadLoad(d) \/ Read(d)
  PROVE  /\ Abreast(reader[d])' /\ reader'[d] \in Reads'
         /\ \A e \in Readers : e # d => reader'[e] = reader[e]
<1>1. /\ reader[d] \in Reads /\ Abreast(reader[d]) /\ reader \in [Readers -> Reads]
  BY DEF ReadInv
<1>2. /\ UNCHANGED <<catalog, history, run>>
      /\ UNCHANGED <<row, output>> \/ reader' = [reader EXCEPT ![d] = NoRead]
  BY DEF ReadLoad, Read, ReadPreliminary, ReadEnter, ReadMint, ReadOpened, ReadClose,
         ReadDenied, ReadReopen, database
<1>3. Takes' = Takes /\ Reads' = Reads
  BY <1>2 DEF Takes, Reads
<1>4. NoRead \in Reads /\ NoRead.pc = "idle"
  BY ConstructorTyped DEF NoRead, Reads, NoDecisions, Takes, None, CatalogInv
<1>5. ASSUME reader' = [reader EXCEPT ![d] = NoRead]
      PROVE  Abreast(reader[d])' /\ reader'[d] \in Reads'
  BY <1>1, <1>3, <1>4, <1>5 DEF Abreast, Reading
<1>6. ASSUME NEW pc \in {"waiting", "denied", "reopening", "streaming"},
             reader' = [reader EXCEPT ![d].pc = pc], UNCHANGED <<row, output>>,
             pc = "streaming" \/ reader[d].pc \in Reading
      PROVE  Abreast(reader[d])' /\ reader'[d] \in Reads'
  <2>1. /\ reader'[d] \in Reads /\ reader'[d].pc = pc /\ reader'[d].job = reader[d].job
    BY <1>1, <1>6 DEF Reads, Reading
  <2> QED
    BY <1>1, <1>2, <1>3, <1>6, <2>1 DEF Abreast, Reading, Sound
<1>7. \A e \in Readers : e # d => reader'[e] = reader[e]
  BY <1>1 DEF ReadLoad, Read, ReadPreliminary, ReadEnter, ReadMint, ReadOpened, ReadClose,
         ReadDenied, ReadReopen, ReaderGoes
<1>8. CASE ReadLoad(d)
  <2> DEFINE v == [NoRead EXCEPT !.pc = "preliminary", !.job = row]
  <2>1. reader' = [reader EXCEPT ![d] = v] /\ row.state = "completed" /\ row' = row
    BY <1>8 DEF ReadLoad, database
  <2>2. row \in Jobs /\ Sound(row) /\ row.revision <= catalog.revision /\ row.revision \in Nat
    BY <2>1, SoundFacts DEF RowInv
  <2>3. v \in Reads /\ v.pc = "preliminary" /\ v.job = row
    BY <1>4, <2>2 DEF Reads, Reading, NoRead
  <2> HIDE DEF v
  <2>4. reader'[d] = v
    BY <1>1, <2>1
  <2>5. run.pc \in Gated => row.revision <= run.revision
    BY <2>1 DEF RunInv, GateInv
  <2> QED
    BY <1>2, <1>3, <1>7, <2>1, <2>2, <2>3, <2>4, <2>5 DEF Abreast, Sound
<1>9. CASE ReadPreliminary(d)
  BY <1>6, <1>7, <1>9 DEF ReadPreliminary, ReaderAt, ReaderGoes, Reading, database
<1>10. CASE ReadEnter(d)
  <2>1. /\ reader' = [reader EXCEPT ![d].pc = "minting", ![d].live = catalog.revision]
        /\ reader[d].pc = "waiting" /\ row' = row
    BY <1>10 DEF ReadEnter, ReaderAt, database
  <2>2. catalog.revision \in Nat
    BY DEF CatalogInv
  <2>3. /\ reader'[d] \in Reads /\ reader'[d].pc = "minting" /\ reader'[d].job = reader[d].job
        /\ reader'[d].live = catalog.revision
    BY <1>1, <2>1, <2>2 DEF Reads, Reading
  <2> QED
    BY <1>1, <1>2, <1>3, <1>7, <2>1, <2>3 DEF Abreast, Reading, Sound
<1>11. CASE ReadMint(d)
  <2>1. reader[d].pc = "minting" /\ UNCHANGED <<row, output>>
    BY <1>11 DEF ReadMint, ReaderAt, database
  <2>2. CASE ReaderGoes(d, "denied")
    BY <1>6, <1>7, <2>1, <2>2 DEF ReaderGoes, Reading
  <2>3. ASSUME reader[d].job.revision = reader[d].live, NEW takes \in output,
               reader' = [reader EXCEPT ![d] = [NoRead EXCEPT !.pc = "opening", !.takes = takes]]
        PROVE  Abreast(reader[d])' /\ reader'[d] \in Reads'
    <3>1. /\ row.state = "completed" /\ Sound(row) /\ row.revision <= catalog.revision
          /\ takes = history[row.revision + 1]
      BY <2>3 DEF RowInv
    <3>2. /\ reader[d].job.revision = catalog.revision /\ reader[d].job.revision <= row.revision
      BY <1>1, <2>1, <2>3, <3>1 DEF Abreast, Reading
    <3>3. row.revision \in Nat /\ catalog.revision \in Nat
      BY <3>1, SoundFacts DEF CatalogInv
    <3>4. row.revision = catalog.revision
      BY <3>1, <3>2, <3>3
    <3>5. takes = catalog.approvals /\ takes \in Takes
      BY <3>1, <3>4 DEF CatalogInv
    <3> DEFINE v == [NoRead EXCEPT !.pc = "opening", !.takes = takes]
    <3>6. v \in Reads /\ v.pc = "opening" /\ v.takes = takes
      BY <1>4, <3>5 DEF Reads, NoRead
    <3>7. reader'[d] = v
      BY <1>1, <2>3
    <3> HIDE DEF v
    <3> QED
      BY <1>2, <1>3, <3>5, <3>6, <3>7 DEF Abreast, Reading
  <2> QED
    BY <1>7, <1>11, <2>2, <2>3 DEF ReadMint
<1>12. CASE ReadOpened(d)
  BY <1>5, <1>6, <1>7, <1>12 DEF ReadOpened, database
<1>13. CASE ReadClose(d) \/ ReadReopen(d)
  BY <1>5, <1>7, <1>13 DEF ReadClose, ReadReopen
<1>14. CASE ReadDenied(d)
  <2>1. reader[d].pc = "denied" /\ UNCHANGED <<row, output>>
    BY <1>14 DEF ReadDenied, ReaderAt, database
  <2> QED
    BY <1>5, <1>6, <1>7, <1>14, <2>1 DEF ReadDenied, Reading
<1> QED
  BY <1>8, <1>9, <1>10, <1>11, <1>12, <1>13, <1>14 DEF Read

(* Readers hold what they may serve.                                       *)
LEMMA ReadStep ==
  ASSUME CatalogInv, RowInv, RunInv, ReviewInv, ReadInv, QueueInv, Next, Grows, CatalogInv'
  PROVE  ReadInv'
<1>1. reader \in [Readers -> Reads]
  BY DEF ReadInv
<1>2. CASE Crash
  <2>1. reader' = [d \in Readers |-> NoRead]
    BY <1>2 DEF Crash
  <2>2. NoRead \in Reads' /\ NoRead.pc = "idle"
    BY ConstructorTyped DEF NoRead, Reads, NoDecisions, Takes, None, CatalogInv
  <2> QED
    BY <2>1, <2>2 DEF ReadInv, Abreast, Reading
<1>3. CASE ~Crash
  <2>1. ASSUME NEW d \in Readers PROVE Abreast(reader[d])' /\ reader'[d] \in Reads'
    <3>1. CASE UNCHANGED reader
      BY <3>1, ReaderKept
    <3>2. ASSUME NEW e \in Readers, ReadLoad(e) \/ Read(e), e # d
          PROVE  Abreast(reader[d])' /\ reader'[d] \in Reads'
      BY <3>2, ReaderMoves, ReaderKept
    <3>3. CASE ReadLoad(d) \/ Read(d)
      BY <3>3, ReaderMoves
    <3> QED
      BY <1>3, <3>1, <3>2, <3>3, ActorFrame
  <2>2. DOMAIN reader' = Readers /\ reader' = [d \in Readers |-> reader'[d]]
    <3>1. CASE UNCHANGED reader
      BY <1>1, <3>1
    <3>2. ASSUME NEW e \in Readers, ReadLoad(e) \/ Read(e)
          PROVE  DOMAIN reader' = Readers /\ reader' = [d \in Readers |-> reader'[d]]
      BY <1>1, <3>2 DEF ReadLoad, Read, ReadPreliminary, ReadEnter, ReadMint, ReadOpened,
                        ReadClose, ReadDenied, ReadReopen, ReaderGoes
    <3> QED
      BY <1>3, <3>1, <3>2, ActorFrame
  <2>3. reader' \in [Readers -> Reads']
    <3> DEFINE R == Reads'
    <3>1. \A d \in Readers : reader'[d] \in R
      BY <2>1
    <3> HIDE DEF R
    <3> QED
      BY <2>2, <3>1 DEF R
  <2> QED
    BY <2>1, <2>3 DEF ReadInv
<1> QED
  BY <1>2, <1>3

-----------------------------------------------------------------------------
(* The queue                                                               *)

(* Who joins is queued behind everybody who is.                            *)
LEMMA QueueJoined ==
  ASSUME QueueInv, NEW a \in Actors, queue' = Append(queue, a)
  PROVE  /\ queue' \in Seq(Actors) /\ Queued(a)'
         /\ \A b : Queued(b) => Queued(b)'
         /\ \A b : Holds(b) => Holds(b)'
<1>1. queue \in Seq(Actors) /\ queue' \in Seq(Actors)
  BY DEF QueueInv
<1>2. /\ Len(queue') = Len(queue) + 1 /\ queue'[Len(queue) + 1] = a
      /\ \A i \in 1..Len(queue) : queue'[i] = queue[i]
      /\ Len(queue) \in Nat
  BY <1>1
<1>3. ASSUME NEW b, Queued(b) PROVE Queued(b)'
  BY <1>2, <1>3 DEF Queued
<1>4. ASSUME NEW b, Holds(b) PROVE Holds(b)'
  <2>1. 1 \in 1..Len(queue)
    BY <1>1, <1>4 DEF Holds
  <2> QED
    BY <1>1, <1>2, <1>4, <2>1 DEF Holds
<1> QED
  BY <1>1, <1>2, <1>3, <1>4 DEF Queued

(* Whoever leaves was inside alone, and leaves everybody else queued.      *)
LEMMA QueueLeft ==
  ASSUME QueueInv, NEW a, Holds(a), queue' = Tail(queue)
  PROVE  /\ queue' \in Seq(Actors)
         /\ \A b : Queued(b) /\ b # a => Queued(b)'
<1>1. queue \in Seq(Actors) /\ queue # <<>> /\ queue[1] = a
  BY DEF QueueInv, Holds
<1>2. /\ queue' \in Seq(Actors) /\ Len(queue') = Len(queue) - 1 /\ Len(queue) \in Nat
      /\ \A i \in 1..Len(queue') : queue'[i] = queue[i + 1]
  BY <1>1
<1>3. ASSUME NEW b, Queued(b), b # a PROVE Queued(b)'
  <2>1. PICK i \in 1..Len(queue) : queue[i] = b
    BY <1>3 DEF Queued
  <2>2. i - 1 \in 1..Len(queue') /\ (i - 1) + 1 = i
    BY <1>1, <1>2, <1>3, <2>1
  <2> QED
    BY <1>2, <2>1, <2>2 DEF Queued
<1> QED
  BY <1>2, <1>3

(* Who is queued and first is inside.                                      *)
LEMMA FirstHolds ==
  ASSUME QueueInv, NEW a, Queued(a), Head(queue) = a
  PROVE  Holds(a)
  BY DEF QueueInv, Queued, Holds

(* Waiting is being queued, and being inside is being first.               *)
LEMMA QueueStep ==
  ASSUME CatalogInv, RunInv, ReviewInv, ReadInv, QueueInv, Next
  PROVE  QueueInv'
<1>1. /\ run \in Runs /\ reviewer \in [Reviewers -> Reviews] /\ reader \in [Readers -> Reads]
  BY DEF RunInv, ReviewInv, ReadInv
<1>2. CASE Request
  <2>1. queue' = queue
    BY <1>2 DEF Request, Ask, Enqueue, DropRequest, EnqueueRecovery, ReviewLoad, ReadLoad
  <2>2. run'.pc = "section" => run.pc = "section"
    BY <1>2 DEF Request, Ask, Enqueue, DropRequest, EnqueueRecovery, ReviewLoad, ReadLoad,
                NoRun, database
  <2>3. ASSUME NEW r \in Reviewers
        PROVE  reviewer'[r] = reviewer[r] \/ reviewer'[r].pc = "loaded"
    BY <1>1, <1>2, <2>3 DEF Request, Ask, Enqueue, DropRequest, EnqueueRecovery, ReviewLoad,
                            ReadLoad, NoReview, database
  <2>4. ASSUME NEW d \in Readers
        PROVE  reader'[d] = reader[d] \/ reader'[d].pc = "preliminary"
    BY <1>1, <1>2, <2>4 DEF Request, Ask, Enqueue, DropRequest, EnqueueRecovery, ReviewLoad,
                            ReadLoad, NoRead, database
  <2> QED
    BY <2>1, <2>2, <2>3, <2>4 DEF QueueInv, ReviewerAt, ReaderAt, Deciding, Queued, Holds
<1>3. CASE Run
  <2>1. UNCHANGED <<reviewer, reader>>
    BY <1>3 DEF Run, RunLoad, RunAuthorize, RunSection, RunReopen, RunAbandon, RunGate, RunPlan,
                RunPlanFails, RunRegate, RunClaim, RunSave, RunSegment, RunRendered, RunCheck,
                RunRecheck, RunCommit, RunThrows, RunCatch, RunRefused, RunWriteLost, Elsewhere
  <2>2. ASSUME queue' = Append(queue, "run") PROVE QueueInv'
    <3>1. /\ queue' \in Seq(Actors) /\ Queued("run")'
          /\ \A b : Queued(b) => Queued(b)'
          /\ \A b : Holds(b) => Holds(b)'
      BY <2>2, QueueJoined DEF Actors
    <3> QED
      BY <2>1, <3>1 DEF QueueInv, ReviewerAt, ReaderAt
  <2>3. ASSUME queue' = queue, run'.pc # "section" PROVE QueueInv'
    BY <2>1, <2>3 DEF QueueInv, ReviewerAt, ReaderAt, Queued, Holds
  <2>4. CASE RunSection
    <3>1. run.pc = "section" /\ Head(queue) = "run" /\ queue' = Tail(queue)
      BY <2>4 DEF RunSection, RunAt
    <3>2. Holds("run")
      BY <3>1, FirstHolds DEF QueueInv
    <3>3. queue' \in Seq(Actors) /\ \A b : Queued(b) /\ b # "run" => Queued(b)'
      BY <3>1, <3>2, QueueLeft
    <3>4. run'.pc # "section"
      BY <1>1, <2>4 DEF RunSection, NoRun, Goes, Runs
    <3>5. "run" \notin Reviewers /\ "run" \notin Readers
      BY ActorsAssumption
    <3>6. ASSUME NEW r \in Reviewers
          PROVE  /\ reviewer[r].pc = "waiting" => Queued(r)'
                 /\ reviewer[r].pc \notin Deciding
      BY <3>2, <3>3, <3>5, OneInside DEF QueueInv, ReviewerAt
    <3>7. ASSUME NEW d \in Readers
          PROVE  /\ reader[d].pc = "waiting" => Queued(d)'
                 /\ reader[d].pc \notin {"minting", "opening"}
      BY <3>2, <3>3, <3>5, OneInside DEF QueueInv, ReaderAt
    <3> QED
      BY <2>1, <3>3, <3>4, <3>6, <3>7 DEF QueueInv, ReviewerAt, ReaderAt
  <2>5. CASE RunAuthorize
    <3>1. \/ queue' = Append(queue, "run")
          \/ queue' = queue /\ run' = [run EXCEPT !.pc = "reopen"]
      BY <2>5 DEF RunAuthorize, Goes
    <3>2. [run EXCEPT !.pc = "reopen"].pc = "reopen"
      BY <1>1 DEF Runs
    <3> QED
      BY <2>2, <2>3, <3>1, <3>2
  <2>6. CASE RunLoad
    <3>1. queue' = queue /\ run'.pc # "section"
      BY <1>1, <2>6, AfterLoadCases DEF RunLoad, NoRun, Runs
    <3> QED
      BY <2>3, <3>1
  <2>7. CASE RunSave
    <3>1. queue' = queue /\ run'.pc = run.next
      BY <1>1, <2>7 DEF RunSave, Goes, Runs
    <3>2. run.next # "section"
      BY <1>1 DEF Runs
    <3> QED
      BY <2>3, <3>1, <3>2
  <2>8. CASE \/ RunReopen \/ RunAbandon \/ RunGate \/ RunPlan \/ RunPlanFails \/ RunRegate
             \/ RunClaim
    <3>1. queue' = queue
      BY <2>8 DEF RunReopen, RunAbandon, RunGate, RunPlan, RunPlanFails, RunRegate, RunClaim
    <3>2. run' = NoRun \/ run'.pc \in {"gate", "plan", "regate", "caught", "claim", "check", "save"}
      BY <1>1, <2>8 DEF RunReopen, RunAbandon, RunGate, RunPlan, RunPlanFails, RunRegate,
                        RunClaim, Runs
    <3>3. run'.pc # "section"
      BY <3>2 DEF NoRun
    <3> QED
      BY <2>3, <3>1, <3>3
  <2>9. CASE \/ RunSegment \/ RunRendered \/ RunCheck \/ RunRecheck \/ RunCommit \/ RunThrows
             \/ RunCatch \/ RunRefused \/ RunWriteLost
    <3>1. queue' = queue
      BY <2>9 DEF RunSegment, RunRendered, RunCheck, RunRecheck, RunCommit, RunThrows,
                  RunCatch, RunRefused, RunWriteLost
    <3>2. run'.pc \in {"idle", "save", "check", "caught", "recheck", "commit"}
      <4>1. CASE RunSegment \/ RunRendered \/ RunThrows
        BY <1>1, <4>1 DEF RunSegment, RunRendered, RunThrows, Goes, Runs
      <4>2. CASE RunCheck \/ RunRecheck
        BY <1>1, <4>2 DEF RunCheck, RunRecheck, Goes, Runs
      <4>3. CASE RunCommit \/ RunCatch \/ RunRefused \/ RunWriteLost
        BY <4>3 DEF RunCommit, RunCatch, RunRefused, RunWriteLost, NoRun
      <4> QED
        BY <2>9, <4>1, <4>2, <4>3
    <3> QED
      BY <2>3, <3>1, <3>2
  <2> QED
    BY <1>3, <2>4, <2>5, <2>6, <2>7, <2>8, <2>9 DEF Run
<1>4. CASE Crash
  <2>1. /\ queue' = <<>> /\ run' = NoRun
        /\ \A r \in Reviewers : reviewer'[r].pc = "idle"
        /\ \A d \in Readers : reader'[d].pc = "idle"
    BY <1>4 DEF Crash, NoReview, NoRead
  <2> QED
    BY <2>1 DEF QueueInv, ReviewerAt, ReaderAt, Deciding, NoRun
<1>5. ASSUME NEW r \in Reviewers, Review(r) PROVE QueueInv'
  <2>1. /\ UNCHANGED <<run, reader>>
        /\ \A q \in Reviewers : q # r => reviewer'[q] = reviewer[q]
    BY <1>1, <1>5 DEF Review, ReviewJoin, ReviewEnter, ReviewRejected, ReviewReread,
              ReviewResave, ReviewWriteLost, ReviewSegment, ReviewUngrant, ReviewGrant,
              ReviewReconcile, ReviewerGoes, ReviewerDecides, ReviewerLeaves
  <2>2. r \notin Readers /\ r # "run" /\ r \in Actors
    BY ActorsAssumption DEF Actors
  <2>3. CASE ReviewJoin(r)
    <3>1. /\ queue' \in Seq(Actors) /\ Queued(r)'
          /\ \A b : Queued(b) => Queued(b)'
          /\ \A b : Holds(b) => Holds(b)'
      BY <2>2, <2>3, QueueJoined DEF ReviewJoin
    <3>2. reviewer'[r].pc = "waiting"
      BY <1>1, <2>3 DEF ReviewJoin, ReviewerGoes, Reviews
    <3> QED
      BY <2>1, <3>1, <3>2 DEF QueueInv, ReviewerAt, ReaderAt, Deciding
  <2>4. ASSUME Holds(r), queue' = queue, reviewer'[r].pc # "waiting" PROVE QueueInv'
    BY <2>1, <2>4 DEF QueueInv, ReviewerAt, ReaderAt, Queued, Holds
  <2>5. ASSUME Holds(r), ReviewerLeaves(r) PROVE QueueInv'
    <3>1. queue' \in Seq(Actors) /\ \A b : Queued(b) /\ b # r => Queued(b)'
      BY <2>5, QueueLeft DEF ReviewerLeaves
    <3>2. reviewer'[r].pc = "idle"
      BY <1>1, <2>5 DEF ReviewerLeaves, NoReview
    <3>3. ASSUME NEW q \in Reviewers, q # r
          PROVE  /\ reviewer[q].pc = "waiting" => Queued(q)'
                 /\ reviewer[q].pc \notin Deciding
      BY <2>5, <3>1, <3>3, OneInside DEF QueueInv, ReviewerAt
    <3>4. ASSUME NEW d \in Readers
          PROVE  /\ reader[d].pc = "waiting" => Queued(d)'
                 /\ reader[d].pc \notin {"minting", "opening"}
      BY <2>2, <2>5, <3>1, OneInside DEF QueueInv, ReaderAt
    <3>5. run.pc = "section" => Queued("run")'
      BY <2>2, <3>1 DEF QueueInv
    <3> QED
      BY <2>1, <3>1, <3>2, <3>3, <3>4, <3>5 DEF QueueInv, ReviewerAt, ReaderAt, Deciding
  <2>6. ReviewerAt(r, "waiting") /\ Head(queue) = r => Holds(r)
    BY FirstHolds DEF QueueInv
  <2>7. reviewer[r].pc \in Deciding => Holds(r)
    BY DEF QueueInv
  <2>8. CASE ReviewEnter(r)
    <3>1. CASE ReviewerLeaves(r)
      BY <2>5, <2>6, <2>8, <3>1 DEF ReviewEnter
    <3>2. CASE ReviewerDecides(r) /\ queue' = queue
      <4>1. reviewer'[r].pc = "decide"
        BY <1>1, <3>2 DEF ReviewerDecides, Reviews
      <4> QED
        BY <2>4, <2>6, <2>8, <3>2, <4>1 DEF ReviewEnter
    <3> QED
      BY <2>8, <3>1, <3>2 DEF ReviewEnter
  <2>9. CASE ReviewSegment(r) \/ ReviewUngrant(r) \/ ReviewGrant(r) \/ ReviewReconcile(r)
    <3>1. Holds(r) /\ queue' = queue
      BY <2>7, <2>9 DEF ReviewSegment, ReviewUngrant, ReviewGrant, ReviewReconcile, ReviewerAt,
                        Deciding
    <3>2. reviewer'[r].pc # "waiting"
      BY <1>1, <2>9 DEF ReviewSegment, ReviewUngrant, ReviewGrant, ReviewReconcile, ReviewerAt,
                        ReviewerGoes, Reviews
    <3> QED
      BY <2>4, <3>1, <3>2
  <2>10. CASE ReviewRejected(r) \/ ReviewResave(r) \/ ReviewWriteLost(r)
    BY <2>5, <2>6, <2>7, <2>10 DEF ReviewRejected, ReviewResave, ReviewWriteLost, ReviewerAt,
                                   Deciding
  <2>11. CASE ReviewReread(r)
    <3>1. Holds(r)
      BY <2>7, <2>11 DEF ReviewReread, ReviewerAt, Deciding
    <3>2. CASE ReviewerLeaves(r)
      BY <2>5, <3>1, <3>2
    <3>3. CASE /\ reviewer' = [reviewer EXCEPT ![r].pc = "resave", ![r].job = row]
               /\ queue' = queue
      <4>1. reviewer'[r].pc = "resave"
        BY <1>1, <3>3 DEF Reviews
      <4> QED
        BY <2>4, <3>1, <3>3, <4>1
    <3> QED
      BY <2>11, <3>2, <3>3 DEF ReviewReread
  <2> QED
    BY <1>5, <2>3, <2>8, <2>9, <2>10, <2>11 DEF Review
<1>6. ASSUME NEW d \in Readers, Read(d) PROVE QueueInv'
  <2>1. /\ UNCHANGED <<run, reviewer>>
        /\ \A e \in Readers : e # d => reader'[e] = reader[e]
    BY <1>1, <1>6 DEF Read, ReadPreliminary, ReadEnter, ReadMint, ReadOpened, ReadClose,
              ReadDenied, ReadReopen, ReaderGoes
  <2>2. d \notin Reviewers /\ d # "run" /\ d \in Actors
    BY ActorsAssumption DEF Actors
  <2>3. ASSUME queue' = queue, reader'[d].pc # "waiting",
               reader'[d].pc \in {"minting", "opening"} => Holds(d)
        PROVE  QueueInv'
    BY <2>1, <2>3 DEF QueueInv, ReviewerAt, ReaderAt, Queued, Holds
  <2>4. ASSUME Holds(d), queue' = Tail(queue),
               reader'[d].pc \notin {"waiting", "minting", "opening"}
        PROVE  QueueInv'
    <3>1. queue' \in Seq(Actors) /\ \A b : Queued(b) /\ b # d => Queued(b)'
      BY <2>4, QueueLeft
    <3>2. ASSUME NEW e \in Readers, e # d
          PROVE  /\ reader[e].pc = "waiting" => Queued(e)'
                 /\ reader[e].pc \notin {"minting", "opening"}
      BY <2>4, <3>1, <3>2, OneInside DEF QueueInv, ReaderAt
    <3>3. ASSUME NEW r \in Reviewers
          PROVE  /\ reviewer[r].pc = "waiting" => Queued(r)'
                 /\ reviewer[r].pc \notin Deciding
      BY <2>2, <2>4, <3>1, OneInside DEF QueueInv, ReviewerAt
    <3>4. run.pc = "section" => Queued("run")'
      BY <2>2, <3>1 DEF QueueInv
    <3> QED
      BY <2>1, <2>4, <3>1, <3>2, <3>3, <3>4 DEF QueueInv, ReviewerAt, ReaderAt
  <2>5. CASE ReadPreliminary(d)
    <3>1. CASE queue' = Append(queue, d) /\ ReaderGoes(d, "waiting")
      <4>1. /\ queue' \in Seq(Actors) /\ Queued(d)'
            /\ \A b : Queued(b) => Queued(b)'
            /\ \A b : Holds(b) => Holds(b)'
        BY <2>2, <3>1, QueueJoined
      <4>2. reader'[d].pc = "waiting"
        BY <1>1, <3>1 DEF ReaderGoes, Reads
      <4> QED
        BY <2>1, <4>1, <4>2 DEF QueueInv, ReviewerAt, ReaderAt
    <3>2. CASE queue' = queue /\ ReaderGoes(d, "denied")
      <4>1. reader'[d].pc = "denied"
        BY <1>1, <3>2 DEF ReaderGoes, Reads
      <4> QED
        BY <2>3, <3>2, <4>1
    <3> QED
      BY <2>5, <3>1, <3>2 DEF ReadPreliminary
  <2>6. CASE ReadEnter(d)
    <3>1. Holds(d) /\ queue' = queue
      BY <2>6, FirstHolds DEF ReadEnter, ReaderAt, QueueInv
    <3>2. reader'[d].pc = "minting"
      BY <1>1, <2>6 DEF ReadEnter, Reads
    <3> QED
      BY <2>3, <3>1, <3>2
  <2>7. CASE ReadMint(d)
    <3>1. Holds(d)
      BY <2>7 DEF ReadMint, ReaderAt, QueueInv
    <3>2. \/ queue' = queue /\ reader'[d].pc = "opening"
          \/ queue' = Tail(queue) /\ reader'[d].pc = "denied"
      BY <1>1, <2>7 DEF ReadMint, ReaderGoes, NoRead, Reads
    <3> QED
      BY <2>3, <2>4, <3>1, <3>2
  <2>8. CASE ReadOpened(d)
    <3>1. Holds(d) /\ queue' = Tail(queue)
      BY <2>8 DEF ReadOpened, ReaderAt, QueueInv
    <3>2. reader'[d].pc \in {"streaming", "idle"}
      BY <1>1, <2>8 DEF ReadOpened, NoRead, Reads
    <3> QED
      BY <2>4, <3>1, <3>2
  <2>9. CASE ReadClose(d) \/ ReadDenied(d) \/ ReadReopen(d)
    <3>1. queue' = queue /\ reader'[d].pc \in {"idle", "reopening"}
      BY <1>1, <2>9 DEF ReadClose, ReadDenied, ReadReopen, NoRead, Reads
    <3> QED
      BY <2>3, <3>1
  <2> QED
    BY <1>6, <2>5, <2>6, <2>7, <2>8, <2>9 DEF Read
<1> QED
  BY <1>2, <1>3, <1>4, <1>5, <1>6 DEF Next

-----------------------------------------------------------------------------
(* The invariant                                                           *)

(* Under review, nothing decided and nobody at work.                       *)
LEMMA Initially ==
  ASSUME Init
  PROVE  IInv
<1>1. PICK b \in Books, c \in Digests : row = DirectedJob(b, c)
  BY DEF Init
<1>2. /\ Sound(row) /\ row.state = "awaiting_review" /\ row.stage = "directing"
  BY <1>1, SoundDirected
<1>3. /\ output = {}
      /\ catalog = [revision |-> 0, approvals |-> NoDecisions, excluded |-> {}, grant |-> {}]
      /\ history = <<NoDecisions>> /\ audio = [s \in Segments |-> {}]
      /\ run = NoRun /\ queue = <<>>
      /\ reviewer = [r \in Reviewers |-> NoReview] /\ reader = [d \in Readers |-> NoRead]
  BY DEF Init
<1>4. catalog.revision = 0 /\ catalog.approvals = NoDecisions
  BY <1>3
<1>5. NoDecisions \in Takes
  BY <1>4 DEF NoDecisions, Takes, None
<1>6. CatalogInv
  <2>1. catalog \in [revision : Nat, approvals : Takes, excluded : SUBSET Fallback,
                     grant : SUBSET Fallback]
    <3> DEFINE T == Takes
    <3>1. NoDecisions \in T
      BY <1>5
    <3> HIDE DEF T
    <3>2. catalog \in [revision : Nat, approvals : T, excluded : SUBSET Fallback,
                       grant : SUBSET Fallback]
      BY <1>3, <3>1
    <3> QED
      BY <3>2 DEF T
  <2>2. history \in Seq(Takes) /\ Len(history) = 1 /\ history[1] = NoDecisions
    <3> DEFINE T == Takes
    <3>1. NoDecisions \in T
      BY <1>5
    <3> HIDE DEF T
    <3>2. history \in Seq(T) /\ Len(history) = 1 /\ history[1] = NoDecisions
      BY <1>3, <3>1
    <3> QED
      BY <3>2 DEF T
  <2> QED
    BY <1>4, <2>1, <2>2 DEF CatalogInv
<1>7. AudioInv
  BY <1>3 DEF AudioInv
<1>8. RowInv
  BY <1>2, <1>3 DEF RowInv, Honest
<1>9. RunInv
  <2>1. NoRun \in Runs
    <3> DEFINE T == Takes
    <3>1. NoDecisions \in T
      BY <1>5
    <3> HIDE DEF T
    <3>2. NoRun \in
            [pc : {"idle", "load", "authorize", "section", "reopen", "abandon", "gate",
                   "caught"} \cup Gated,
             kind : {"render", "direct"}, recover : BOOLEAN, job : Jobs,
             next : {"idle", "render", "recheck"}, approvals : T, revision : Nat,
             missing : SUBSET Segments]
      BY <3>1, ConstructorTyped DEF NoRun
    <3> QED
      BY <3>2 DEF Runs, T
  <2>2. run.pc = "idle"
    BY <1>3 DEF NoRun
  <2> QED
    BY <1>3, <2>1, <2>2 DEF RunInv, Gated, Claims
<1>10. ReviewInv
  BY <1>3, ConstructorTyped DEF ReviewInv, Reviews, NoReview, ReviewerAt
<1>11. ReadInv
  <2>1. NoRead \in Reads /\ NoRead.pc = "idle"
    BY <1>5, ConstructorTyped DEF NoRead, Reads
  <2> QED
    BY <1>3, <2>1 DEF ReadInv, Abreast, Reading
<1>12. QueueInv
  BY <1>3 DEF QueueInv, NoRun, NoReview, NoRead, ReviewerAt, ReaderAt, Deciding
<1> QED
  BY <1>6, <1>7, <1>8, <1>9, <1>10, <1>11, <1>12 DEF IInv

(* Every step keeps the invariant, and forgets no revision.                *)
LEMMA InvStep ==
  ASSUME IInv, [Next]_vars
  PROVE  IInv'
<1>1. CASE UNCHANGED vars
  <2>1. UNCHANGED <<row, output, catalog, audio, history, run, reviewer, reader, queue>>
    BY <1>1 DEF vars
  <2>2. CatalogInv' /\ AudioInv'
    BY <2>1 DEF IInv, CatalogInv, AudioInv, Takes
  <2>3. RowInv'
    BY <2>1 DEF IInv, RowInv, Sound, AllIn
  <2>4. RunInv'
    BY <2>1 DEF IInv, RunInv, Runs, Takes, GateInv, ClaimInv, AllIn, Sound, Renderable,
                Interrupted
  <2>5. ReviewInv'
    BY <2>1 DEF IInv, ReviewInv, ReviewerAt, Sound
  <2>6. ReadInv'
    BY <2>1 DEF IInv, ReadInv, Abreast, Reads, Takes, Sound
  <2>7. QueueInv'
    BY <2>1 DEF IInv, QueueInv, Queued, Holds, ReviewerAt, ReaderAt
  <2> QED
    BY <2>2, <2>3, <2>4, <2>5, <2>6, <2>7 DEF IInv
<1>2. CASE Next
  <2>1. CatalogInv' /\ Grows
    BY <1>2, CatalogStep DEF IInv
  <2>2. AudioInv' /\ \A s \in Segments : audio[s] \subseteq audio'[s]
    BY <1>2, <2>1, AudioStep DEF IInv
  <2>3. RowInv'
    BY <1>2, <2>1, <2>2, RowStep DEF IInv
  <2>4. RunInv'
    BY <1>2, <2>1, <2>2, RunStep DEF IInv
  <2>5. ReviewInv'
    BY <1>2, ReviewStep DEF IInv
  <2>6. ReadInv'
    BY <1>2, <2>1, ReadStep DEF IInv
  <2>7. QueueInv'
    BY <1>2, QueueStep DEF IInv
  <2> QED
    BY <2>1, <2>2, <2>3, <2>4, <2>5, <2>6, <2>7 DEF IInv
<1> QED
  BY <1>1, <1>2

(* The invariant holds of every state of every behaviour.                  *)
LEMMA InvAlways == Spec => []IInv
<1>1. Init => IInv
  BY Initially
<1>2. IInv /\ [Next]_vars => IInv'
  BY InvStep
<1> QED
  BY <1>1, <1>2, PTL DEF Spec

-----------------------------------------------------------------------------
(* What follows                                                            *)

(* Rows, catalog, recordings and what the actors hold keep their types.    *)
THEOREM TypeCorrect == Spec => []TypeOK
<1>1. ASSUME IInv PROVE TypeOK
  <2>1. /\ catalog.revision \in Nat /\ catalog.approvals \in Takes
        /\ catalog.excluded \subseteq Fallback /\ catalog.grant \subseteq Fallback
        /\ history \in Seq(Takes) /\ Len(history) = catalog.revision + 1
    BY <1>1 DEF IInv, CatalogInv
  <2>2. Takes = [Segments -> DecisionIds]
    BY DEF Takes, DecisionIds
  <2>3. row \in Jobs
    BY <1>1, SoundFacts DEF IInv, RowInv
  <2>4. output \subseteq Takes
    <3> SUFFICES ASSUME NEW takes \in output PROVE takes \in Takes
      OBVIOUS
    <3>1. /\ takes = history[row.revision + 1] /\ row.state = "completed"
          /\ row.revision <= catalog.revision /\ Sound(row)
      BY <1>1 DEF IInv, RowInv
    <3>2. row.revision \in Nat
      BY <3>1, SoundFacts
    <3>3. row.revision + 1 \in 1..Len(history)
      BY <2>1, <3>1, <3>2
    <3> QED
      BY <2>1, <3>1, <3>3
  <2>5. audio \in [Segments -> SUBSET DecisionIds]
    BY <1>1 DEF IInv, AudioInv, DecisionIds
  <2>6. run.job \in Jobs /\ run.approvals \in Takes /\ run.missing \subseteq Segments
    BY <1>1 DEF IInv, RunInv, Runs
  <2>7. \A r \in Reviewers : reviewer[r].job \in Jobs /\ reviewer[r].rest \subseteq Fallback
    BY <1>1 DEF IInv, ReviewInv, Reviews
  <2>8. \A d \in Readers : reader[d].job \in Jobs /\ reader[d].takes \in Takes
    BY <1>1 DEF IInv, ReadInv, Reads
  <2>9. catalog.revision = Len(history) - 1
    BY <2>1
  <2> QED
    BY <2>1, <2>2, <2>3, <2>4, <2>5, <2>6, <2>7, <2>8, <2>9 DEF TypeOK
<1> QED
  BY <1>1, InvAlways, PTL

(* A completed row and its output are one, and the output holds what the   *)
(* catalog said, line for line, at the revision the row records.           *)
THEOREM CompletedIsAttested == Spec => []OutputIsAttested
<1>1. ASSUME IInv PROVE OutputIsAttested
  BY <1>1 DEF IInv, RowInv, OutputIsAttested, AllIn
<1> QED
  BY <1>1, InvAlways, PTL

(* Between the last look at the catalog and the open file no decision      *)
(* takes effect: the audio that is opened is what the live approvals say.  *)
THEOREM ServedStands == Spec => []ServedAudioStands
<1>1. ASSUME IInv PROVE ServedAudioStands
  BY <1>1 DEF IInv, ReadInv, Abreast, ServedAudioStands, ReaderAt
<1> QED
  BY <1>1, InvAlways, PTL

(* The row can always be opened, and the segments it counts as done are    *)
(* durable for the approvals of one and the same revision.                 *)
THEOREM ProgressIsHonest == Spec => []HonestProgress
<1>1. ASSUME IInv, TypeOK PROVE HonestProgress
  <2>1. Sound(row) /\ Honest(row, history, audio)
    BY <1>1 DEF IInv, RowInv
  <2>2. \A i \in DOMAIN history :
          Durable(history[i], audio) = {s \in Segments : history[i][s] \in audio[s]}
    BY DEF Durable
  <2> QED
    BY <1>1, <2>1, <2>2 DEF HonestProgress, Sound, Honest
<1> QED
  BY <1>1, InvAlways, TypeCorrect, PTL

(* Only an approval of that one segment takes back a withdrawal.           *)
THEOREM WithdrawalOutranks == Spec => WithdrawalOutranksGrant
<1>1. ASSUME IInv, Next, NEW s \in catalog.excluded \ catalog'.excluded
      PROVE  \E r \in Reviewers : reviewer[r].op = "approve" /\ reviewer[r].segment = {s}
  <2>1. CatalogInv /\ ReviewInv
    BY <1>1 DEF IInv
  <2>2. PICK r \in Reviewers : Decides(r)
    BY <1>1, CatalogFrame
  <2>3. reviewer[r] \in Reviews
    BY <2>1 DEF ReviewInv
  <2>4. ReviewSegment(r)
    <3>1. ~ReviewUngrant(r)
      BY <1>1, <2>1, GrantCommitted DEF ReviewUngrant
    <3>2. ~ReviewGrant(r)
      <4>1. ASSUME NEW subjects \in SUBSET Offerable \ {{}}, SaveBookGrant(subjects) PROVE FALSE
        <5>1. subjects \in SUBSET Fallback
          BY DEF Offerable
        <5> QED
          BY <1>1, <2>1, <4>1, <5>1, GrantCommitted
      <4> QED
        BY <4>1 DEF ReviewGrant
    <3>3. ~ReviewReconcile(r)
      <4>1. ASSUME NEW t \in reviewer[r].rest, SaveApproval(t), ReviewerAt(r, "reconcile")
            PROVE  FALSE
        <5>1. t \in Fallback /\ t \notin catalog.excluded
          BY <2>1, <2>3, <4>1 DEF ReviewInv, Reviews
        <5> QED
          BY <1>1, <2>1, <4>1, <5>1, SegmentCommitted
      <4> QED
        BY <4>1 DEF ReviewReconcile
    <3> QED
      BY <2>2, <3>1, <3>2, <3>3 DEF Decides
  <2>5. PICK t \in reviewer[r].segment :
          IF reviewer[r].op = "approve" THEN SaveApproval(t) ELSE Withdraw(t)
    BY <2>4 DEF ReviewSegment
  <2>6. t \in Fallback /\ reviewer[r].segment = {t}
    BY <2>1, <2>3, <2>4, <2>5 DEF ReviewInv, Reviews, ReviewSegment
  <2>7. reviewer[r].op = "approve" /\ s = t
    BY <1>1, <2>1, <2>5, <2>6, SegmentCommitted
  <2> QED
    BY <2>6, <2>7
<1>2. IInv /\ [Next]_vars
        => [\A s \in catalog.excluded \ catalog'.excluded :
              \E r \in Reviewers : reviewer[r].op = "approve" /\ reviewer[r].segment = {s}]_vars
  BY <1>1
<1> QED
  BY <1>2, InvAlways, PTL DEF Spec, WithdrawalOutranksGrant

(* In a process that lives a claimed run ends with its row at rest.        *)
THEOREM NobodyOrphaned == ASSUME Crashes = FALSE PROVE Spec => NoOrphan
<1>1. ASSUME IInv, Next,
             run.pc \in {"save", "render", "check", "recheck", "caught", "commit"},
             ~Active', row'.state = "running"
      PROVE  WritesFail /\ run.pc \in {"caught", "commit"}
  <2>1. run \in Runs /\ run'.pc = "idle" /\ run.pc # "idle"
    BY <1>1 DEF IInv, RunInv, Active
  <2>2. Run
    BY <1>1, <2>1, ActorFrame DEF Crash, Enqueue, EnqueueRecovery, Active
  <2>3. ~(RunSave \/ RunSegment \/ RunRendered \/ RunCheck \/ RunRecheck \/ RunThrows)
    <3>1. run.pc = "save" => run.next \in {"render", "recheck"}
      BY <1>1 DEF IInv, RunInv, ClaimInv, Claims
    <3>2. ~RunSave
      BY <2>1, <3>1 DEF RunSave, RunAt, Goes, Runs
    <3> QED
      BY <2>1, <3>2 DEF RunSegment, RunRendered, RunCheck, RunRecheck, RunThrows, Goes, Runs
  <2>4. ~RunCommit
    <3> SUFFICES ASSUME RunCommit PROVE FALSE
      OBVIOUS
    <3>1. row' = Complete(run.job, run.revision) /\ run.pc = "commit"
      BY DEF RunCommit, RunAt
    <3>2. /\ run.revision \in Nat /\ Sound(run.job) /\ run.job.state = "running"
          /\ run.job.stage = "assembling"
      BY <1>1, <3>1 DEF IInv, RunInv, Runs, Gated, Claims, ClaimInv
    <3> QED
      BY <1>1, <3>1, <3>2, SoundCompleted
  <2>5. ~RunCatch
    <3> SUFFICES ASSUME RunCatch PROVE FALSE
      OBVIOUS
    <3>1. /\ row' = Fail(run.job) \/ row' = MarkAbandoned(run.job)
          /\ Sound(run.job) /\ run.job.state = "running"
      BY <1>1 DEF RunCatch, RunAt, SaveJob, IInv, RunInv
    <3> QED
      BY <1>1, <3>1, SoundStopped
  <2>6. RunWriteLost
    BY <1>1, <2>2, <2>3, <2>4, <2>5
    DEF Run, RunAt, RunLoad, RunAuthorize, RunSection, RunReopen, RunAbandon, RunGate, RunPlan,
        RunPlanFails, RunRegate, RunClaim, RunRefused
  <2> QED
    BY <1>1, <2>6 DEF RunWriteLost
<1>2. IInv /\ [Next]_vars
        => [/\ run.pc \in {"save", "render", "check", "recheck", "caught", "commit"}
            /\ ~Active' /\ row'.state = "running"
            => WritesFail /\ run.pc \in {"caught", "commit"}]_vars
  BY <1>1
<1> QED
  BY <1>2, InvAlways, PTL DEF Spec, NoOrphan

-----------------------------------------------------------------------------
(* The refinement of ApprovedPlayback                                      *)

(* Whoever opens a file opens what is approved.                            *)
LEMMA MintedStands ==
  ASSUME CatalogInv, RowInv, ReadInv, NEW d \in Readers, ReaderAt(d, "minting"),
         reader[d].job.revision = reader[d].live, NEW takes \in output
  PROVE  takes = catalog.approvals /\ AllIn(takes)
<1>1. /\ row.state = "completed" /\ Sound(row) /\ row.revision <= catalog.revision
      /\ takes = history[row.revision + 1] /\ AllIn(takes)
  BY DEF RowInv
<1>2. /\ reader[d].job.revision = catalog.revision /\ reader[d].job.revision <= row.revision
  BY <1>1 DEF ReadInv, Abreast, Reading, ReaderAt
<1>3. row.revision \in Nat /\ catalog.revision \in Nat
  BY <1>1, SoundFacts DEF CatalogInv
<1>4. row.revision = catalog.revision
  BY <1>1, <1>2, <1>3
<1> QED
  BY <1>1, <1>4 DEF CatalogInv

\* What the readers are playing
Played == [d \in Readers |-> Playing(d)]

(* Renders, decisions, reads and the death of the process are what the     *)
(* abstract playback allows: decide while nobody opens, open what stands.  *)
THEOREM PlaybackRefined == Spec => PlaybackApproved
<1>1. ASSUME Init PROVE Playback!Init
  <2>1. catalog.approvals = NoDecisions /\ reader = [d \in Readers |-> NoRead]
    BY <1>1 DEF Init
  <2>2. \A d \in Readers : Playing(d) = Playback!Silent
    BY <2>1 DEF Playing, NoRead, NoDecisions, None, Playback!Silent
  <2> QED
    BY <2>1, <2>2 DEF Playback!Init, NoDecisions, None
<1>2. ASSUME IInv, IInv', [Next]_vars
      PROVE  Playback!Next \/ UNCHANGED <<catalog.approvals, Played>>
  <2>1. /\ CatalogInv /\ RowInv /\ ReviewInv /\ ReadInv /\ QueueInv
        /\ reader \in [Readers -> Reads]
    BY <1>2 DEF IInv, ReadInv
  <2>2. CASE UNCHANGED vars
    BY <2>2 DEF vars, Played, Playing
  <2>3. ASSUME NEW r \in Reviewers, Decides(r) PROVE Playback!Next
    <3>1. \A d \in Readers : Playing(d).phase # "opening"
      BY <2>1, <2>3, DecidesAlone DEF Playing
    <3>2. reader' = reader
      BY <2>3 DEF Decides, ReviewSegment, ReviewUngrant, ReviewGrant, ReviewReconcile
    <3>3. DOMAIN catalog'.approvals = Segments
      BY <1>2 DEF IInv, CatalogInv, Takes
    <3>4. Playback!Decide
      BY <3>1, <3>2, <3>3 DEF Playback!Decide, Playing
    <3> QED
      BY <3>4 DEF Playback!Next
  <2>4. CASE Next /\ UNCHANGED <<catalog, history>>
    <3>1. CASE UNCHANGED reader
      BY <2>4, <3>1 DEF Played, Playing
    <3>2. CASE Crash
      <4>1. \A d \in Readers : Playing(d)' = Playback!Silent
        BY <3>2 DEF Crash, Playing, NoRead, NoDecisions, None, Playback!Silent
      <4>2. Playback!Halt
        BY <2>4, <4>1 DEF Playback!Halt
      <4> QED
        BY <4>2 DEF Playback!Next
    <3>3. ASSUME NEW d \in Readers, ReadLoad(d) \/ Read(d)
          PROVE  Playback!Next \/ UNCHANGED <<catalog.approvals, Played>>
      <4>1. \A e \in Readers : e # d => Playing(e)' = Playing(e)
        BY <2>1, <3>3 DEF ReadLoad, Read, ReadPreliminary, ReadEnter, ReadMint, ReadOpened,
               ReadClose, ReadDenied, ReadReopen, ReaderGoes, Playing
      <4>2. ASSUME Playing(d)' = Playing(d) PROVE UNCHANGED <<catalog.approvals, Played>>
        BY <2>4, <4>1, <4>2 DEF Played
      <4>3. ASSUME Playing(d)' = Playback!Silent PROVE Playback!Next
        <5>1. Playback!Stop(d)
          BY <2>4, <4>1, <4>3 DEF Playback!Stop
        <5> QED
          BY <5>1 DEF Playback!Next
      <4>4. ASSUME reader' = [reader EXCEPT ![d] = NoRead] PROVE Playback!Next
        <5>1. Playing(d)' = Playback!Silent
          BY <2>1, <4>4 DEF Playing, NoRead, NoDecisions, None, Playback!Silent
        <5> QED
          BY <4>3, <5>1
      <4>5. CASE ReadLoad(d)
        <5>1. Playing(d)' = Playback!Silent
          BY <2>1, <4>5 DEF ReadLoad, Playing, NoRead, NoDecisions, None, Playback!Silent
        <5> QED
          BY <4>3, <5>1
      <4>6. CASE ReadPreliminary(d) \/ ReadEnter(d)
        <5>1. Playing(d)' = Playing(d)
          BY <2>1, <4>6 DEF ReadPreliminary, ReadEnter, ReaderAt, ReaderGoes, Playing, Reads
        <5> QED
          BY <4>2, <5>1
      <4>7. CASE ReadMint(d)
        <5>1. CASE ReaderGoes(d, "denied") /\ ReaderAt(d, "minting")
          <6>1. Playing(d)' = Playing(d)
            BY <2>1, <5>1 DEF ReaderAt, ReaderGoes, Playing, Reads
          <6> QED
            BY <4>2, <6>1
        <5>2. ASSUME reader[d].job.revision = reader[d].live, NEW takes \in output,
                     ReaderAt(d, "minting"),
                     reader' = [reader EXCEPT ![d] =
                                  [NoRead EXCEPT !.pc = "opening", !.takes = takes]]
              PROVE  Playback!Next
          <6>1. takes = catalog.approvals /\ AllIn(takes)
            BY <2>1, <5>2, MintedStands
          <6>2. Playing(d)' = [phase |-> "opening", takes |-> takes]
            BY <2>1, <5>2 DEF Playing, NoRead
          <6>3. Playing(d).phase = "silent"
            BY <5>2 DEF Playing, ReaderAt
          <6>4. Playback!Open(d)
            BY <2>4, <4>1, <6>1, <6>2, <6>3 DEF Playback!Open, AllIn, None
          <6> QED
            BY <6>4 DEF Playback!Next
        <5> QED
          BY <4>7, <5>1, <5>2 DEF ReadMint
      <4>8. CASE ReadOpened(d)
        <5>1. CASE reader' = [reader EXCEPT ![d].pc = "streaming"]
          <6>1. /\ Playing(d)' = [Playing(d) EXCEPT !.phase = "streaming"]
                /\ Playing(d).phase = "opening"
            BY <2>1, <4>8, <5>1 DEF ReadOpened, ReaderAt, Playing, Reads
          <6>2. Playback!Stream(d)
            BY <2>4, <4>1, <6>1 DEF Playback!Stream
          <6> QED
            BY <6>2 DEF Playback!Next
        <5> QED
          BY <4>4, <4>8, <5>1 DEF ReadOpened
      <4>9. CASE ReadClose(d) \/ ReadReopen(d)
        BY <4>4, <4>9 DEF ReadClose, ReadReopen
      <4>10. CASE ReadDenied(d)
        <5>1. CASE reader' = [reader EXCEPT ![d].pc = "reopening"]
          <6>1. Playing(d)' = Playing(d)
            BY <2>1, <4>10, <5>1 DEF ReadDenied, ReaderAt, Playing, Reads
          <6> QED
            BY <4>2, <6>1
        <5> QED
          BY <4>4, <4>10, <5>1 DEF ReadDenied
      <4> QED
        BY <3>3, <4>5, <4>6, <4>7, <4>8, <4>9, <4>10 DEF Read
    <3>4. UNCHANGED reader \/ Crash \/ \E d \in Readers : ReadLoad(d) \/ Read(d)
      BY <2>4, ActorFrame
    <3> QED
      BY <3>1, <3>2, <3>3, <3>4
  <2> QED
    BY <1>2, <2>2, <2>3, <2>4, CatalogFrame
<1>3. IInv /\ IInv' /\ [Next]_vars => [Playback!Next]_<<catalog.approvals, Played>>
  BY <1>2
<1> QED
  BY <1>1, <1>3, InvAlways, PTL DEF Spec, PlaybackApproved, Playback!Spec, Played
=============================================================================
