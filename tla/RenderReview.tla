---------------------------- MODULE RenderReview ----------------------------
(***************************************************************************)
(* One audiobook after direction: renders, review decisions and playback   *)
(* of the result, all in one web process over one SQLite database.         *)
(*                                                                         *)
(* The database keeps the job's row, its completed output, the fallback    *)
(* approval catalog and the ledger of rendered segments.  In memory live   *)
(* at most one run of RenderAudiobook (GenerationRunner serializes them),  *)
(* reviewers inside ReviewFallbackApprovals, readers inside                *)
(* CompletedOutputAuthority, and the book's catalog section, a FIFO of     *)
(* promises.  A step is one synchronous block: what runs up to and with    *)
(* the next database access.  Whatever an actor read earlier is a copy it  *)
(* holds while the others move, and a save may land late, because a busy   *)
(* database is retried: a save is therefore a step apart from the checks   *)
(* on shared memory that precede it.                                       *)
(*                                                                         *)
(* A decision is the catalog revision that wrote it: approval IDs are      *)
(* content addresses over the decision's actor, instant and grant, so a    *)
(* later decision about the same line is another one.  The script and the  *)
(* render contract do not change here.                                     *)
(***************************************************************************)
EXTENDS AudiobookJob, FiniteSets, Sequences

CONSTANTS
  Segments,     \* the segments of the script
  Fallback,     \* those with an unresolved speaker, which a human must decide on
  Reviewers,    \* review requests in flight
  Readers,      \* requests for the completed audio in flight
  Decisions,    \* the operations of ReviewFallbackApprovals that are requested
  MaxReviews,   \* bound: review requests made in all
  WritesFail,   \* whether a transaction may be given up
  Crashes       \* whether the process may die

ASSUME ScriptAssumption ==
  /\ IsFiniteSet(Segments) /\ Segments # {} /\ Fallback \subseteq Segments
  /\ Decisions \subseteq {"approve", "revoke", "grant", "ungrant"}
  /\ MaxReviews \in Nat /\ WritesFail \in BOOLEAN /\ Crashes \in BOOLEAN

ASSUME ActorsAssumption == Reviewers \cap Readers = {} /\ "run" \notin Reviewers \cup Readers

VARIABLES
  row,          \* jobs: the saved snapshot
  output,       \* completed_outputs: {} or {what each segment of the files was rendered for}
  catalog,      \* fallback_approvals, _exclusions, _book_grants and _catalog_revisions
  audio,        \* artifacts: the decisions each segment has a recording for
  run,          \* the runner's entry for this job and RenderAudiobook's locals
  asked,        \* the render or resume request between its read of the job and its enqueueing
  reviewer, reader,
  queue,        \* the catalog section: its holder and, behind it, who waits
  reviews,      \* review requests made
  history       \* ghost: the approvals of every catalog revision, from 0

database == <<row, output, catalog, audio, history>>
vars == <<row, output, catalog, audio, run, asked, reviewer, reader, queue, reviews, history>>

-----------------------------------------------------------------------------
(* The database                                                            *)

None == 0               \* no approval; also what a resolved speaker is rendered for

\* saveJob replaces the row, and deleting the old one cascades to its output
SaveJob(j) == row' = j /\ output' = {}

\* Mutant: a withdrawn segment is on offer again
OfferableAgain == {s \in Fallback : catalog.approvals[s] = None}

Offerable == {s \in Fallback \ catalog.excluded : catalog.approvals[s] = None}

AllDecided(c) == \A s \in Fallback : c.approvals[s] # None

Commit(c) ==
  /\ catalog' = [c EXCEPT !.revision = catalog.revision + 1]
  /\ history' = Append(history, c.approvals)

\* approvals.save: upsert, forget the withdrawal, bump the revision
SaveApproval(s) ==
  Commit([catalog EXCEPT !.approvals[s] = catalog.revision + 1, !.excluded = @ \ {s}])

\* approvals.revoke for a human withdrawal
Withdraw(s) ==
  Commit([catalog EXCEPT !.approvals[s] = None, !.excluded = @ \cup {s}])

SaveBookGrant(subjects) == Commit([catalog EXCEPT !.grant = subjects])

RevokeBookGrant == Commit([catalog EXCEPT !.grant = {}])

-----------------------------------------------------------------------------
(* Initial state: a directed script under review, nothing decided          *)

DirectedJob(b, c) ==
  LET extracted == AttachBook(Start(BindCommand(NewJob, c)), b)
      directed  == RecordDirectionProgress(BeginDirection(extracted, 1, 1), 1, 1)
  IN AwaitReview(BindRenderContract(directed, c))

NoDecisions == [s \in Segments |-> None]

NoRun == [pc |-> "idle", kind |-> "render", recover |-> FALSE, job |-> NewJob, next |-> "idle",
          approvals |-> NoDecisions, revision |-> 0, missing |-> {}]

NoReview == [pc |-> "idle", op |-> "none", segment |-> {}, job |-> NewJob, rest |-> {}]

NoRead == [pc |-> "idle", job |-> NewJob, live |-> 0, takes |-> NoDecisions]

Init ==
  /\ \E b \in Books, c \in Digests : row = DirectedJob(b, c)
  /\ output = {}
  /\ catalog = [revision |-> 0, approvals |-> NoDecisions, excluded |-> {}, grant |-> {}]
  /\ history = <<NoDecisions>>
  /\ audio = [s \in Segments |-> {}]
  /\ run = NoRun
  /\ asked = "nothing"
  /\ reviewer = [r \in Reviewers |-> NoReview]
  /\ reader = [d \in Readers |-> NoRead]
  /\ queue = <<>>
  /\ reviews = 0

-----------------------------------------------------------------------------
(* The web process's requests and the runner                               *)

Active == run.pc # "idle"

\* renderApprovedScript and resumeGeneration read the job ...
Ask ==
  /\ asked = "nothing"
  /\ asked' \in {"render", "resume"}
  /\ asked' = "render" => row.state = "awaiting_review"
  /\ asked' = "resume" => Interrupted(row) /\ row.stage \in {"rendering", "assembling"}
  /\ UNCHANGED <<database, run, reviewer, reader, queue, reviews>>

\* ... and enqueue a run unless the runner holds one
Enqueue ==
  /\ asked # "nothing"
  /\ asked' = "nothing"
  /\ IF Active THEN UNCHANGED run
     ELSE run' = [NoRun EXCEPT !.pc = "load", !.recover = (asked = "resume")]
  /\ UNCHANGED <<database, reviewer, reader, queue, reviews>>

\* confirm refuses a job that no longer awaits review
DropRequest ==
  /\ asked = "render"
  /\ asked' = "nothing"
  /\ UNCHANGED <<database, run, reviewer, reader, queue, reviews>>

\* startGeneration with recoverAbandoned: direction only takes the row from its dead owner
EnqueueRecovery ==
  /\ ~Active
  /\ row.state = "running"
  /\ run' = [NoRun EXCEPT !.pc = "load", !.kind = "direct", !.recover = TRUE]
  /\ UNCHANGED <<database, asked, reviewer, reader, queue, reviews>>

-----------------------------------------------------------------------------
(* RenderAudiobook                                                         *)

RunAt(pc) == run.pc = pc

Elsewhere == UNCHANGED <<asked, reviewer, reader, reviews>>

Goes(pc) == run' = [run EXCEPT !.pc = pc]

\* The jobs a render may continue
Renderable(j) ==
  \/ j.state = "awaiting_review"
  \/ Interrupted(j) /\ j.stage \in {"rendering", "assembling"}

\* Where the code continues with a job in this state
AfterLoad(j) ==
  CASE j.state = "running" /\ run.recover -> "abandon"
    [] run.kind = "direct" -> "idle"
    [] j.state = "completed" -> "authorize"
    [] j.state = "abandoned" /\ ~run.recover -> "idle"
    [] Renderable(j) -> "gate"
    [] OTHER -> "idle"

RunLoad ==
  /\ RunAt("load")
  /\ run' = IF AfterLoad(row) = "idle" THEN NoRun
            ELSE [run EXCEPT !.pc = AfterLoad(row), !.job = row]
  /\ UNCHANGED <<database, queue>> /\ Elsewhere

\* CompletedOutputAuthority.authorize for a job that is completed already
RunAuthorize ==
  /\ RunAt("authorize")
  /\ IF catalog.revision = run.job.revision
     THEN Goes("section") /\ queue' = Append(queue, "run")
     ELSE Goes("reopen") /\ UNCHANGED queue
  /\ UNCHANGED database /\ Elsewhere

RunSection ==
  /\ RunAt("section") /\ Head(queue) = "run"
  /\ queue' = Tail(queue)
  /\ IF catalog.revision = run.job.revision /\ output # {} THEN run' = NoRun ELSE Goes("reopen")
  /\ UNCHANGED database /\ Elsewhere

RunReopen ==
  /\ RunAt("reopen")
  /\ SaveJob(ReopenForReview(run.job))
  /\ run' = [run EXCEPT !.pc = "gate", !.job = ReopenForReview(run.job)]
  /\ UNCHANGED <<catalog, audio, history, queue>> /\ Elsewhere

RunAbandon ==
  /\ RunAt("abandon")
  /\ SaveJob(MarkAbandoned(run.job))
  /\ run' = IF run.kind = "render" /\ Renderable(MarkAbandoned(run.job))
            THEN [run EXCEPT !.pc = "gate", !.job = MarkAbandoned(@)] ELSE NoRun
  /\ UNCHANGED <<catalog, audio, history, queue>> /\ Elsewhere

\* The first readRenderGate
RunGate ==
  /\ RunAt("gate")
  /\ run' = IF AllDecided(catalog)
            THEN [run EXCEPT !.pc = "plan", !.approvals = catalog.approvals,
                             !.revision = catalog.revision]
            ELSE NoRun
  /\ UNCHANGED <<database, queue>> /\ Elsewhere

RunPlan ==
  /\ RunAt("plan")
  /\ LET missing == {s \in Segments : run.approvals[s] \notin audio[s]}
     IN run' = IF run.job.stage = "assembling" /\ missing # {} THEN NoRun
               ELSE [run EXCEPT !.pc = "regate", !.missing = missing]
  /\ UNCHANGED <<database, queue>> /\ Elsewhere

\* Planning throws: a job that was under review is left failed in rendering
RunPlanFails ==
  /\ RunAt("plan") /\ run.job.state = "awaiting_review"
  /\ LET rendering == BeginRendering(ResumeApprovedRender(run.job), 0, Cardinality(Segments))
     IN SaveJob(rendering) /\ run' = [run EXCEPT !.pc = "caught", !.job = rendering]
  /\ UNCHANGED <<catalog, audio, history, queue>> /\ Elsewhere

Claimed(j, done, total) ==
  IF Interrupted(j) THEN ResumeSegments(j, done, total)
  ELSE BeginRendering(ResumeApprovedRender(j), done, total)

\* Mutant: the second gate's revision is claimed, the first gate's approvals rendered
RunRegateUncompared ==
  /\ RunAt("regate")
  /\ run' = IF AllDecided(catalog)
            THEN [run EXCEPT !.pc = "claim", !.revision = catalog.revision,
                             !.job = Claimed(@, Cardinality(Segments \ run.missing),
                                                Cardinality(Segments))]
            ELSE NoRun
  /\ UNCHANGED <<database, queue>> /\ Elsewhere

\* Mutant: planned segments count as done
RunRegateOptimistic ==
  /\ RunAt("regate")
  /\ run' = IF AllDecided(catalog) /\ catalog.revision = run.revision
            THEN [run EXCEPT !.pc = "claim", !.missing = {},
                             !.job = Claimed(@, Cardinality(Segments), Cardinality(Segments))]
            ELSE NoRun
  /\ UNCHANGED <<database, queue>> /\ Elsewhere

\* The second readRenderGate, and the claim in memory
RunRegate ==
  /\ RunAt("regate")
  /\ run' = IF AllDecided(catalog) /\ catalog.revision = run.revision
            THEN [run EXCEPT !.pc = "claim", !.revision = catalog.revision,
                             !.job = Claimed(@, Cardinality(Segments \ run.missing),
                                                Cardinality(Segments))]
            ELSE NoRun
  /\ UNCHANGED <<database, queue>> /\ Elsewhere

RunClaim ==
  /\ RunAt("claim")
  /\ SaveJob(run.job)
  /\ run' = IF run.job.stage = "assembling" THEN [run EXCEPT !.pc = "check"]
            ELSE [run EXCEPT !.pc = "save", !.next = "render", !.job = ReportChapter(@)]
  /\ UNCHANGED <<catalog, audio, history, queue>> /\ Elsewhere

RunSave ==
  /\ RunAt("save")
  /\ SaveJob(run.job)
  /\ Goes(run.next)
  /\ UNCHANGED <<catalog, audio, history, queue>> /\ Elsewhere

\* One segment rendered and saved, then counted
RunSegment ==
  /\ RunAt("render")
  /\ \E s \in run.missing :
       /\ audio' = [audio EXCEPT ![s] = @ \cup {run.approvals[s]}]
       /\ run' = [run EXCEPT !.pc = "save", !.next = "render", !.missing = @ \ {s},
                             !.job = RecordSegmentCompleted(@)]
  /\ UNCHANGED <<row, output, catalog, history, queue>> /\ Elsewhere

RunRendered ==
  /\ RunAt("render") /\ run.missing = {}
  /\ Goes("check")
  /\ UNCHANGED <<database, queue>> /\ Elsewhere

\* assertCatalogUnmoved before assembly, and beginAssembly
RunCheck ==
  /\ RunAt("check")
  /\ run' = IF catalog.revision # run.revision THEN [run EXCEPT !.pc = "caught"]
            ELSE IF run.job.stage = "assembling" THEN [run EXCEPT !.pc = "recheck"]
            ELSE [run EXCEPT !.pc = "save", !.next = "recheck", !.job = BeginAssembly(@)]
  /\ UNCHANGED <<database, queue>> /\ Elsewhere

\* Mutant: a moved catalog is thrown past the catch
RunRecheckUncaught ==
  /\ RunAt("recheck")
  /\ run' = IF catalog.revision = run.revision THEN [run EXCEPT !.pc = "commit"] ELSE NoRun
  /\ UNCHANGED <<database, queue>> /\ Elsewhere

\* assertCatalogUnmoved after assembly
RunRecheck ==
  /\ RunAt("recheck")
  /\ Goes(IF catalog.revision = run.revision THEN "commit" ELSE "caught")
  /\ UNCHANGED <<database, queue>> /\ Elsewhere

\* saveCompletedJob: the row and its output in one transaction
RunCommit ==
  /\ RunAt("commit")
  /\ row' = Complete(run.job, run.revision)
  /\ output' = {run.approvals}
  /\ run' = NoRun
  /\ UNCHANGED <<catalog, audio, history, queue>> /\ Elsewhere

\* An error or the shutdown signal inside the try block
RunThrows ==
  /\ \/ run.pc \in {"render", "check", "recheck"}
     \/ WritesFail /\ RunAt("save")
  /\ Goes("caught")
  /\ UNCHANGED <<database, queue>> /\ Elsewhere

RunCatch ==
  /\ RunAt("caught")
  /\ \E stopped \in {Fail(run.job), MarkAbandoned(run.job)} : SaveJob(stopped)
  /\ run' = NoRun
  /\ UNCHANGED <<catalog, audio, history, queue>> /\ Elsewhere

\* An error before the try block: nothing is written
RunRefused ==
  /\ run.pc \in {"load", "authorize", "gate", "plan", "regate"}
  /\ run' = NoRun
  /\ UNCHANGED <<database, queue>> /\ Elsewhere

\* A write given up outside the try block, by the catch itself, or for a completed job,
\* which the catch leaves alone
RunWriteLost ==
  /\ WritesFail
  /\ run.pc \in {"reopen", "abandon", "claim", "caught", "commit"}
  /\ run' = NoRun
  /\ UNCHANGED <<database, queue>> /\ Elsewhere

Run ==
  \/ RunLoad \/ RunAuthorize \/ RunSection \/ RunReopen \/ RunAbandon \/ RunGate \/ RunPlan
  \/ RunPlanFails \/ RunRegate \/ RunClaim \/ RunSave \/ RunSegment \/ RunRendered
  \/ RunCheck \/ RunRecheck \/ RunCommit \/ RunThrows \/ RunCatch \/ RunRefused \/ RunWriteLost

-----------------------------------------------------------------------------
(* ReviewFallbackApprovals                                                 *)

ReviewerAt(r, pc) == reviewer[r].pc = pc

ReviewerGoes(r, pc) == reviewer' = [reviewer EXCEPT ![r].pc = pc]

\* The job as it was loaded is not looked at again
ReviewerDecides(r) == reviewer' = [reviewer EXCEPT ![r].pc = "decide", ![r].job = NewJob]

\* The section's operation returns or throws
ReviewerLeaves(r) == reviewer' = [reviewer EXCEPT ![r] = NoReview] /\ queue' = Tail(queue)

\* runReviewDecision's check and load's findJob happen in the same tick
ReviewLoad(r) ==
  /\ ReviewerAt(r, "idle") /\ ~Active /\ reviews < MaxReviews
  /\ \E op \in Decisions, s \in Fallback :
       reviewer' = [reviewer EXCEPT ![r] =
                      [NoReview EXCEPT !.pc = "loaded", !.op = op, !.job = row,
                         !.segment = IF op \in {"approve", "revoke"} THEN {s} ELSE {}]]
  /\ reviews' = reviews + 1
  /\ UNCHANGED <<database, run, asked, reader, queue>>

ReviewJoin(r) ==
  /\ ReviewerAt(r, "loaded")
  /\ ReviewerGoes(r, "waiting")
  /\ queue' = Append(queue, r)
  /\ UNCHANGED <<database, run, asked, reader, reviews>>

\* Mutant: nobody waits for the section
ReviewEnterAtOnce(r) ==
  /\ ReviewerAt(r, "waiting")
  /\ LET j == reviewer[r].job
     IN \/ /\ j.state = "running"
           /\ ReviewerLeaves(r)
           /\ UNCHANGED <<row, output>>
        \/ /\ j.state = "completed"
           /\ SaveJob(ReopenForReview(j))
           /\ ReviewerDecides(r) /\ UNCHANGED queue
        \/ /\ j.state \notin {"running", "completed"}
           /\ ReviewerDecides(r)
           /\ UNCHANGED <<row, output, queue>>
  /\ UNCHANGED <<catalog, audio, history, run, asked, reader, reviews>>

\* assertNoRenderOwns and reopenIfCompleted, on the job as it was loaded
ReviewEnter(r) ==
  /\ ReviewerAt(r, "waiting") /\ Head(queue) = r
  /\ LET j == reviewer[r].job
     IN \/ /\ j.state = "running"
           /\ ReviewerLeaves(r)
           /\ UNCHANGED <<row, output>>
        \/ /\ j.state = "completed"
           /\ SaveJob(ReopenForReview(j))
           /\ ReviewerDecides(r) /\ UNCHANGED queue
        \/ /\ j.state \notin {"running", "completed"}
           /\ ReviewerDecides(r)
           /\ UNCHANGED <<row, output, queue>>
  /\ UNCHANGED <<catalog, audio, history, run, asked, reader, reviews>>

\* approve and revoke
ReviewSegment(r) ==
  /\ ReviewerAt(r, "decide") /\ reviewer[r].op \in {"approve", "revoke"}
  /\ \E s \in reviewer[r].segment :
       IF reviewer[r].op = "approve" THEN SaveApproval(s) ELSE Withdraw(s)
  /\ ReviewerGoes(r, "reread")
  /\ UNCHANGED <<row, output, audio, run, asked, reader, queue, reviews>>

ReviewUngrant(r) ==
  /\ ReviewerAt(r, "decide") /\ reviewer[r].op = "ungrant"
  /\ RevokeBookGrant
  /\ ReviewerGoes(r, "reread")
  /\ UNCHANGED <<row, output, audio, run, asked, reader, queue, reviews>>

\* grantBookFallback for the whole queue or a selection from it, reconciled one record at a time
ReviewGrant(r) ==
  /\ ReviewerAt(r, "decide") /\ reviewer[r].op = "grant"
  /\ \E subjects \in SUBSET Offerable \ {{}} :
       /\ SaveBookGrant(subjects)
       /\ reviewer' = [reviewer EXCEPT ![r].pc = "reconcile", ![r].rest = subjects]
  /\ UNCHANGED <<row, output, audio, run, asked, reader, queue, reviews>>

ReviewReconcile(r) ==
  /\ ReviewerAt(r, "reconcile")
  /\ \E s \in reviewer[r].rest :
       /\ SaveApproval(s)
       /\ LET rest == reviewer[r].rest \ {s}
          IN reviewer' = [reviewer EXCEPT ![r].rest = rest,
                            ![r].pc = IF rest = {} THEN "reread" ELSE @]
  /\ UNCHANGED <<row, output, audio, run, asked, reader, queue, reviews>>

\* A selection that is not on offer, or nothing to grant
ReviewRejected(r) ==
  /\ ReviewerAt(r, "decide") /\ reviewer[r].op = "grant"
  /\ ReviewerLeaves(r)
  /\ UNCHANGED <<database, run, asked, reader, reviews>>

\* reopenIfCompletedSince
ReviewReread(r) ==
  /\ ReviewerAt(r, "reread")
  /\ IF row.state = "completed"
     THEN /\ reviewer' = [reviewer EXCEPT ![r].pc = "resave", ![r].job = row]
          /\ UNCHANGED queue
     ELSE ReviewerLeaves(r)
  /\ UNCHANGED <<database, run, asked, reader, reviews>>

ReviewResave(r) ==
  /\ ReviewerAt(r, "resave")
  /\ SaveJob(ReopenForReview(reviewer[r].job))
  /\ ReviewerLeaves(r)
  /\ UNCHANGED <<catalog, audio, history, run, asked, reader, reviews>>

ReviewWriteLost(r) ==
  /\ WritesFail
  /\ \/ ReviewerAt(r, "waiting") /\ Head(queue) = r /\ reviewer[r].job.state = "completed"
     \/ reviewer[r].pc \in {"decide", "reconcile", "resave"}
  /\ ReviewerLeaves(r)
  /\ UNCHANGED <<database, run, asked, reader, reviews>>

Review(r) ==
  \/ ReviewJoin(r) \/ ReviewEnter(r) \/ ReviewSegment(r) \/ ReviewUngrant(r) \/ ReviewGrant(r)
  \/ ReviewReconcile(r) \/ ReviewRejected(r) \/ ReviewReread(r) \/ ReviewResave(r)
  \/ ReviewWriteLost(r)

-----------------------------------------------------------------------------
(* openOutputFile and CompletedOutputAuthority                             *)

ReaderAt(d, pc) == reader[d].pc = pc

ReaderGoes(d, pc) == reader' = [reader EXCEPT ![d].pc = pc]

ReadLoad(d) ==
  /\ ReaderAt(d, "idle") /\ row.state = "completed"
  /\ reader' = [reader EXCEPT ![d] = [NoRead EXCEPT !.pc = "preliminary", !.job = row]]
  /\ UNCHANGED <<database, run, asked, reviewer, queue, reviews>>

ReadPreliminary(d) ==
  /\ ReaderAt(d, "preliminary")
  /\ IF catalog.revision = reader[d].job.revision
     THEN ReaderGoes(d, "waiting") /\ queue' = Append(queue, d)
     ELSE ReaderGoes(d, "denied") /\ UNCHANGED queue
  /\ UNCHANGED <<database, run, asked, reviewer, reviews>>

ReadEnter(d) ==
  /\ ReaderAt(d, "waiting") /\ Head(queue) = d
  /\ reader' = [reader EXCEPT ![d].pc = "minting", ![d].live = catalog.revision]
  /\ UNCHANGED <<database, run, asked, reviewer, queue, reviews>>

\* Mutant: the preliminary read is taken for the authorization
ReadMintUnchecked(d) ==
  /\ ReaderAt(d, "minting")
  /\ \/ /\ \E takes \in output :
             reader' = [reader EXCEPT ![d] = [NoRead EXCEPT !.pc = "opening", !.takes = takes]]
        /\ UNCHANGED queue
     \/ /\ output = {}
        /\ ReaderGoes(d, "denied") /\ queue' = Tail(queue)
  /\ UNCHANGED <<database, run, asked, reviewer, reviews>>

\* findCompletedOutput and LiveCatalogRead.mint
ReadMint(d) ==
  /\ ReaderAt(d, "minting")
  /\ \/ /\ reader[d].job.revision = reader[d].live
        /\ \E takes \in output :
             reader' = [reader EXCEPT ![d] = [NoRead EXCEPT !.pc = "opening", !.takes = takes]]
        /\ UNCHANGED queue
     \/ /\ reader[d].job.revision # reader[d].live \/ output = {}
        /\ ReaderGoes(d, "denied") /\ queue' = Tail(queue)
  /\ UNCHANGED <<database, run, asked, reviewer, reviews>>

\* openContainedFile answers and the section is left, with or without a descriptor
ReadOpened(d) ==
  /\ ReaderAt(d, "opening")
  /\ reader' \in {[reader EXCEPT ![d].pc = "streaming"], [reader EXCEPT ![d] = NoRead]}
  /\ queue' = Tail(queue)
  /\ UNCHANGED <<database, run, asked, reviewer, reviews>>

ReadClose(d) ==
  /\ ReaderAt(d, "streaming")
  /\ reader' = [reader EXCEPT ![d] = NoRead]
  /\ UNCHANGED <<database, run, asked, reviewer, queue, reviews>>

\* reopenStaleOutput, which leaves the row to an active run
ReadDenied(d) ==
  /\ ReaderAt(d, "denied")
  /\ reader' = IF Active THEN [reader EXCEPT ![d] = NoRead]
               ELSE [reader EXCEPT ![d].pc = "reopening"]
  /\ UNCHANGED <<database, run, asked, reviewer, queue, reviews>>

ReadReopen(d) ==
  /\ ReaderAt(d, "reopening")
  /\ \/ SaveJob(ReopenForReview(reader[d].job))
     \/ WritesFail /\ UNCHANGED <<row, output>>
  /\ reader' = [reader EXCEPT ![d] = NoRead]
  /\ UNCHANGED <<catalog, audio, history, run, asked, reviewer, queue, reviews>>

Read(d) ==
  \/ ReadPreliminary(d) \/ ReadEnter(d) \/ ReadMint(d) \/ ReadOpened(d) \/ ReadClose(d)
  \/ ReadDenied(d) \/ ReadReopen(d)

-----------------------------------------------------------------------------

\* The process dies: everything in memory is gone, everything committed stays
Crash ==
  /\ Crashes
  /\ run' = NoRun /\ asked' = "nothing" /\ queue' = <<>>
  /\ reviewer' = [r \in Reviewers |-> NoReview]
  /\ reader' = [d \in Readers |-> NoRead]
  /\ UNCHANGED <<database, reviews>>

Request ==
  \/ Ask \/ Enqueue \/ DropRequest \/ EnqueueRecovery
  \/ \E r \in Reviewers : ReviewLoad(r)
  \/ \E d \in Readers : ReadLoad(d)

Next ==
  \/ Request \/ Run \/ Crash
  \/ \E r \in Reviewers : Review(r)
  \/ \E d \in Readers : Read(d)

Spec == Init /\ [][Next]_vars

\* Promises settle: every step that waits for nobody outside the process is taken.
\* Requests, crashes and the pace of a listener (ReadClose) are left open.
Fairness ==
  /\ WF_vars(Enqueue) /\ WF_vars(Run)
  /\ \A r \in Reviewers : WF_vars(Review(r))
  /\ \A d \in Readers : WF_vars(Read(d) /\ ~ReaderAt(d, "streaming"))

FairSpec == Spec /\ Fairness

-----------------------------------------------------------------------------

DecisionIds == 0..catalog.revision

TypeOK ==
  /\ row \in Jobs
  /\ output \subseteq [Segments -> DecisionIds]
  /\ catalog.revision = Len(history) - 1
  /\ catalog.approvals \in [Segments -> DecisionIds]
  /\ catalog.excluded \subseteq Fallback /\ catalog.grant \subseteq Fallback
  /\ audio \in [Segments -> SUBSET DecisionIds]
  /\ run.job \in Jobs /\ run.approvals \in [Segments -> DecisionIds] /\ run.missing \subseteq Segments
  /\ \A r \in Reviewers : reviewer[r].job \in Jobs /\ reviewer[r].rest \subseteq Fallback
  /\ \A d \in Readers : reader[d].job \in Jobs /\ reader[d].takes \in [Segments -> DecisionIds]

(* A completed row has an output, no other row has one, and the files hold *)
(* exactly what the approvals of the recorded catalog revision authorize.  *)
OutputIsAttested ==
  /\ (row.state = "completed") <=> (output # {})
  /\ \A takes \in output :
       takes = history[row.revision + 1] /\ \A s \in Fallback : takes[s] # None

(* No file is being opened whose audio a decision has since withdrawn: not *)
(* between the last catalog check and the descriptor, whoever waits.       *)
ServedAudioStands ==
  \A d \in Readers : ReaderAt(d, "opening") => reader[d].takes = catalog.approvals

(* Whatever stale copies reviewers, readers and the run save over each     *)
(* other, the row can be opened again: findJob rejects any other snapshot. *)
(* The segments it counts as done were durable for one and the same set of *)
(* approvals, in every order of renders, decisions, failures, crashes.     *)
HonestProgress ==
  /\ TypeOK /\ SnapshotAccepted(row)
  /\ row.stage \in {"rendering", "assembling", "completed"} =>
       \E i \in DOMAIN history :
         row.done <= Cardinality({s \in Segments : history[i][s] \in audio[s]})

(* A withdrawal is undone only by naming that one segment in an approval,  *)
(* never by a grant for the book, however it overlaps with the withdrawal. *)
WithdrawalOutranksGrant ==
  [][\A s \in catalog.excluded \ catalog'.excluded :
       \E r \in Reviewers : reviewer[r].op = "approve" /\ reviewer[r].segment = {s}]_vars

(* A process that lives ends a claimed run with its row at rest, whatever   *)
(* throws and whoever reopens the row meanwhile: only the last write of    *)
(* the run, given up by the database, leaves a running row nobody runs.    *)
NoOrphan ==
  [][/\ run.pc \in {"save", "render", "check", "recheck", "caught", "commit"}
     /\ ~Active' /\ row'.state = "running"
     => WritesFail /\ run.pc \in {"caught", "commit"}]_vars

(* Whoever enters the catalog section leaves it: every run ends, and every *)
(* review or read gets its turn and its answer, or dies with the process.  *)
EverybodyAnswered ==
  /\ Active ~> ~Active
  /\ \A r \in Reviewers : reviewer[r].pc # "idle" ~> ReviewerAt(r, "idle")
  /\ \A d \in Readers : reader[d].pc # "idle" ~> reader[d].pc \in {"idle", "streaming"}

(* A review decision is refused outright while a render owns the job.      *)
DecisionRefusedUnderRender ==
  [][catalog'.revision # catalog.revision => row.state # "running"]_vars

-----------------------------------------------------------------------------
(* What listeners are promised, see ApprovedPlayback                       *)

Playing(d) ==
  [phase |-> IF reader[d].pc \in {"opening", "streaming"} THEN reader[d].pc ELSE "silent",
   takes |-> reader[d].takes]

Playback == INSTANCE ApprovedPlayback WITH
  approvals <- catalog.approvals,
  playing <- [d \in Readers |-> Playing(d)]

(* Renders, reviews and reads together implement approved playback.        *)
PlaybackApproved == Playback!Spec
=============================================================================
