----------------------------- MODULE Direction ------------------------------
(***************************************************************************)
(* Stage A, from an EPUB to a script under review: DirectAudiobook run by  *)
(* one or more processes over one workspace, with the two tables it saves  *)
(* to, the jobs and the books.  A chapter is one script out of a few (the  *)
(* director is not deterministic) and has one line that may have no        *)
(* resolved speaker.                                                       *)
(*                                                                         *)
(* A step runs up to the next await.  A write is a step of its own: a busy *)
(* database is tried again for seconds.  Requests that are refused change  *)
(* nothing and are no steps.                                               *)
(***************************************************************************)
EXTENDS AudiobookJob, FiniteSets

CONSTANTS
  Workers,      \* processes; each runs one operation at a time
  JobIds,
  BookOf,       \* the book ID that extraction derives for each job
  NoJob,        \* none of them
  NumChapters,
  PassagesEach, \* passages of a chapter
  Scripts,      \* what a director may return for a chapter, other than "absent" and "draft"
  Unsure,       \* those in which the line needs the fallback voice
  MaxFaults     \* bound on crashes, failures and stops in a behaviour

\* A line of each may be Warned of
Chapters == 1..NumChapters

VARIABLES
  rows,         \* the jobs table
  books,        \* the books, chapters and segments tables
  run,          \* the operation of each process
  stopping,     \* processes whose shutdown signal is raised
  confirmed,    \* confirmations of a human: a job with the script it was shown
  faults

vars == <<rows, books, run, stopping, confirmed, faults>>

Absent == [c \in Chapters |-> "absent"]

Extracted == [c \in Chapters |-> "draft"]

Approved(book) == {c \in Chapters : book[c] \in Scripts}

NoRow == [NewJob EXCEPT !.state = "absent"]

NoRun == [pc |-> "idle", id |-> NoJob, job |-> NewJob, book |-> Absent, at |-> 1]

Init ==
  /\ rows = [id \in JobIds |-> NoRow]
  /\ books = [b \in Books |-> Absent]
  /\ run = [w \in Workers |-> NoRun]
  /\ stopping = {} /\ confirmed = {}
  /\ faults = 0

-----------------------------------------------------------------------------

RunAt(w, pc) == run[w].pc = pc

Goes(w, pc, j) == run' = [run EXCEPT ![w].pc = pc, ![w].job = j]

Ends(w) == run' = [run EXCEPT ![w] = NoRun]

Fault == faults < MaxFaults /\ faults' = faults + 1

Stored == <<rows, books, confirmed>>

\* GenerationRunner: an active job is not started again, and none after beginShutdown
MayLoad(w, id) ==
  RunAt(w, "idle") /\ w \notin stopping /\ \A v \in Workers : run[v].id # id

\* resumeFailedStage's checkpoint, counted in the persisted book
Checkpoint(book) ==
  [chapters |-> Cardinality(Approved(book)), ofChapters |-> NumChapters,
   passages |-> PassagesEach * Cardinality(Approved(book)),
   ofPassages |-> PassagesEach * NumChapters]

\* execute, to the first await that matters: a new job, or the row there is.  A running row is
\* taken over only by a user who knows that its worker is gone, which MayLoad stands for.
Load(w, id, c) ==
  /\ MayLoad(w, id)
  /\ \/ /\ rows[id] = NoRow
        /\ run' = [run EXCEPT ![w].id = id, ![w].pc = "created", ![w].job = BindCommand(NewJob, c)]
     \/ /\ rows[id] # NoRow /\ rows[id].command = c
        /\ \/ rows[id].state = "pending" /\
              run' = [run EXCEPT ![w].id = id, ![w].pc = "start", ![w].job = rows[id]]
           \/ rows[id].state = "running" /\
              run' = [run EXCEPT ![w].id = id, ![w].pc = "orphaned", ![w].job = MarkAbandoned(rows[id])]
           \/ Interrupted(rows[id]) /\
              run' = [run EXCEPT ![w].id = id, ![w].pc = "resume", ![w].job = rows[id]]
  /\ UNCHANGED <<Stored, stopping, faults>>

\* start and bindRenderContract; the contract is part of the command identity
StartJob(w) ==
  /\ RunAt(w, "start")
  /\ LET j == run[w].job
     IN Goes(w, "claimed", BindRenderContract(Start(j), j.command))
  /\ UNCHANGED <<Stored, stopping, faults>>

\* Mutant: a resumed direction starts from the book as extracted
ResumeJobDrafted(w) ==
  /\ RunAt(w, "resume")
  /\ LET j == run[w].job
         book == books[j.book]
     IN \/ /\ CanResumeExtracting(j)
           /\ Goes(w, "claimed", BindRenderContract(ResumeExtracting(j), j.command))
        \/ /\ j.stage = "directing" /\ book # Absent
           /\ run' = [run EXCEPT ![w].pc = "claimed", ![w].book = Extracted,
                        ![w].job = BindRenderContract(ResumeDirecting(j, Checkpoint(Extracted)), j.command)]
  /\ UNCHANGED <<Stored, stopping, faults>>

\* Mutant: extraction has no checkpoint, so a failed extraction is not resumed
ResumeJobDirecting(w) ==
  /\ RunAt(w, "resume")
  /\ LET j == run[w].job
         book == books[j.book]
     IN /\ j.stage = "directing" /\ book # Absent
        /\ CanResumeDirecting(j, Checkpoint(book))
        /\ run' = [run EXCEPT ![w].pc = "claimed", ![w].book = book,
                     ![w].job = BindRenderContract(ResumeDirecting(j, Checkpoint(book)), j.command)]
  /\ UNCHANGED <<Stored, stopping, faults>>

\* resumeFailedStage with what the tables hold
ResumeJob(w) ==
  /\ RunAt(w, "resume")
  /\ LET j == run[w].job
         book == books[j.book]
     IN \/ /\ CanResumeExtracting(j)
           /\ Goes(w, "claimed", BindRenderContract(ResumeExtracting(j), j.command))
        \/ /\ j.stage = "directing" /\ book # Absent
           /\ CanResumeDirecting(j, Checkpoint(book))
           /\ run' = [run EXCEPT ![w].pc = "claimed", ![w].book = book,
                        ![w].job = BindRenderContract(ResumeDirecting(j, Checkpoint(book)), j.command)]
  /\ UNCHANGED <<Stored, stopping, faults>>

-----------------------------------------------------------------------------
(* Saving                                                                  *)

\* What waits for a save of the job, and where it goes on
JobSaves ==
  [created |-> "start", orphaned |-> "resume", claimed |-> "claimed", begun |-> "chapter",
   skipped |-> "chapter", opened |-> "directing", reported |-> "directing",
   recorded |-> "chapter", reviewed |-> "idle", failed |-> "idle", abandoned |-> "idle"]

AfterSave(w) ==
  IF RunAt(w, "claimed")
  THEN IF run[w].job.stage = "directing" THEN "chapter" ELSE "extract"
  ELSE JobSaves[run[w].pc]

SaveJob(w) ==
  /\ run[w].pc \in DOMAIN JobSaves
  /\ rows' = [rows EXCEPT ![run[w].id] = run[w].job]
  /\ IF AfterSave(w) = "idle" THEN Ends(w) ELSE Goes(w, AfterSave(w), run[w].job)
  /\ UNCHANGED <<books, confirmed, stopping, faults>>

\* Given up.  Only a job still running in memory is failed, and only inside the try.
SaveJobFails(w) ==
  /\ run[w].pc \in DOMAIN JobSaves /\ Fault
  /\ IF run[w].pc \in {"begun", "skipped", "opened", "reported", "recorded"}
     THEN Goes(w, "erring", run[w].job)
     ELSE Ends(w)
  /\ UNCHANGED <<Stored, stopping>>

\* After saveBook: beginDirection, nothing, or awaitReview
AfterSaveBook(w) ==
  CASE RunAt(w, "extracted") ->
         Goes(w, "begun", BeginDirection(run[w].job, NumChapters, PassagesEach * NumChapters))
    [] RunAt(w, "directed") -> Goes(w, "recorded", run[w].job)
    [] RunAt(w, "final") ->
         IF CanAwaitReview(run[w].job)
         THEN Goes(w, "reviewed", AwaitReview(run[w].job))
         ELSE Goes(w, "erring", run[w].job)

\* Mutant: the job is saved before the chapter it counts
SaveBookLate(w) ==
  /\ run[w].pc \in {"extracted", "directed", "final"}
  /\ IF RunAt(w, "directed")
     THEN rows' = [rows EXCEPT ![run[w].id] = run[w].job] /\ UNCHANGED books
     ELSE books' = [books EXCEPT ![run[w].job.book] = run[w].book] /\ UNCHANGED rows
  /\ AfterSaveBook(w)
  /\ UNCHANGED <<confirmed, stopping, faults>>

\* saveBook writes every chapter of the book as this run has it
SaveBook(w) ==
  /\ run[w].pc \in {"extracted", "directed", "final"}
  /\ books' = [books EXCEPT ![run[w].job.book] = run[w].book]
  /\ AfterSaveBook(w)
  /\ UNCHANGED <<rows, confirmed, stopping, faults>>

SaveBookFails(w) ==
  /\ run[w].pc \in {"extracted", "directed", "final"} /\ Fault
  /\ Goes(w, "erring", run[w].job)
  /\ UNCHANGED <<Stored, stopping>>

-----------------------------------------------------------------------------
(* Extraction and direction                                                *)

Extract(w) ==
  /\ RunAt(w, "extract")
  /\ run' = [run EXCEPT ![w].pc = "extracted", ![w].book = Extracted,
                        ![w].job = AttachBook(@, BookOf[run[w].id])]
  /\ UNCHANGED <<Stored, stopping, faults>>

\* Mutant: a resumed job reports its warnings from the chapters it directs only
SkipChapterUnwarned(w) ==
  /\ RunAt(w, "chapter") /\ run[w].at \in Approved(run[w].book)
  /\ LET at == run[w].at
         j == run[w].job
     IN IF at >= j.direction.chapters
        THEN run' = [run EXCEPT ![w].pc = "skipped", ![w].at = at + 1,
                       ![w].job = RecordDirectionProgress(j, at, PassagesEach * at)]
        ELSE run' = [run EXCEPT ![w].at = at + 1]
  /\ UNCHANGED <<Stored, stopping, faults>>

\* An approved chapter stands; its warning is recorded again
SkipChapter(w) ==
  /\ RunAt(w, "chapter") /\ run[w].at \in Approved(run[w].book)
  /\ LET at == run[w].at
         j == IF run[w].book[at] \in Unsure THEN AddFallbackWarning(run[w].job, at) ELSE run[w].job
     IN IF at >= j.direction.chapters
        THEN run' = [run EXCEPT ![w].pc = "skipped", ![w].at = at + 1,
                       ![w].job = RecordDirectionProgress(j, at, PassagesEach * at)]
        ELSE run' = [run EXCEPT ![w].at = at + 1, ![w].job = j]
  /\ UNCHANGED <<Stored, stopping, faults>>

\* A draft is announced, without moving the counts
OpenChapter(w) ==
  /\ RunAt(w, "chapter") /\ run[w].at \in Chapters \ Approved(run[w].book)
  /\ LET done == run[w].at - 1
     IN IF CanRecordDirectionProgress(run[w].job, done, PassagesEach * done)
        THEN Goes(w, "opened", RecordDirectionProgress(run[w].job, done, PassagesEach * done))
        ELSE Goes(w, "erring", run[w].job)
  /\ UNCHANGED <<Stored, stopping, faults>>

\* onProgress: passages of windows that are done, none of them durable
ReportPassages(w) ==
  /\ RunAt(w, "directing")
  /\ \E p \in 1..PassagesEach :
       LET j == run[w].job
           passages == PassagesEach * (run[w].at - 1) + p
       IN /\ passages > j.direction.passages
          /\ Goes(w, "reported", RecordDirectionProgress(j, j.direction.chapters, passages))
  /\ UNCHANGED <<Stored, stopping, faults>>

\* directChapter returns: split, covered, voiced, approved, counted
DirectChapter(w) ==
  /\ RunAt(w, "directing")
  /\ \E script \in Scripts :
       LET at == run[w].at
           j == IF script \in Unsure THEN AddFallbackWarning(run[w].job, at) ELSE run[w].job
       IN run' = [run EXCEPT ![w].pc = "directed", ![w].at = at + 1, ![w].book[at] = script,
                    ![w].job = RecordDirectionProgress(j, at, PassagesEach * at)]
  /\ UNCHANGED <<Stored, stopping, faults>>

\* The director is released after the last chapter
FinishBook(w) ==
  /\ RunAt(w, "chapter") /\ run[w].at > NumChapters
  /\ Goes(w, "final", run[w].job)
  /\ UNCHANGED <<Stored, stopping, faults>>

-----------------------------------------------------------------------------
(* Failure                                                                 *)

\* The extractor, the director or the director's release fails
StageFails(w) ==
  /\ \/ run[w].pc \in {"extract", "directing"}
     \/ RunAt(w, "chapter") /\ run[w].at > NumChapters
  /\ Fault
  /\ Goes(w, "erring", run[w].job)
  /\ UNCHANGED <<Stored, stopping>>

\* The signal reaches the director
DirectorAborted(w) ==
  /\ RunAt(w, "directing") /\ w \in stopping
  /\ Goes(w, "erring", run[w].job)
  /\ UNCHANGED <<Stored, stopping, faults>>

\* The catch block, after the director's release: abandoned if stopped, failed otherwise
CatchError(w) ==
  /\ RunAt(w, "erring")
  /\ IF w \in stopping
     THEN Goes(w, "abandoned", MarkAbandoned(run[w].job))
     ELSE Goes(w, "failed", Fail(run[w].job))
  /\ UNCHANGED <<Stored, stopping, faults>>

\* The user stops the process
Stop(w) ==
  /\ w \notin stopping /\ Fault
  /\ stopping' = stopping \cup {w}
  /\ UNCHANGED <<Stored, run>>

\* It has exited and is started again
Restart(w) ==
  /\ w \in stopping /\ RunAt(w, "idle")
  /\ stopping' = stopping \ {w}
  /\ UNCHANGED <<Stored, run, faults>>

Crash(w) ==
  /\ Fault
  /\ Ends(w) /\ stopping' = stopping \ {w}
  /\ UNCHANGED Stored

\* ReviewDirection.confirm: a record of the exact script in the database
Confirm(id) ==
  /\ rows[id].state = "awaiting_review"
  /\ confirmed' = confirmed \cup {<<id, books[rows[id].book]>>}
  /\ UNCHANGED <<rows, books, run, stopping, faults>>

Operate(w) ==
  \/ StartJob(w) \/ ResumeJob(w) \/ SaveJob(w) \/ SaveBook(w)
  \/ Extract(w) \/ SkipChapter(w) \/ OpenChapter(w) \/ ReportPassages(w) \/ DirectChapter(w)
  \/ FinishBook(w) \/ DirectorAborted(w) \/ CatchError(w)

Faulty(w) == SaveJobFails(w) \/ SaveBookFails(w) \/ StageFails(w) \/ Crash(w)

Next ==
  \/ \E w \in Workers :
       \/ \E id \in JobIds, c \in Digests : Load(w, id, c)
       \/ Operate(w) \/ Faulty(w) \/ Stop(w) \/ Restart(w)
  \/ \E id \in JobIds : Confirm(id)

Spec == Init /\ [][Next]_vars

\* Promises are continued, the director answers or its deadline passes, and the user resumes
\* what rests unfinished and starts a stopped process again.
Fairness ==
  \A w \in Workers :
    /\ WF_vars(Operate(w)) /\ WF_vars(Restart(w))
    /\ \A id \in JobIds, c \in Digests : SF_vars(Load(w, id, c))

FairSpec == Spec /\ Fairness

-----------------------------------------------------------------------------
\* completedChapters of buildJobStateView: an interrupted direction is counted in the book
ShownChapters(id) ==
  LET j == rows[id]
  IN IF Interrupted(j) /\ j.stage = "directing" /\ books[j.book] # Absent
     THEN Cardinality(Approved(books[j.book]))
     ELSE j.direction.chapters

-----------------------------------------------------------------------------
(* Properties                                                              *)

\* Every variable has its type, and a run stands behind chapters it has approved.
TypeOK ==
  /\ \A id \in JobIds : rows[id] \in Jobs \/ rows[id] = NoRow
  /\ books \in [Books -> [Chapters -> Scripts \cup {"absent", "draft"}]]
  /\ stopping \subseteq Workers /\ faults \in 0..MaxFaults
  /\ \A w \in Workers :
       /\ run[w].id \in JobIds \cup {NoJob} /\ run[w].job \in Jobs
       /\ run[w].at \in 1..(NumChapters + 1)
       /\ 1..(run[w].at - 1) \subseteq Approved(run[w].book)

\* Every saved row can be opened again: findJob reconstitutes it, so a row validateSnapshot
\* rejects is a job that can neither be resumed nor shown.
RowReadable == \A id \in JobIds : rows[id] # NoRow => SnapshotAccepted(rows[id])

\* The job view never counts a chapter whose script is not in the database, whatever failed
\* or crashed between saveBook and saveJob.  (A failed row may: a chapter is counted before it
\* is saved, and the failure saves that count.)
HonestDirection ==
  \A id \in JobIds :
    rows[id].stage = "directing" => ShownChapters(id) <= Cardinality(Approved(books[rows[id].book]))

\* A job put to review has its whole script in the database, and its warnings are exactly the
\* lines of that script without a speaker, however often its direction was resumed.  A warning
\* lost here is a line that is rendered in the fallback voice although nobody was asked.
ReviewHasScript ==
  \A id \in JobIds :
    LET j == rows[id]
        script == books[j.book]
    IN j.state = "awaiting_review" =>
         /\ Approved(script) = Chapters
         /\ j.warnings = {c \in Chapters : script[c] \in Unsure}

\* What a human has confirmed stays what a render would read: the confirmation names the exact
\* script, and a script that moved on would have to be read and confirmed again.
ConfirmedStands == \A p \in confirmed : books[rows[p[1]].book] = p[2]

\* An approved chapter is never directed again nor dropped: the director is not
\* deterministic, and the audio of a chapter is addressed by what it returned.
ApprovedStays ==
  [][\A b \in Books, c \in Chapters : books[b][c] \in Scripts => books'[b][c] = books[b][c]]_vars

\* The directed chapters shown for a job never decrease, over failures and resumes alike.
ProgressNeverBack ==
  [][\A id \in JobIds : ShownChapters(id) <= ShownChapters(id)']_vars

\* A run whose writes succeed ends with its row at rest, also when it was stopped or failed;
\* only a crash or a lost write may leave a running row without an owner.
EndsAtRest ==
  [][\A w \in Workers :
       /\ run[w].id # NoJob /\ run'[w].id = NoJob
       /\ faults' = faults
       => rows'[run[w].id].state # "running"]_vars

\* Every row can be opened and shows no chapter that is not in the database, and what a human
\* confirmed is what a render would read.
RowsTruthful == TypeOK /\ RowReadable /\ HonestDirection /\ ConfirmedStands

\* No failure, stop or resume takes back what was directed, or what was shown of it, and none
\* leaves a row running that nobody directs.
DirectionKept == ApprovedStays /\ ProgressNeverBack /\ EndsAtRest

\* Once the faults are over, every job that was begun gets to review: no failure, crash or
\* stop, wherever it fell, leaves a job that cannot be resumed.
EventuallyReviewed ==
  \A id \in JobIds : rows[id] # NoRow ~> rows[id].state = "awaiting_review"

-----------------------------------------------------------------------------
(* What makes these inductive, where every job has a book of its own       *)

BookStates == [Chapters -> Scripts \cup {"absent", "draft"}]

Done(book) == Cardinality(Approved(book))

\* Chapters are approved one after the other
InOrder(book) == Approved(book) = 1..Done(book)

Warnings(book, chapters) == {c \in chapters : book[c] \in Unsure}

\* A record of a job that directs, or is to direct, book b
StageA(j, b) ==
  /\ j \in Jobs /\ j.command # NoDigest /\ j.revision = NoRevision /\ j.done = 0 /\ j.total = 0
  /\ j.state # "completed" /\ (j.error <=> j.state = "failed")
  /\ j.state = "pending" => j.stage = "extracting" /\ j.book = NoBook /\ j.msg = "waiting"
  /\ j.state = "failed" => j.msg = "error"
  /\ j.state = "abandoned" => j.msg = "abandoned"
  /\ j.state = "awaiting_review" =>
       j.stage = "directing" /\ Directed(j.direction) /\ ~j.onChapter /\ j.msg = "review"
  /\ \/ /\ j.stage = "extracting" /\ j.book \in {NoBook, b}
        /\ j.direction = NoDirection /\ ~j.onChapter /\ j.warnings = {}
     \/ /\ j.stage = "directing" /\ j.book = b
        /\ j.direction.ofChapters = NumChapters
        /\ j.direction.ofPassages = PassagesEach * NumChapters
        /\ j.direction.chapters <= NumChapters
        /\ j.direction.passages <= PassagesEach * NumChapters

\* What row j of the job with book b says of what is stored of it
RowOK(j, b, stored) ==
  /\ stored \in BookStates /\ InOrder(stored)
  /\ j = NoRow => stored = Absent
  /\ j # NoRow =>
       /\ StageA(j, b)
       /\ j.stage = "extracting" => Approved(stored) = {}
       /\ j.stage = "directing" => stored # Absent
       /\ j.stage = "directing" /\ j.state = "running" => j.direction.chapters <= Done(stored)
       /\ j.state = "awaiting_review" =>
            Approved(stored) = Chapters /\ j.warnings = Warnings(stored, Chapters)

\* A run that has the book as it is stored, and has counted what is approved of it
Abreast(r, stored) ==
  /\ r.job.stage = "directing" /\ r.book = stored /\ r.job.direction.chapters = Done(stored)
  /\ r.job.warnings = Warnings(r.book, 1..(r.at - 1))

Underway == {"claimed", "extract", "extracted", "begun", "chapter", "skipped", "opened",
             "directing", "reported", "directed", "recorded", "final", "erring"}

Runs ==
  [pc: Underway \cup {"created", "start", "orphaned", "resume", "reviewed", "failed", "abandoned"},
   id: JobIds, job: Jobs, book: BookStates, at: 1..(NumChapters + 1)]

\* What run r of a job knows of its row and of what is stored of its book
RunOK(r, row, stored) ==
  /\ r \in Runs /\ StageA(r.job, BookOf[r.id])
  /\ 1..(r.at - 1) \subseteq Approved(r.book)
  /\ r.pc = "created" <=> row = NoRow
  /\ row.state # "awaiting_review"
  /\ r.job.stage = "extracting" => row.stage = "extracting"
  /\ r.job.stage = "directing" => stored # Absent
  /\ r.pc \in {"chapter", "skipped", "opened", "directing", "reported", "directed", "recorded", "final"}
       => row.stage = "directing"
  /\ r.pc \in {"created", "start"} => r.job.state = "pending"
  /\ r.pc = "orphaned" => r.job.state = "abandoned"
  /\ r.pc = "resume" => Interrupted(r.job)
  /\ r.pc \in Underway => r.job.state = "running"
  /\ r.pc \in {"created", "start", "orphaned", "resume", "claimed", "extract", "extracted", "begun"}
       => r.at = 1
  /\ r.pc \in {"extract", "extracted"} => r.job.stage = "extracting"
  /\ r.pc = "extracted" => r.book = Extracted /\ r.job.book # NoBook
  /\ r.pc = "claimed" /\ r.job.stage = "directing" => Abreast(r, stored)
  /\ r.pc \in {"begun", "chapter", "skipped", "opened", "directing", "reported", "recorded", "final"}
       => Abreast(r, stored)
  /\ r.pc \in {"opened", "directing", "reported"} => r.at \in Chapters \ Approved(r.book)
  /\ r.pc = "directed" =>
       /\ r.job.stage = "directing" /\ r.at > 1 /\ r.job.direction.chapters = r.at - 1
       /\ r.at - 1 \notin Approved(stored)
       /\ r.book = [stored EXCEPT ![r.at - 1] = r.book[r.at - 1]]
       /\ r.job.warnings = Warnings(r.book, 1..(r.at - 1))
  /\ r.pc = "final" => r.at = NumChapters + 1
  /\ r.pc = "reviewed" =>
       /\ r.job.state = "awaiting_review"
       /\ Approved(stored) = Chapters /\ r.job.warnings = Warnings(stored, Chapters)
  /\ r.pc \in {"failed", "abandoned"} => r.job.state = r.pc

DirectionInv ==
  /\ rows \in [JobIds -> Jobs \cup {NoRow}] /\ books \in [Books -> BookStates]
  /\ run \in [Workers -> Runs \cup {NoRun}]
  /\ stopping \subseteq Workers /\ faults \in 0..MaxFaults
  /\ \A id \in JobIds : RowOK(rows[id], BookOf[id], books[BookOf[id]])
  /\ \A w \in Workers :
       run[w] = NoRun \/ RunOK(run[w], rows[run[w].id], books[BookOf[run[w].id]])
  /\ \A v, w \in Workers : run[v].id = run[w].id /\ run[v] # NoRun => v = w
  /\ confirmed \subseteq JobIds \X BookStates
  /\ \A p \in confirmed : rows[p[1]].state = "awaiting_review" /\ books[BookOf[p[1]]] = p[2]
=============================================================================
