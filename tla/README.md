# A verification project for light-novel-audiobook

The program turns an EPUB into an audiobook on one machine: it extracts the book, lets a language
model (Gemma) attribute every passage to a speaker, has a human review the lines whose speaker stayed
unresolved, renders each segment with a speech model (Qwen), and assembles the files. A web process
and a command-line driver share a SQLite database and one GPU, which holds one model at a time.

What is hard in it is not any single computation. It is that decisions, renders, playback, failures
and restarts overlap, while the program promises that no audio a human has not approved is ever
served, that a job can always be picked up where it stopped, and that two models never share the GPU.

Paths below are relative to the repository root. Section 1 says what the system is, 2 how the project
was built up, 3 what models what, 4 and 5 what is model-checked under which bounds and fairness, 6 what
is proved, 7 where code and comments disagree, and 8 what is left out.

## 1. Inventory

### Components

| Component | State it keeps | Operations | Talks to |
|---|---|---|---|
| `AudiobookJob` (packages/domain) | state, stage, bound inputs, direction and segment progress, warnings, catalog revision | commands (`start`, `fail`, `awaitReview`, `beginRendering`, ...), `snapshot`, `reconstitute` | everybody, through saved snapshots |
| `DirectAudiobook` (packages/application) | locals of one run | recover or resume, extract, direct chapter by chapter, put to review | extractor, director, job repository |
| `RenderAudiobook` | locals of one run: approvals, claimed revision, plan | gate, plan, re-gate, claim, render, assemble, commit | catalog, repository, speech engine, assembler |
| `ReviewFallbackApprovals`, `ReviewDirection` | nothing between calls | approve, revoke, grant for the book, revoke the grant, reconcile, confirm | catalog, repository, catalog section |
| `CompletedOutputAuthority`, `ApprovalCatalogAccess` | the FIFO section per book | `authorize`, `runExclusive` | catalog, repository |
| SQLite repositories (packages/persistence) | job rows, completed outputs, artifacts, approvals, exclusions, grants, revisions, output reservations | one transaction per method, retried while the database is busy | - |
| `AudiobookWebApi` (apps/web) | nothing between requests | start, resume, render, review, open audio | runner, use cases, authority |
| `GenerationRunner`, `ShutdownController` | active jobs, a promise chain, `stopping` | start a direction or a render, stop the process | use cases, transports |
| Web client (apps/web) | the last answer about a job, a fetch under way | poll, start, resume, render | web API |
| Pipeline driver (packages/pipeline-driver) | locals of one command | direct, confirm and render, resume, for a slice of a book | use cases, cast ledger |
| Cast approvals (packages/application) | one signed decision per EPUB | propose, sign, derive a cast | ledger, driver |
| GPU lease (packages/gpu-lease), kernel-lock | a kernel lock held by a child process, a quarantine marker file | acquire, quarantine, release | director and speech engine |
| `OwnedLlamaLifecycle`, `GemmaDirectorModel` (packages/gemma-director) | the llama-server child, memoised start and release | start, release, direct a chapter | GPU lease |
| `OpenAICloudDirectorModel` (packages/openai-cloud-director) | nothing between calls | direct a chapter in windows through a provider, with attempts and a deadline | provider, progress sink |
| `QwenTtsSpeechEngine` (packages/qwen-tts) | one worker process per batch | begin, render, end, replace a worker | GPU lease |
| EPUB adapter and book lock (packages/epub-ingestion) | a lock per book, extracted files | extract once, reuse, lock | file system |
| `FfmpegAudioAssembler` (packages/audio-assembly) | reserved output paths | concatenate, publish without overwriting | file system |
| Segment splitting (packages/contracts, application) | nothing | split long directed segments, check that they cover the source | directors |
| Gemma benchmark (packages/gemma-benchmark) | a lock per experiment, files never written twice | run, resume, report | llama-server, file system |
| Scoring harness (packages/scoring-harness) | nothing | govern a corpus, score three runs | - |
| Acceptance harness (scripts/proof-m1.mjs) | locals of one run | drive a job, stop it forcibly, resume it, write evidence | web process over HTTP |
| Spikes, measurement scripts | - | - | outside the program |

Interaction is of five kinds: saved snapshots (every actor works on a copy of the job it read),
promises (the catalog section, the runner's chain), child processes (lock holders, model runtimes),
files (the marker, the artifacts, the experiment), and answers over HTTP that are old when shown.

### What is hard, and what makes each component correct

The list with source lines is `hazards` in `PROJECT.json`. In short:

* **AudiobookJob** - long command sequences. Every snapshot a job is saved with must be one that
  `reconstitute` accepts, or the job is lost; what was bound, directed and reviewed must stay so.
* **Render, review, playback** - stale copies and gaps between a check and its use. Served audio must
  be exactly what the live approvals authorize; a withdrawal outranks a grant; progress claims only
  durable segments; nobody waits for ever at the section; no row is left `running` without an owner.
* **A script that changes** - a decision is about one reading of a line and must not be carried over to
  another, whichever processes decide and direct meanwhile; a selection is decided whole.
* **Casts and commands** - a command works for hours from a cast it read once; whoever speaks must
  speak with the voice that was signed for that very window of the book.
* **GPU** - processes that start, hang, refuse to die or lose their parent. One model at a time; a
  cleanup that cannot be proven blocks everybody until a human has looked.
* **Direct** - crashes between the save of a book and the save of its job; a resume must not repeat
  an approved chapter and must not get stuck.
* **Runner, shutdown, page** - queued work dropped, running work brought to rest, resources released; a
  page that stops asking must not show work that is over as under way.
* **EPUB, reservations** - never two writers of one path, never a half-written result, whatever dies
  between two renames or two statements; no text of a publication lost without a trace.
* **Directors** - a model that answers nonsense, too late or never: whole chapters or an error, a
  bounded number of requests, and no word of the book changed on the way.
* **Speech, assembly** - takes that are reused must speak what is asked for now; what is exported is
  heard in order, with its pauses, and its markers where its chapters begin.
* **Benchmark, scorer, acceptance harness** - they judge the rest: a verdict must rest on evidence that
  is on disk, a pass must be earned, and nobody's server may be left running.

## 2. Plan

The order is by importance to what the program promises.

1. `AudiobookJob`, `JobLifecycle` - the aggregate everything saves (done, proved).
2. `RenderReview` over it, with the abstract `ApprovedPlayback` (done; safety and refinement proved).
3. `GpuHandover` with the abstract `ExclusiveGpu`: lease, owned llama-server, Qwen worker, several
   processes; before those below, because a violation destroys a run where theirs only delay one
   (done; safety and refinement proved).
4. `GenerationRunner` with `ShutdownController`, and the abstract `SerialExecutor` (done; safety and
   refinement proved).
5. `Direction`: `DirectAudiobook` with crash, resume, approved chapters and the two saves (done; safety
   proved where every job has a book of its own).
6. `EpubIngestion`: the book lock and the commit of an extraction; `OutputReservation`: migrations, the
   numbered versions and publication without overwriting; `BookFiles` over both (done; safety proved).
7. The adapters: `LocalDirector`, `CloudDirector` and the abstract `WholeChapter`, `EchoedText`,
   `SegmentSplitter`, `SpeechBatch`, `AudioAssembly` (done; safety of the directors and of the speech
   engine and refinement of the directors proved, `AdapterCalls` being the module that sees all three, the
   rest checked).
8. `FallbackConsent`: the reconciliation of decisions with a script that changes (done; its safety and
   its action properties about withdrawals and whole decisions proved).
9. `WebPage`, `ProofHarness` over the runner (done; safety of the second proved); `CastApproval`,
   `BookWindows`, `PipelineCommands` (done; their safety proved, together with that of 8, for
   `AgreedVoices`); `ExtractedText`, `EpubPackage`; `CorpusScorer` (done, checked).
10. `BenchmarkExperiment`, and `Host` over it and `GpuHandover` (done; safety proved).

What is left is listed under "What stays with the model checker" in section 6.

## 3. Modules

| Module | Models | Source |
|---|---|---|
| `AudiobookJob` | the aggregate: one guard `CanX` and one result `X` per command, snapshot validation, transition tables | `packages/domain/src/audiobook-job.ts` |
| `JobLifecycle` | one job under its commands | same, and the order `render-audiobook.ts` calls them in |
| `RenderReview` | renders, review decisions and playback of one audiobook | `render-audiobook.ts`, `review-fallback-approvals.ts`, `completed-output.ts`, `direct-audiobook.ts` (recovery and failure), `repo.ts`, `fallback-approvals.ts`, `audiobook-web-api.ts`, `generation-runner.ts` |
| `ApprovedPlayback` | abstract: what a listener may hear | refined by `RenderReview` |
| `FallbackConsent` | decisions about the lines of a book whose script changes, from several processes | `review-fallback-approvals.ts`, `fallback-approval.ts`, `fallback-approvals.ts`, `fallback-review-cli.ts`, `fallback-review-panel.tsx` |
| `CastApproval` | what may be signed as a cast, and what a job is bound to of it | `cast-approval.ts`, `review-cast-approvals.ts`, `voice-cast` |
| `BookWindows` | slices of a book and their names | `slice.ts`, `job-identity.ts` |
| `PipelineCommands` | the driver's commands and a web process on one workspace | `driver.ts`, `run.ts`, `slice.ts`, `review-direction.ts`, `render-audiobook.ts` |
| `AgreedVoices` | decisions on lines, and casts with the commands that speak them, side by side: what humans agree to about voices | `FallbackConsent`, `PipelineCommands` |
| `GpuHandover` | several processes sharing the GPU | `gpu-lease`, `kernel-lock`, `owned-llama-lifecycle.ts`, `gemma-director-model.ts`, `qwen-tts`, `shutdown-controller.ts`, `transports.ts` |
| `ExclusiveGpu` | abstract: what the lease promises | refined by `GpuHandover` |
| `Direction` | stage A of several jobs: extraction, chapters, review, confirmation, with faults between all saves | `direct-audiobook.ts`, `review-direction.ts`, `repo.ts`, `audiobook-web-api.ts`, `slice.ts` |
| `GenerationRunner` | one web process: its chain of work, its requests, its shutdown | `generation-runner.ts`, `shutdown-controller.ts`, `audiobook-web-api.ts` |
| `SerialExecutor` | abstract: one operation at a time, in order | refined by `GenerationRunner` |
| `WebPage` | a browser tab that watches a job of that process | `routes`, `job-progress-panel.tsx`, `epub-upload-panel.tsx` |
| `ProofHarness` | the acceptance harness driving that process | `scripts/proof-m1.mjs`, `scripts/lib` |
| `EpubIngestion` | uploads of one book by several processes | `epub-ingestion` (`adapter.ts`, `book-lock.ts`) |
| `ExtractedText`, `EpubPackage` | how documents become passages, and an archive, its titles, pictures and package a book | `epub-ingestion` (`extractor.ts`, `safe-zip.ts`, `cover-validation.ts`, `adapter.ts`) |
| `OutputReservation` | migration, reserved versions, placed files, completed outputs | `persistence` (`schema.ts`, `transaction.ts`, `repo.ts`), `ffmpeg-audio-assembler.ts`, `render-audiobook.ts` |
| `BookFiles` | both side by side: how files enter the workspace and leave it | the two above |
| `DirectionWindows` | what the two directors share: windows and budgets | `gemma-director-model.ts`, `openai-cloud-director-model.ts` |
| `LocalDirector`, `CloudDirector` | one call of `directChapter` | the same two |
| `AdapterCalls` | stage A, one call of each director it may ask, and speech batches | `Direction`, the same two and `SpeechBatch` |
| `WholeChapter` | abstract: a whole chapter or an error | refined by both directors |
| `SegmentSplitter` | splitting of one directed segment | `split-directed-segments.ts` |
| `EchoedText` | repair, splitting and validation of a director's reply | both directors, `split-directed-segments.ts` |
| `SpeechBatch` | batches of takes, their reuse, their worker, and the toolchain that speaks | `qwen-tts` (`engine.ts`, `worker-session.ts`, `manifest.ts`, `config.ts`, `runtime-identity.ts`, `qwen_batch_worker.py`) |
| `AudioAssembly` | from takes to parts, chapters, master and export | `audio-assembly` |
| `BenchmarkExperiment` | benchmark commands over one experiment | `gemma-benchmark` (`orchestrator.ts`, `artifacts.ts`, `lock.ts`) |
| `Host` | the GPU and an experiment side by side: what processes on one host share | `GpuHandover`, `BenchmarkExperiment` |
| `CorpusScorer` | the governance of a corpus and the verdict on three runs | `scoring-harness` |
| `XProofs` | theorems about module `X`; `GenerationRunnerProofs` has those about `ProofHarness` too, `DirectionProofs` those about `LocalDirector`, `CloudDirector` and `SpeechBatch`, `BookFilesProofs` those about `EpubIngestion` and `OutputReservation`, `HostProofs` those about `GpuHandover` and `BenchmarkExperiment`, `AgreedVoicesProofs` those about `FallbackConsent`, `CastApproval`, `BookWindows` and `PipelineCommands` | - |
| `MCX` | values of the constants, symmetry, and the components that share a run | - |

`PROJECT.json` maps every definition to the lines it stands for.

**AudiobookJob.** A job is a record: what a snapshot holds, with identifiers, digests and names taken
from small sets. A command that throws is simply not enabled, because the code validates before it
assigns. Two abstractions are worth knowing. Messages are kept only as far as the code compares them
(`AWAITING_REVIEW_MESSAGE` takes part in validation). Chapter identity inside direction progress is
not kept, only the counts, because nothing else in the aggregate reads it.

**JobLifecycle.** `Next` issues every command on its own except two: `ClaimReviewedScript` puts
`resumeApprovedRender` and `beginRendering` in one step, since `RenderAudiobook` calls them in one
synchronous block. That block matters: on their own the two would let a job render an incompletely
directed script or grow the warning set it was reviewed with.
The ghost variable `reviewed` remembers the warning set at the last `awaitReview`.

**RenderReview.** A step is one synchronous block of one promise: everything up to and including the
next database access. Between two steps every other actor may move, so what an actor has read is a
copy (`run.job`, `reviewer[r].job`, `reader[d].job`) and what it saves may be stale, as in the code.
`SaveJob` replaces the row and drops its completed output, because the repository replaces the row
and the foreign key cascades. A write is a step of its own, because a busy database is retried for
seconds. `row`, `output`, `catalog` and `audio` survive `Crash`; everything else is lost. A decision
is identified by the catalog revision that wrote it, which is what the content address in the code
amounts to: a later approval of the same line is a different one, and audio made for the earlier one
does not count. `history` is a ghost: the approvals at every revision.

**FallbackConsent** has what RenderReview holds still: a script that another job directs anew. A
reading stands for all a decision is about (speaker, reason, voice and text). A clerk is a request or a
command; `todo` is what it has still to write, one transaction each, in the order of the book; `renew`
is a record that is revoked and, in the next transaction, written again. Each process has a section of
its own, so two processes do not exclude each other, as in the code. `consents` is a ghost.

**PipelineCommands** looks at the driver from far above: each stage of a command is a step, and a
window of the book is looked at in one line of it. What it keeps is what was read when: the cast once,
at the beginning, and the ledger, the rows and the books as they are when a later stage reads them.

**GpuHandover.** A step is a synchronous block or an event of a child process. `lease[u]` is how far
an `acquire` has come: `spawning` (the holder runs but has not answered), `locked`, `unmarked` (no
marker was found under the lock), `held`, and the two ends. The director record mirrors the
lifecycle's private fields: `start` the memoised start promise, `server` whether the child lives,
`cleanup` the memoised release, and `release` how far the model's own `release` is. `Platform` selects
between the `flock` holder with GPU inspection and the macOS helper without it.

**Direction.** A worker is a process with at most one operation. `rows` and `books` are the two tables
that a direction saves to one after the other; a chapter is `absent`, `draft` (extracted) or one of a
few scripts, since a director need not answer the same twice. A crash loses the worker's copies and
nothing else. `confirmed` is a ghost: which script a human was shown when they confirmed it.

**GenerationRunner** sees an operation from outside: it reads its row, refuses or claims it, works, and
saves the row at rest, while requests, the stop and other entries of the chain interleave. `lost` is a
ghost for rows that a fault left running; `isActive` may be false for those only. **WebPage** and
**ProofHarness** extend it. The page's query library is modelled from how it is used: one fetch at a
time, joined by a mount, a poll or a focus, replaced by an invalidation. It outlives the page that sent it,
and a page opened again joins it; `starter` is a ghost that says whose request the work under way is, and
whether a page has asked about the job since that request was answered. The harness adds the inside of
a render, the segments' files and how often each was written, and its own control flow.

**EpubIngestion.** `target` is the book's directory, named for the token of the lock it was committed
under; `holder[i]` is the child process with the kernel lock, which may die under a living ingest or
outlive a dead one. An `assertHeld` is one step with the call that follows it.

**ExtractedText, EpubPackage, SegmentSplitter, CorpusScorer** are pure: functions of a document, a
publication, a text or a set of runs, checked against statements about their results over all inputs of
a bounded family, which the initial states enumerate. A document is a tree of elements by kind; a
publication its manifest, spine and tables of contents; an archive the entries its directory claims, with
what each really holds; a picture the parts of its container, which a reader per format goes through.

**OutputReservation.** A transaction takes the write lock in one step and does its work in another, so
everything it uses of the disk, or of an earlier read, may be old. `disk` holds the files with the
export they belong to; `bodies` is a ghost that counts how often a migration took effect.

**LocalDirector, CloudDirector.** Passages are sizes, windows are chosen by the same sums as in the code,
and the model may answer, answer invalid text, be cut off, fail or be silent at every request.
`EchoedText` has the text: a passage is a sequence of letters of a few kinds (a word's letter, a blank,
`~` for what repairs may touch, `q` for a quotation mark), and a reply says them in pieces.

**SpeechBatch** keeps files, manifest, worker and batch apart, because each may be lost alone. `installed`
is the toolchain on disk and `engine` the one the process took note of when it started: an upgrade in
between must end the next worker, not speak under the old name. That the two are compared again holds
up to the loading of the model (`Install` leaves a worker that loads alone), which section 8 repeats.
**AudioAssembly** counts samples: what it hears is a sequence of takes and pauses, and a marker is right
when it lies where its chapter's first take begins.

**BenchmarkExperiment.** A file is written under a temporary name, linked to its own, and the temporary
name removed, in three steps; a lock holder may be killed under its command; `told` and `asked` are
ghosts for verdicts given and requests made.

### Modules that share a run

`MCJobs`, `MCRenderReview`, `MCProcesses`, `MCHost`, `MCAdapters` and `BookFiles` check several
components in one run. A variable `part`, chosen at the start and never changed, says whose behaviour
it is; the other components' variables stay as they are. Nothing is composed there beyond that, and a
property is the conjunction of the components' own. `BookFiles`, `Host`, `AdapterCalls` and `AgreedVoices`
are modules of their own so that theorems can state the properties of what they compose; `MCHost` adds the
scorer to `Host`, `MCAdapters` assembly and texts to `AdapterCalls`, and `MCRenderReview` the job of
`RenderReview` and every small cast to `AgreedVoices`. `MCJobs` and `MCProcesses` extend
the one of their modules that has assumptions (`JobLifecycle`, `ProofHarness` with `GenerationRunner`)
and instantiate the others. A leads-to property of several parts is written as
one formula (`Busy ~> ~Busy`, `Unsettled ~> ~Unsettled`), with each side a disjunction over the parts: since `part` is fixed, it
says of each part what that part's own formula says, and TLC need not build a product of tableaux. A
constant `Parts` lets a run leave parts out; a run that expects a violation has one.

## 4. Runs

| Run | Distinct states | Question |
|---|---|---|
| `jobs` | 425,037 | Is every job the application can bring about readable, completely directed before it is rendered, and true to its review? Does every render, review and read of it end, leaving a row at rest? Does the page that shows it stop showing work that is over? |
| `render_review` | 487,742 | Is the output attested and progress honest under failing renders and crashes, does a withdrawal stand, and is no decision carried over to another reading, cast or slice? Does `RenderReview` implement `ApprovedPlayback`? |
| `processes` | 314,317 | Do two processes of a Mac settle every release? Is the work of a web process serial, do rows and `isActive` say the truth, does a stop end? Is a green proof of the acceptance harness earned? |
| `host` | 570,674 | On Linux: is the GPU exclusive, are models resident only under their owner's lock, is the lease freed? Does a benchmark's verdict stand on what is on disk, and is a pass of the scorer earned? |
| `book_files` | 116,245 | Do uploads and exports of several processes leave whole files with one owner, and end? |
| `adapters` | 417,344 | Does a direction that fails, stops or crashes anywhere keep its chapters and get to review? Does each adapter keep its promise: whole chapters, text unchanged, takes that stand, markers that fit? |
| `decision_under_render` | (violation) | Is a decision refused whenever a render owns the job? |
| `withdrawal_undone` | (violation) | Does a withdrawal outrank a grant when two processes decide? |
| `late_acquisition` | (violation) | On macOS, is the lease freed when an acquisition outlives its chapter? |
| `direction_same_book` | (violation) | Does a job under review keep its script when a slice of its upload is directed? |
| `benchmark_resume` | (violation) | Does the benchmark accept what it has recorded itself? |
| `killed_render` | (violation) | Does the harness recover the render it has killed? |

Properties are described where they are defined. The ones with the most behind them:

* `OutputIsAttested`: a completed row and its output appear and vanish together, and the files hold
  exactly what the catalog revision in the row authorizes, whoever saves a stale copy over whom.
* `PlaybackApproved`: `RenderReview` implements `ApprovedPlayback`, so no decision takes effect while
  a file is being opened under an authorization, and no stream starts with an undecided line.
* `HonestProgress`: a row can be opened, and what it counts as done was durable for one set of approvals.
* `WithdrawalsStand`: no step for the book as a whole approves a line a human withdrew, in a render's
  book and, where one process decides, in one whose script changes.
* `NothingCarriedOver`: every record in the catalog is about a reading somebody decided on; what is
  spoken was signed, with that cast, for that window; a cast that is signed can be used.
* `DecidedWhole`: a selection is decided in full or not at all, unless the database gives up on the way.
* `GpuExclusive`: `GpuHandover` implements `ExclusiveGpu` with processes that die at any moment.
* `NoSpawnAfterRelease`: the two-sided race between a start writing its key file and a release.
* `MarkerBlocks`: nobody gets a lease under a quarantine marker, however far its acquisition had come.
* `RowsTruthful`, `ReviewHasScript`, `DirectionKept`: a job's counts never claim a chapter the book does
  not have, its warnings are those of its whole script, an approved chapter is directed once, and what a
  human confirmed is what a render would read.
* `RestIsTruthful`, `Serial`: nothing is saved after the database closed, a dropped or aborted job can be
  taken up again, and the promise chain implements `SerialExecutor`.
* `EverybodyRests`, `EverybodyAnswered`: a render that ends leaves its row at rest whatever throws; a page
  that has stopped asking, and has asked since its last request was answered, shows nobody less than what
  they have set going; renders, reviews and reads end. What another tab has set going a page that rests need
  not show, nor what its own tab started when it only joined an older fetch (section 7).
* `EverythingSettles`: every release and every stop ends, and accepted work runs, though a start hangs or
  a model is stuck; and the harness ends whatever becomes of its job.
* `ProofEarned`: a green proof compared artifacts of a render that was really stopped half-way, which were
  not written again; and no server is left behind, but for one late interrupt that section 7 describes.
* `SoleOwner`, `OutputsSound`, `FilesStand`: no two exports share a file, migrations take effect once, a
  completed output stays, and files leave the disk by the hand that placed them.
* `UploadsKept`, `EverythingEnds`: what `ingest` returned is on disk while no lock was lost, and an
  interrupted commit is committed or cleared by later uploads.
* `EvidenceKept`, `ArtifactsStand`: a verdict is about runs that are on disk as they were asked for, though
  a lock holder is killed and two commands write at once; no artifact is changed.
* `VerdictEarned`: no answer a run left out counts for it, no answer can be spared, and a governed corpus
  leaves no character of its source to nobody.
* `ChaptersWhole`: both directors implement `WholeChapter` whatever the model says.
* `CallsAccounted`: a director's requests are bounded by its budgets and named without a gap, and its store
  or sink hears of one end, the one the call had. `NoWorkTwice`: shrinks cut, and a reusable take is not spoken again.
* `BookStands`: an archive, its titles and its pictures are what they say or are refused; no text of a
  publication is lost without a trace, splitting changes no text but for the
  order of the whitespace in a run longer than a piece, an accepted reply is the passage, a faithful one is accepted; an exported book is heard as directed.
* `AudioStands`: one speech worker lives at a time; a returned take speaks what was asked for and
  was made by what its name says, whatever was upgraded meanwhile.

A property that is a conjunction names its parts where it is defined, each with its own comment.

Each property of a passing run has a mutant: a plausible bug in one mapped definition under which TLC
finds the property violated. The mutated forms stand beside the definitions they change, marked so.

### Bounds, and why they are enough

* `jobs`. The aggregate: numbers 0..2, one warned line in each of three chapters, two books, two digests.
  Two is the least number with which progress can be partial, complete or exceeded; two books and digests
  let a bound input be confused with another. The theorems remove these bounds. The renders: one segment,
  one reviewer and one listener, for liveness is about one waiting for another and the section is where
  they wait. The page: two tabs and one fault, so that one tab can act while the other's answer is old;
  the watching tab has one request under way at a time, and a stop begins before the fault and while no
  request of it is under way. Its page may be
  left and opened again at any time, with whatever is under way.
* `render_review`. Two segments, both with an unresolved speaker, two reviewers, one listener, two review
  requests in all (`MaxReviews`). Two segments make a partial rendering and a partial grant; two
  requests put one decision before and one into a render, or make a grant and a withdrawal meet in the
  section. Writes that are given up are in `jobs`, with one reviewer; with two they were explored outside
  the run (797,542 states) and are covered by the theorems. The two segments are the two lines of
  `FallbackConsent`, and the two reviewers its two readings; two calls (`MaxActs`) of two clerks meet, and
  one redirection makes a decision stale; a third call, which decides after two have met, was explored
  outside the run (353,014 states), and the theorems are about any number. The commands: two launches from
  an empty workspace or after one direction, over two chapters, with one approval of another cast; three
  launches were explored outside the run. Segments and readings are symmetric: no definition names one, and no liveness is checked.
* `processes`. Two processes, one director and two batches: the hand-over from Gemma to Qwen beside another
  that wants the GPU. Two jobs and two clients, so that one job runs, one waits and a request for either
  arrives during both; one fault (`MaxFaults`), since a fault's consequence ends with the next recovery.
  The harness: three segments, so that a stop can fall before, between and after them; one fault.
* `host`. Two processes, three users: one process directs and then renders, the other directs and may
  inherit what the first leaves behind; `Faults` lets children survive `SIGKILL`, files fail and ports
  stay busy, and `nvidia-smi` not be asked. Two commands, two plans, two runs, one fault (`BenchmarkFaults`; two were explored outside
  the run). Some 5000 corpora and sets of runs: every division of three characters into up to three
  spans, and every departure of one run from the right answers.
* A director and a batch are used once each; a program that generates twice is two of each. The bounded
  waits of the code are steps that may succeed or expire at any time.
* `book_files`. Two processes on either side; two books with one title, which collide in every name;
  two versions, two migrations; one fault for exports and two for uploads, so that a holder may be
  killed and the recovery of it fail.
* `adapters`. The direction: three chapters, so that one can be approved, one lost and one not begun; three
  scripts, of which one needs the fallback voice, so that a second direction can differ with and without
  a new warning; four faults, enough for a crash in a recovery from a crash. `direction_same_book` needs
  two jobs and no fault. Passages that fill a window, share one, or exceed every budget (`Sizes`), up to
  three of them; two shrinks and two attempts, the code having three and two (`CallsAreAccounted` is about
  any number). Takes: two segments, two texts, two attempts and one fault; or one segment, six
  toolchains and two faults, so that an upgrade and a damage or a crash meet. Assembly: chapters of up to three takes, two chapters,
  concatenations of two inputs at a time, so that there are passes of passes; pauses below, within and
  above the bounds. Texts: up to six letters with a budget of three and one letter of overshoot for the
  splitter, and with two letters of overshoot besides, where runs of three to five of two kinds of whitespace
  follow a sentence, a shorter one or none; up to five letters, or two passages, for the replies, cut at will
  (`MaxCuts` is the number of gaps), and two passages of eleven letters, cut once, whose run of whitespace is
  as long as a piece, or one longer. Documents: all of three nodes, and
  larger ones of fewer kinds; publications of two documents with all their tables and covers. Archives:
  up to three entries under three names, of which two differ in case, with every kind of deceit in one of
  them; two titles of every sort, or three well-formed ones; containers of up to six parts.

Deadlock is not checked: a job may be finished and a process idle, which is a legitimate end.

## 5. Fairness

* `RenderReview`: weak fairness of the enqueueing, of the run, of each reviewer and of each reader
  until it streams. These are promise continuations on one event loop: once a database call or a
  render settles, the continuation runs. Renders settle because the speech engine ends or fails its
  worker. Requests, crashes and how long a listener streams are left open. `WritesFail` is on where this
  is used (`jobs`), so the property covers transactions that are given up.
* `GpuHandover`: weak fairness of an acquisition, of a chapter's end (it has a deadline), of release
  and cleanup steps (every wait in them is bounded by a timer), and of a batch's end. That a Python
  worker goes once it has been told to is an assumption about `SIGKILL`: `abort` awaits the exit
  without a bound. No fairness is given to starting a server (`StartServer`, `Spawn`,
  `ServerHealthy`): a key-file write may hang, which is what the bound in `awaitStartupSettled` is
  for. The mutant without that bound violates `EverythingSettles`.
* `Direction`: weak fairness of an operation's own steps and of a restart of its process, and strong
  fairness of taking up work: a user resumes a job that rests, again and again. Getting to review is
  conditional on faults being over, which `MaxFaults` makes them.
* `GenerationRunner`: weak fairness of what the chain does next and of the drain, both continuations
  whose operations end or answer their signal. Requests, stops and the second signal are left open.
* `WebPage`: of the two reads a poll is made of, of showing their answer and of the poll while the page
  asks for one; no two of these are enabled at once, so they share one condition. Users and the runner owe
  nothing.
* `ProofHarness`: of its main line, whose waits all have deadlines, and of the server's answers.
* `EpubIngestion`, `OutputReservation`: weak fairness of each call. A busy database and a wedged holder
  have deadlines, whose expiry is a step. Uploads are offered again, for `NoLimbo` only.
* Directors: weak fairness of their own steps and of the deadline; the model and the provider need not
  answer. `SpeechBatch`: of the engine's steps and of the death of a killed worker; the worker owes
  nothing else. `AudioAssembly`: an FFmpeg run ends, well or badly.
* `FallbackConsent`, `PipelineCommands`, `BenchmarkExperiment`: none; only safety is checked.

## 6. Proofs

All proofs are about the modules as they are checked, for every value of the constants. A proof module
states what it needs of the constants as an `ASSUME` of the model or as a named hypothesis
(`PipelineAssumption`, `DirectionAssumption`, `RunnerAssumption`, `HarnessAssumption`, `ConsentAssumption`); the values of the runs satisfy each.

### JobLifecycle (over AudiobookJobProofs)

For every set of books, digests, warned lines and numbers, from the assumptions that the null values
are no members of these sets and that the numbers are naturals. `AudiobookJobProofs` has one lemma per
command: that it maps jobs to jobs. The other proofs about rows cite them.

* `TypeCorrect`: `job \in Jobs` is inductive; the theorem has one step per action.
* `LifecycleSafe`: `SnapshotReadable`, `RenderedScriptIsDirected` and `ReviewedWarningsStand`. None of
  the three is inductive. `ReviewedWarningsStand` survives `addFallbackWarning` only because a job
  that accepts a warning has no reviewed set, and `RenderedScriptIsDirected` survives the claim only
  because a job at review has been directed. `ReviewSettled` says both, and `LifecycleInv` is the
  conjunction that is preserved. `RenderedDirected` and `ReviewedStand` state two of the three alone.
* `InputsBound` and `TablesFollowed`: the two action properties, from the type invariant.

### RenderReview

For any number of segments, fallback lines, reviewers and listeners, any number of decisions, with
failing writes and crashes on or off. `IInv` is the inductive invariant, a conjunction of

* `CatalogInv`, `AudioInv`: the history of approvals grows with the catalog's revision and ends in what
  the catalog says; every recording was made for a revision that has been.
* `RowInv`: a row can be reopened and counts no more than was durable for the approvals of *some* revision
  (`Honest`); a completed one has its output, made at the revision it records, with every line decided.
* `RunInv`: with `GateInv`, what a run has read through a gate is what one revision decided, every line
  of it, at a revision no older than a completed row's; with `ClaimInv`, a run that owns the job counts
  only what is durable for the approvals it renders, and from assembly on nothing of it is missing. The
  commit writes row and output from the approvals and the revision of one gate: even when a decision
  has come in since, both say what *that* revision said, and playback asks the live catalog.
* `ReviewInv`, `QueueInv`: who decides holds the catalog section, alone; who waits for it is queued.
* `ReadInv`: a reader is `Abreast` of the output: what it has authorized is no newer than what is
  completed, and once it has looked at the live catalog it holds the section, so the two are the same.

The proof has a lemma for each actor's group of actions. The obvious invariant (a row counts what is
durable for the *present* approvals) is false, because a decision may be written under a render
(section 7): hence the history. From `IInv` follow `TypeCorrect`, `CompletedIsAttested`, `ServedStands`
and `ProgressIsHonest`; the action property `WithdrawalOutranks`; `NobodyOrphaned` for `Crashes = FALSE`,
without which it is false; and `PlaybackRefined`, that every step is one of `ApprovedPlayback` or none.

### GpuHandover (in HostProofs)

For any number of processes, directors and batches in any distribution over the processes, on both
platforms, with `Faults` and `Crashes` on or off. The assumptions are that every user has a process,
that directors, batches and `Nobody` are different things, and the values of the three switches.

`HandoverInv` is the inductive invariant, a conjunction of

* `LockInv`: who has the lease has the kernel lock, and so has who is on the way to it and was not
  told to let go. On Linux an aborted acquisition may have lost its holder already, which is why the
  condition is there and why `Inspect` must look at the signal again before it hands the lease out;
  on macOS the helper is not killed and the condition is not needed.
* `DirectorInv`: a server lives, or may still be spawned, only under a lease; a cleanup beyond its first
  reaping has no server; the lease is given up after a completed cleanup only. The second is not obvious:
  it rests on the gate that `release` closes in the same block in which it begins, so that a start whose
  key file is being written finds it closed.
* `BatchInv`: a batch has its lease from its first worker to the exit of the last.
* `MarkerInv`: an acquisition that found no marker, before there was one, has been aborted once there
  is one. The writer of a marker still has the lock, so no other acquisition is beyond it.

From the invariant follow

* `TypeCorrect` and `ResidentSafe`, with the corollary `OneResident`: two living users never have
  models on the GPU together.
* `NoLateSpawn` and `MarkerRespected`, through lemmas that name the only action that spawns a server
  and the only one that hands out a lease.
* `LeaseFreed`: `ReleaseFreesLease` under `Platform = "linux"`. It is inductive given the types, since
  a release that has begun counts as an abort and `Inspect` refuses it. On macOS it is false (section 7).
* `GpuRefined`: `GpuExclusive`, the refinement of `ExclusiveGpu`, under `Exclusive`: on Linux, or where no
  process dies. It needs `AloneInv` besides: whoever has the lease finds no other model loaded, be it
  because the inspection looked, be it because everybody is alive and unloaded before letting go. On a
  Mac where a process may die it is false: the llama-server of the dead one outlives it, and nobody looks.

### BenchmarkExperiment (in HostProofs)

For any number of commands, plans and runs and any completions, with crashes, killed lock holders, dying
servers and failed writes; the assumptions are that no command is called as the free lock is and that the
number of runs is a natural. `ExperimentInv` says

* `Filed`: what is on disk fits together whoever wrote it: nothing is there before the plan, a run was
  made under that plan, and a report is the one that the runs beside it give;
* `Sound`: what a command believes. What it has got is on disk, but for what it is about to write
  (`Evident`); what it will link is a plan of its own, a run it has just got, or the report on all of them
  (`Drafted`); and it works under the plan that is there (`Planned`), except while it writes that;
* `Proper`: a verdict, given or about to be, is the one of all the runs on disk under the plan on disk;
* `Alone`: until a lock holder is killed, who works holds the lock and is `Aware` of every run there is, by
  having seen it or made it, so that none is asked for twice.

The first three hold after a holder was killed as well, with two commands at work that do not know of each
other: `LinkGrows` has the reason, that a name once linked is never linked again, so what a command has
read of the directory stays true of it, and the loser of a race for a name throws. From the invariant
follows `EvidenceIsKept` (`EvidenceKept`) and, from the steps alone, `ArtifactsAlwaysStand`.

### GenerationRunner

For any number of jobs, clients and faults; jobs are finite in number and none is `NoJob`. `RunnerInv` adds
to `RestIsTruthful` that requests and the operation are about jobs, that a job is in the chain once and
not while it runs (`OncePerJob`), and that only an operation that was let in owns a running row
(`RowsOwned`); `Parts` is its form with the bound on the chain's length derived rather than carried.
From it follow `TypeCorrect`, `RestTruthful` and `RunnerSerial`: the chain implements `SerialExecutor`,
with an entry dropped by a stop mapped to a queue that is emptied when the stop begins.

### ProofHarness (in GenerationRunnerProofs)

For any number of segments, clients and faults, from `HarnessAssumption`: the harness is one of the
clients, its job one of the jobs, and `NoJob` is none. The harness sees a render from outside, by polling,
stops it at a segment boundary and compares files; what a verdict rests on is spread over the server's
state, the disk and what the harness remembers. `HarnessInv` says, besides the types, that

* `OneJob`, `Verdicts`: nobody but the harness asks, for its job only, which waits or runs once; a process
  that is down has nothing of it; a verdict is the end, but for a red one that still cleans up;
* `Placed`: before the stop nothing is recorded as stopped; after it something is, and not everything. In
  the mode that kills, the row stays at `rendering` for good, and whatever is asked for is a direction
  that refuses it (`NeverRecovered`);
* `RenderedOnce`, `CutShows`: a segment without audio at the stop is rendered at most once; one that the
  harness has truncated is either still short or rendered a second time, which the comparison notices;
* `Compared`, `Verified`: what holds once the comparison and the verification have been passed, and goes on
  to hold up to the verdict, because nobody asks for another render;
* `Reaped`: a server is left behind only by the late interrupt that section 7 describes.

From it follow `GreenIsEarned` (`ProofEarned`) and `RealNeverGreen`: a proof that kills its server is never
green, which is finding 6 for every number of segments and faults.

### Direction

For any number of processes, jobs, chapters, passages, scripts and faults, from `DirectionAssumption` and,
for the safety theorems, `OwnBook`: no two jobs derive the same book. The hypothesis is needed:
`direction_same_book` has the counterexample without it. `DirectionInv` says

* `RowOK`: what a row says of its stored book. `StageA` is what every record of a job in this stage is,
  saved or not; chapters are approved one after the other (`InOrder`), so that a count stands for a set;
  a running row never counts more than is stored; a row at review has all of it and its warnings;
* `RunOK`: what a run knows. It is `Abreast` of the stored book at every point but one, between a chapter's
  direction and its save, where it is ahead by exactly that chapter; there the counts of its job are
  ahead too, which is why a failure saves a count that is not durable, and why `RowsTruthful` counts
  what is stored for a row that was interrupted;
* that a job has one run at a time, and that a confirmed script is the stored one.

From it follow `RowsAreTruthful`, `ReviewedScripts` and, step by step, `DirectionIsKept`.

### LocalDirector and CloudDirector (in DirectionProofs)

For chapters of any length with passages of any size, any budgets, and any number of attempts and shrinks;
the assumption (`CallsAssumption`) is that a window is asked for at least once. Each has an invariant of
four parts, checked with TLC first; `LocalInv` is

* `LocalTyped`, with a chapter that is not empty;
* `LocalPlaced`: the windows accepted so far tile the chapter up to `NextIndex`, each is named by its place
  among them, and the one at work begins there and is not empty. Recovery from a window that was too large
  gives up its name, which is what keeps the names without a gap;
* `LocalCounted`: what has been requested is paid for by windows accepted, shrinks made and attempts begun:
  a window is left behind only by being accepted or by a shrink;
* `LocalTold`: no end is in the ledger before the call has settled.

`CloudInv` is alike, without names and shrinks. What windows do rests on one lemma about
`DirectionWindows`: the first end that the code's loop would stop at exists (`FirstStop`, from the least
number of a set), so `PlanWindow` is a window of at least one passage that ends within the chapter
(`LocalWindow`, `CloudWindow`). From the invariants follow `CallsAreAccounted` (`CallsAccounted`);
`ChaptersAreWhole` (`ChaptersWhole`), that either director implements `WholeChapter`: accepting a window
directs more of the chapter, settling answers, and every other step is a stutter; and `ChaptersAreTiled`:
the check of the windows after the local director's loop, which its comment calls guaranteed by
construction, indeed never fails, and the cloud director, which has no such check, would pass it.

`NoWorkIsTwice` (`NoWorkTwice`) has the hard half here: a cut is never for nothing. Nothing in the code says
so. One halving may plan the very same window, or with a floor under the characters change nothing, so the
loop around `shrinkSettings` goes on until the plan moves or nothing is left to halve, and it must both end
and have moved. The argument:

* `CutOnce`: a cut leaves no larger budgets, and smaller ones or the floor with one passage; hence
  (`HalvingsEnd`) after as many halvings as characters and passages together the floor is reached;
* `SmallerWindow`: smaller budgets never plan a longer window. Both windows are full (`WindowFull`): if the
  smaller budgets' one went further, the passage the larger ones refused would fit smaller ones. It needs a
  window's characters to be a number (`CharsNatural`);
* `OneByOne`: at the floor a window has one passage, so one that had two is cut there at the latest
  (`ShrunkShortens`);
* `LocalPlanned`, the invariant it takes besides `LocalInv`: the window at work is the one the budgets at
  the time plan, wherever the window was found too large.

The hypothesis `FairChunking`, that the configured budget is not below the floor of 500 characters it is cut
to, is needed: the default is 6000 and no composition gives another, but `resolveChunkingSettings` accepts
any positive number, and with one below 500 `shrinkSettings` raises it, against its comment (section 7).

### SpeechBatch (in DirectionProofs)

For any segments, identities, orders, seeds, toolchains and any number of faults, from `BatchesAssumption`:
an order names an identity for every segment, there is a seed, and nothing is called `none`. The two worker
identities of the model are enough, since a new worker begins only when the one before has gone.
`SpeechInv`, which TLC checked first, says

* `SpeechTyped`, and `BatchHeld`: a batch is asked of an engine and has the lease until it is over, and
  only the process it talks to lives, and not before it has been started;
* `WorkerHeeds`: what the worker is at fits where the engine is, it was made by the engine's toolchain
  once it has begun, and what it speaks, or has reported, is the segment and seed the engine waits for. A
  report still in the pipe of a worker that died is of that kind too, which is why a line read after its
  death does no harm;
* `InHand` and `OnlyNeeded`: the segment in hand has not been returned in this batch, and what lies on disk
  for it cannot be reused: this is the part that carries `SpokenOnce`, and it holds although the same
  segment is tried again with other seeds;
* `ManifestsStand`: a returned take is on disk with the manifest that lets the next batch reuse it.

The lemmas go by what a step does: a worker acts (`WorkerGoes`), the engine moves while the files stay
(`BatchGoes`), the batch is cut off (`BatchStops`). From it follow `AudioAlwaysStands` (`AudioStands`) and the
other half of `NoWorkIsTwice`.

### FallbackConsent (in AgreedVoicesProofs)

For any number of lines, readings, clerks, processes, calls and redirections. `ConsentInv`: every write a
clerk has still to make is `Sound`, that is, what it would write was decided by somebody for that reading
of that line; the clerk that writes holds its process's section; and, where one process decides, nobody
but a call that names the line has a record pending for a line that is withdrawn. `InSomeOrder`,
`EitherPart` and `ReconciliationWrites` say what a reconciliation's list of tasks may contain, in whatever
order it is made. From it follow `TypeCorrect`, `NeverCarriedOver`, `NeverAmbiguous` and
`WithdrawalOutranksTheBook`; the last is false for two processes (`withdrawal_undone`).

`BookDecidedWhole` (`AgreedWhole` states it as `DecidedWhole`) needs more: `PlansOK` says what a decision for the book has still to do.
After the catalog is read, its `Tasks` have each line at most once, and have every line whose record is
stale or whose grant has no record; so each transaction can do its task without upsetting another, and with
the last one nothing is left. Other calls cannot come between because they do not hold the section
(`OneWriter`), which is why it is about one process. `InSomeOrder` has the lemma about `SetToSeq`.

### PipelineCommands, with CastApproval and BookWindows (in AgreedVoicesProofs)

For any number of commands, web processes, jobs, slices, speakers, profiles and proposals. The assumptions
(`PipelineAssumption`) are that a process is a command or a web process, that characters are not called as
the profiles of the narrator and of unresolved lines are, and that a proposal is a finite set of
assignments. A command reads the cast once and works for hours; meanwhile casts are approved, and other
jobs direct books that may be the same. `PipelineInv`, which TLC checked first, says

* `LedgerOK`: the cast in force was signed, and whatever was signed could be;
* `RowOK`: a row is bound to the inputs of its command; the book attached to it has the ID and the text
  of the window these inputs name; and if a command directed it, its contract is that of a cast that was
  signed *for this very book*, or of none. This is the part that carries `SpokenAsSigned`: the cast is
  checked against the book while it is extracted, and a render, perhaps by another command with another
  cast, is let in by the contract only, which has no book in it;
* `ProcessOK`: what a process has read is what it works for: it directs for its own inputs, and renders a
  row with its own contract, with a script of that row's window whose profile its cast knows;
* `OutputOK`: what was completed is the window of its row, and a character's voice was signed for it.

That two runs over one saved book do not take each other's window away rests on `OneWindow`: two slices
with one book ID are one window (`SameTexts` says it of a book that is extracted again). It is not by
construction: a slice that cuts nothing off has the ID of the whole book, and a first chapter of one is no
bound. `CanonicalWindow` has that a descriptor keeps the window and is its own. `SignedVoice` takes the step
from an equal contract to an equal voice: a contract holds every speaker's material.

`SharingTold` is about `CastApproval` alone: among a canonical cast those with one material are one
assignment or all who name its group (`Sharers`), and speakers are as many as assignments
(`SpeakersCount`), so what a signer is told by material is what a report counts by group (`TellsSharing`).

`VoicesAreAgreed` (`NothingCarriedOver`) joins this with the three invariants of `FallbackConsent`: a step
of `AgreedVoices` is one of either part, or none.

### OutputReservation and EpubIngestion (BookFilesProofs)

For any number of processes, books and versions, from the assumptions that the bounds are naturals,
that there is a book, and that no run is called as the free lock is. The inductive invariant is the
conjunction of

* `ReservedApart`: no two reserved exports share a file, because the row's path is unique and a name is
  checked against the disk and the other rows inside the transaction;
* `HighestExists`: a version lies above all reserved ones of its title, so that a new one is new;
* `PlacedIsThere`: what a run counts as placed is on disk under its export's name;
* `CompletedIsLeft`: nobody works on a completed export any more, which is why no roll-back reaches it;
* `CompletedIsWhole` and `MigratedOnce`, the two halves of `OutputsSound`.

From it follow `SoleOwnership` (`SoleOwner`) and `OutputsAreSound` (`OutputsSound`), and
`RemovedByOwner`: a file leaves the disk by the run that placed it only.

For the uploads, any number of ingests, records and faults; the assumption is that no ingest is called
as the free lock is and that there is something to upload. `UploadsInv` is the conjunction of

* `UploadsTyped`, and `Locked`: whoever works holds the lock, or has lost it to a killed holder; both
  hold always, and give the module's type invariant. The rest holds until a lock is lost (`lapsed`),
  since two calls then work at once and neither knows (section 8);
* `Knows`: what a call has established about the target is still so where it relies on it: it publishes
  the record it has looked at, it releases only with its own record committed, and a rollback that did
  not put the target there has found none committed;
* `Fresh`: a target that a working call has put there was handed to nobody, nor was anything before, which
  is why its rollback may take it away although it is committed by then;
* `Kept`: every record that `ingest` has returned is the committed target (`HandedIsStored`).

`Kept` alone is not inductive: a rollback preserves it by `Fresh`, a release by `Knows`, and both survive
the steps of others because the lock makes the working call the only one (`Alone`). The lemmas go by what
a step changes: nothing but where the call is (`CallGoes`, `CallEnds`), the lock (`LockSteps`), or the target
(`TargetSteps`); `DamageKeeps` is about a file that fails. From both invariants follow, for `BooksSpec`,
`UploadsAreKept` (`UploadsKept`) and, step by step, `FilesAlwaysStand` (`FilesStand`).

### What stays with the model checker

* Liveness and everything about ENABLED: `EverybodyAnswered`, `EverythingSettles`, `EverythingEnds`,
  `EveryCallSettles`. The prover has no rules for fairness over quantified actions that it could check.
* What a recursive definition computes for every input, which would need induction over data: `BookStands`
  (splitter, repairs, extraction, packages, the sums of the assembly) and `VerdictEarned`. The two recursive
  functions that theorems do rest on, the sum of a window's characters and its halvings, are shown to exist
  by least-number arguments (`SumExists`, `HalvingsExist`), for one function at a time.
* Compositions, and `EverybodyRests` for the page. `WithdrawalsStand` is proved in halves:
  `WithdrawalOutranks` for a render's book, `WithdrawalOutranksTheBook` for one whose script changes.

## 7. Where code and comments disagree

Each has a run whose property states what the comment says, and a counterexample.

1. **A queued decision commits under a render** (`decision_under_render`). `assertNoRenderOwns` tests
   the job as it was loaded before the wait for the catalog section. The web API's comment says a
   decision is refused outright while a render owns the job. Nothing unapproved is published: the
   render's own revision checks fail it, which is what `OutputIsAttested` shows.
2. **A late acquisition is never released on macOS** (`late_acquisition`). When a chapter's deadline
   passes while the lease is being acquired, `release` finds no lease and finishes; the macOS path
   does not look at the signal after its helper has answered, and hands the lease to nobody. The
   process keeps the GPU until it exits. On Linux the inspection of the GPU runs under the signal and
   `ReleaseFreesLease` holds.
3. **A slice of the whole book shares its book ID** (`direction_same_book`). A slice that removes nothing
   returns the parent book unchanged, although its bounds made it another job. Its extraction saves
   draft chapters over the script of the job that waits for review. The comment in `slice.ts` says that
   two windows of one upload can no more collide than two books.
4. **The benchmark refuses a run of its own** (`benchmark_resume`). A run that speaks of exhausted memory
   while a resource sample failed is recorded under one failure code and expected under another, so its
   experiment can neither be resumed nor reported.
5. **A withdrawal is undone from another process** (`withdrawal_undone`). The catalog section lives in
   memory, and saving an approval deletes the line's exclusion whoever saves. A bulk grant of the review
   command, which has read the catalog before the web process withdraws a line, approves that line.
   Where one process decides, `WithdrawalOutranksTheBook` is proved.
6. **The harness cannot recover the render it kills** (`killed_render`). After `SIGKILL` it asks for a
   recovery through `startGeneration`, which directs: the row is marked abandoned with an error, and the
   harness waits for a review that never comes. The runbook says it recovers the job. `RealNeverGreen`
   proves that no proof in this mode is ever green.

Remarks without a run, met while modelling:

* The aggregate does not defend itself: `beginRendering` accepts a job whose direction is incomplete, and
  `addFallbackWarning` one whose warnings were reviewed; the application calls neither so, which is
  what `LifecycleSafe` shows.
* `shrinkSettings` promises "a window smaller than the current one"; configured with a `windowCharBudget`
  below 500, which `resolveChunkingSettings` accepts and only tests do, it raises the budget and may plan a
  longer one. `NoWorkIsTwice` has the hypothesis.
* `attachOrphanSeparators` can exchange two pieces of whitespace: one that does not fit behind its
  predecessor waits for the next piece, while a shorter one that follows it is attached at once
  (`split-directed-segments.ts:196-203`). It takes a run of whitespace longer than the budget, of more than
  one kind; the fragments then no longer concatenate to the segment, as the comments at lines 175 and 228
  say they do, and the coverage check rejects a chapter that was accepted. No text is changed. `SplitSound`
  and `AcceptedIsCovered` state this condition, and the run has texts on both sides of it: with a budget of
  three, two of overshoot and the passage `ww.`, three spaces, a no-break space and `, ww`, it reaches
  `uncovered`.
* After a crash that leaves a row `running`, the job page polls for ever and offers no resume, and the web
  API refuses a start without `recoverAbandoned`; the pipeline driver refuses such a job too
  (`audiobook-web-api.ts:442-446`, `driver.ts:276-329`).
* The job page stops polling on one internal error. A fetch outlives its page, and only an invalidation
  replaces it: a page that is left with a fetch under way and opened again, by another start or from the
  browser's history, joins that old fetch, and may rest on "review" while the work its own tab has started
  goes on. `PageRestsTruly` excludes that case (`starter` is then "missed") and what another tab starts
  while the page rests; a reload or a focus of the window mends both. `getJobState` can report a job at rest if a run starts, fails
  and ends between its two reads.
* `SIGINT` to `proof-m1.mjs` while the server is being replaced leaves the new one running, and a second
  `SIGTERM` to a host during its release (`process.once`, `transports.ts`) may leave the llama-server.
* A passage root directly in a `<ruby>` is claimed twice, and an image that is the base of a ruby is
  reported outside any passage. A missing or repeated cover makes ingestion fail although the documents
  say a cover does not fail closed. Several links of a table of contents into one file are reported as
  a conflict with the spine.
* There is one cast approval per EPUB: a cast approved for one slice's book ID makes another slice fail
  until it is approved again.
* The governance of a corpus accepts cases whose spans run backwards. A run's summary takes the
  positional document's hash for a missing index.

## 8. What is not modelled

* In `RenderReview` the script, its segments and the render contract do not change; `FallbackConsent` has
  what happens to decisions when they do. One web process is modelled there. Nothing keeps a second one
  off the same database: the catalog section and the runner's exclusion live in memory, and two servers
  would share the transactions only.
* Loss of files after they were recorded: the code re-verifies digests when it serves and re-renders
  when it plans; both treat a lost file as an error path that is already there.
* In `GpuHandover`: a holder killed from outside, which no component defends against before its next
  acquisition; a server that is not yet visible to `nvidia-smi` when an orphan is looked for; the
  protocols spoken to the two models. In `EpubIngestion` a lost lock is modelled, and noticed by the
  next `assertHeld` only, as in the code: `UploadsKept` is conditional on it.
* In `SpeechBatch`: a change of the toolchain while a worker compares and loads it, which nothing in the
  code defends against, and of the interpreter; `renderBatch`, which only scripts and tests call.
* In the splitter, surrogate pairs and grapheme weights; in `EchoedText`, which speaker a piece is given;
  in `AudioAssembly`, loudness and tags.
* The bytes of a ZIP archive (offsets, compression, what makes an entry unsupported is one kind), the XML of
  an EPUB and its metadata but for the title, the wire formats of the web API and of proposals, prompts and
  wording, and the panels of the web client that show one answer each.
* The benchmark's validation of its inputs before a server starts; the single checks of the harness's
  preflight and of its container. The spikes and measurement scripts are outside the program.
