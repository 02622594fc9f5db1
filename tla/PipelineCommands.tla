-------------------------- MODULE PipelineCommands --------------------------
(***************************************************************************)
(* The commands of the pipeline driver, and the web process beside them,   *)
(* on one workspace: a cast is approved, a window of the book is directed  *)
(* for it, what was directed is confirmed and rendered, and what was       *)
(* interrupted is resumed.  A command reads the approved cast once, before *)
(* anything else, and works for hours.                                     *)
(*                                                                         *)
(* Each stage is a step; the modules Direction and RenderReview have what  *)
(* happens inside them, and the reviews of fallback lines.  A window is    *)
(* looked at in one line of it, whose speaker the director names.          *)
(***************************************************************************)
EXTENDS CastApproval, BookWindows

CONSTANTS
  Commands,     \* processes that run the driver's command
  Webs,         \* web processes
  CommandJobs,  \* job IDs a command may be given, beside those of the web
  Asked,        \* slices that are asked for
  Drafts,       \* proposals: a cast for a book
  HouseCast,    \* the cast that is built into the web
  NoJob,
  MaxApprovals, MaxLaunches

Processes == Commands \cup Webs

Jobs == CommandJobs \cup {DeriveJobId(limits) : limits \in Asked}

BookIds == {WindowedBookId(limits) : limits \in {l \in Asked : ~PastTheEnd(l)}}

VARIABLES
  ledger,       \* the approved cast of the EPUB
  signed,       \* history: every decision that was ever signed
  rows,         \* the jobs table
  books,        \* the window saved under each book ID, with its line
  confirmed,    \* which script of which book was confirmed for which job
  outputs,      \* of completed jobs: the window and the voice of its line
  process,
  launches

pipelineVars == <<ledger, signed, rows, books, confirmed, outputs, process, launches>>

NoApproval == [book |-> Unbounded, cast |-> {}]

NoScript == [text |-> <<>>, line |-> "draft", profile |-> "none"]

NoRow == [state |-> "absent", stage |-> "none", book |-> Unbounded, attached |-> FALSE,
          command |-> <<>>, contract |-> <<>>]

Idle == [pc |-> "idle", op |-> "none", job |-> NoJob, limits |-> Unbounded,
         approval |-> NoApproval, row |-> NoRow, script |-> NoScript, recover |-> FALSE]

NoOutput == [text |-> <<>>, profile |-> "none", voice |-> "none", book |-> Unbounded, by |-> "none"]

PipelineInit ==
  /\ ledger = NoApproval /\ signed = {}
  /\ rows = [j \in Jobs |-> NoRow]
  /\ books = [b \in BookIds |-> NoScript]
  /\ confirmed = {}
  /\ outputs = [j \in Jobs |-> NoOutput]
  /\ process = [p \in Processes |-> Idle]
  /\ launches = 0

-----------------------------------------------------------------------------
(* The cast                                                                *)

\* saveCastApproval: one decision for an EPUB, the last one
Approve(draft) ==
  /\ Approvable(draft.cast) /\ Cardinality(signed) < MaxApprovals
  /\ ledger' = draft
  /\ signed' = signed \cup {ledger'}
  /\ UNCHANGED <<rows, books, confirmed, outputs, process, launches>>

\* The profile IDs of the web's cast are not those the driver derives
CastOf(p) == IF p \in Webs THEN HouseCast ELSE process[p].approval.cast

RenderContract(p) == <<p \in Webs, GenerationIdentity(CastOf(p))>>

CommandIdentity(p) == <<RenderContract(p), CanonicalSliceDescriptor(process[p].limits)>>

-----------------------------------------------------------------------------
(* A command starts                                                        *)

At(p, pc) == process[p].pc = pc

Moves(p, pc) == process' = [process EXCEPT ![p].pc = pc]

Ends(p) == process' = [process EXCEPT ![p] = Idle]

Tables == <<ledger, signed, books, confirmed, outputs>>

Starts(p, op, job, limits, approval) ==
  /\ At(p, "idle") /\ launches < MaxLaunches /\ ValidBounds(limits)
  /\ process' = [process EXCEPT ![p] =
       [Idle EXCEPT !.pc = "launched", !.op = op, !.job = job, !.limits = limits,
                    !.approval = approval]]
  /\ launches' = launches + 1
  /\ UNCHANGED <<Tables, rows>>

\* Up to findCastApproval: the cast is read here, and once
LaunchCommand(p, op, job, limits) ==
  Derivable(ledger.cast) /\ Starts(p, op, job, limits, ledger)

\* A request to the web: the slice of a run is decoded from the ID of its job
LaunchWeb(p, op, job) ==
  Parsable(job) /\ Starts(p, op, job, job, NoApproval)

DirectingStages == {"extracting", "directing"}

\* What the driver and the web API ask of the row before they call a stage, and which they call.
\* A command that is refused ends; only an interrupted job is resumed, and only resumed.
Dispatch(p) ==
  /\ At(p, "launched")
  /\ LET row == rows[process[p].job]
         next == CASE process[p].op = "direction" /\ row.state # "failed" -> "direct"
                   [] process[p].op = "render" /\ row.state # "failed" -> "confirm"
                   [] process[p].op = "resume" /\ row.state = "failed" ->
                        IF row.stage \in DirectingStages THEN "direct" ELSE "render"
                   [] OTHER -> "refused"
     IN IF next = "refused" THEN Ends(p)
        ELSE process' = [process EXCEPT ![p].pc = next, ![p].recover = (process[p].op = "resume")]
  /\ UNCHANGED <<Tables, rows, launches>>

-----------------------------------------------------------------------------
(* Direction                                                               *)

\* DirectAudiobook.execute loads the row: a new job, or one interrupted under the same inputs.
\* To resume is to take over a row that another command made running since Dispatch.
LoadDirection(p) ==
  /\ At(p, "direct")
  /\ LET row == rows[process[p].job]
         fresh == row.state = "absent"
         again == /\ row.command = CommandIdentity(p)
                  /\ row.stage \in DirectingStages
                  /\ row.state = "failed" \/ (row.state = "running" /\ process[p].recover)
     IN IF fresh \/ again
        THEN process' = [process EXCEPT ![p].pc = "claim",
               ![p].row = [row EXCEPT !.state = "running",
                                      !.stage = IF fresh THEN "extracting" ELSE @,
                                      !.command = CommandIdentity(p),
                                      !.contract = RenderContract(p)]]
        ELSE Ends(p)
  /\ UNCHANGED <<Tables, rows, launches>>

ClaimDirection(p) ==
  /\ At(p, "claim")
  /\ rows' = [rows EXCEPT ![process[p].job] = process[p].row]
  /\ Moves(p, process[p].row.stage)
  /\ UNCHANGED <<Tables, launches>>

\* SlicingEpubExtractor.extract, and what the driver makes of the book it returns
MayExtract(p) ==
  /\ ~PastTheEnd(process[p].limits)
  /\ LET approval == process[p].approval
     IN approval # NoApproval => approval.book = WindowedBookId(process[p].limits)

\* attachBook, saveBook and beginDirection; a run that may not go on fails where it is
Extract(p) ==
  /\ At(p, "extracting") /\ MayExtract(p)
  /\ LET id == WindowedBookId(process[p].limits)
         row == [process[p].row EXCEPT !.stage = "directing", !.attached = TRUE, !.book = id]
     IN /\ books' = [books EXCEPT ![id] = [NoScript EXCEPT !.text = Window(process[p].limits)]]
        /\ rows' = [rows EXCEPT ![process[p].job] = row]
        /\ process' = [process EXCEPT ![p].pc = "directing", ![p].row = row]
  /\ UNCHANGED <<ledger, signed, confirmed, outputs, launches>>

\* The director names a speaker of its roster, or nobody; a fake one is also given a stranger
Direct(p) ==
  /\ At(p, "directing")
  /\ \E line \in CastSpeakers(CastOf(p)) \cup {"narration", "unresolved", "stranger"} :
       LET row == [process[p].row EXCEPT !.state = "awaiting_review"]
           script == [books[row.book] EXCEPT !.line = line,
                                             !.profile = Resolve(CastOf(p), line)]
       IN /\ books' = [books EXCEPT ![row.book] = script]
          /\ rows' = [rows EXCEPT ![process[p].job] = row]
  /\ Ends(p)
  /\ UNCHANGED <<ledger, signed, confirmed, outputs, launches>>

-----------------------------------------------------------------------------
(* Confirmed render                                                        *)

Directed(row) == row.attached /\ books[row.book].line # "draft"

Confirmation(p) == LET j == process[p].job IN <<j, rows[j].book, books[rows[j].book]>>

\* ReviewDirection.confirm, of the script that is there now
Confirm(p) ==
  /\ At(p, "confirm")
  /\ IF rows[process[p].job].state = "awaiting_review"
     THEN /\ confirmed' = confirmed \cup {Confirmation(p)}
          /\ Moves(p, "render")
     ELSE Ends(p) /\ UNCHANGED confirmed
  /\ UNCHANGED <<ledger, signed, rows, books, outputs, launches>>

\* Mutant: a render does not ask which cast the job was directed for
SameContractAlways(p, row) == TRUE

\* Bound when the job was directed
SameContract(p, row) == row.contract = RenderContract(p)

MayRender(p, row) ==
  /\ \/ row.state = "awaiting_review"
     \/ row.state = "failed" /\ row.stage = "rendering"
     \/ row.state = "running" /\ row.stage = "rendering" /\ process[p].recover
  /\ Directed(row) /\ Confirmation(p) \in confirmed
  /\ SameContract(p, row)

Plannable(p, row) == KnowsProfile(CastOf(p), books[row.book].profile)

\* RenderAudiobook.execute, up to the engine: the gate, the contract and the plan.  A script that
\* another job had directed for another cast is not planned: the render is begun, and fails.
LoadRender(p) ==
  /\ At(p, "render")
  /\ LET row == rows[process[p].job]
     IN IF MayRender(p, row) /\ Plannable(p, row)
        THEN /\ process' = [process EXCEPT ![p].pc = "planned", ![p].row = row,
                                           ![p].script = books[row.book]]
             /\ UNCHANGED rows
        ELSE /\ Ends(p)
             /\ rows' = IF MayRender(p, row) /\ row.state = "awaiting_review"
                        THEN [rows EXCEPT ![process[p].job].state = "failed",
                                          ![process[p].job].stage = "rendering"]
                        ELSE rows
  /\ UNCHANGED <<Tables, launches>>

\* The gate again, now that there is an engine, and the claim
ClaimRender(p) ==
  /\ At(p, "planned")
  /\ LET row == process[p].row
     IN IF books[row.book] = process[p].script /\ <<process[p].job, row.book, process[p].script>> \in confirmed
        THEN /\ rows' = [rows EXCEPT ![process[p].job] =
                           [row EXCEPT !.state = "running", !.stage = "rendering"]]
             /\ Moves(p, "speaking")
        ELSE Ends(p) /\ UNCHANGED rows
  /\ UNCHANGED <<Tables, launches>>

Complete(p) ==
  /\ At(p, "speaking")
  /\ LET row == process[p].row
         script == process[p].script
     IN /\ outputs' = [outputs EXCEPT ![process[p].job] =
                         [text |-> script.text, profile |-> script.profile, book |-> row.book,
                          voice |-> VoiceOf(CastOf(p), script.profile),
                          by |-> IF p \in Webs THEN "web" ELSE "command"]]
        /\ rows' = [rows EXCEPT ![process[p].job] =
                      [row EXCEPT !.state = "completed", !.stage = "done"]]
  /\ Ends(p)
  /\ UNCHANGED <<ledger, signed, books, confirmed, launches>>

-----------------------------------------------------------------------------

\* persistJobFailure: a stage that was claimed fails where it is
Fail(p) ==
  /\ process[p].pc \in {"extracting", "directing", "speaking"}
  /\ rows' = [rows EXCEPT ![process[p].job] =
                [process[p].row EXCEPT !.state = "failed",
                   !.stage = IF At(p, "speaking") THEN "rendering" ELSE @]]
  /\ Ends(p)
  /\ UNCHANGED <<Tables, launches>>

Crash(p) == ~At(p, "idle") /\ Ends(p) /\ UNCHANGED <<Tables, rows, launches>>

Operations == {"direction", "render", "resume"}

PipelineNext ==
  \/ \E d \in Drafts : Approve(d)
  \/ \E op \in Operations :
       \/ \E p \in Commands, job \in CommandJobs, limits \in Asked : LaunchCommand(p, op, job, limits)
       \/ \E p \in Webs, job \in Jobs \ CommandJobs : LaunchWeb(p, op, job)
  \/ \E p \in Processes :
       \/ Dispatch(p) \/ LoadDirection(p) \/ ClaimDirection(p) \/ Extract(p) \/ Direct(p)
       \/ Confirm(p) \/ LoadRender(p) \/ ClaimRender(p) \/ Complete(p)
       \/ Fail(p) \/ Crash(p)

-----------------------------------------------------------------------------

(* A character of a book speaks, in what a command completed, with         *)
(* material that a human signed for that character of that very book,      *)
(* whatever was approved since or meanwhile.                               *)
SpokenAsSigned ==
  \A j \in Jobs :
    outputs[j].by = "command" /\ outputs[j].profile \in Speakers =>
      \E d \in signed :
        /\ d.book = outputs[j].book
        /\ \E a \in d.cast : a.speaker = outputs[j].profile /\ a.material = outputs[j].voice

(* A job is directed and completed over the window its inputs name, and no *)
(* other window of the book takes the place of what is saved for it.       *)
WindowAsAsked ==
  \A j \in Jobs : rows[j].attached =>
    LET window == Window(rows[j].command[2])
    IN /\ books[rows[j].book].text = window
       /\ rows[j].state = "completed" => outputs[j].text = window

(* Whoever signs a cast is told of every material that two of its          *)
(* characters share, and a run reports the groups that were told.          *)
SharingTold ==
  LET told == SharedVoiceMaterialGroups(ledger.cast)
  IN /\ \A a, b \in ledger.cast : a # b /\ a.material = b.material =>
          \E g \in told : {a.speaker, b.speaker} \subseteq g.speakers
     /\ SharedMaterialGroups(ledger.cast) =
          {[group |-> g.group, material |-> g.material, count |-> Cardinality(g.speakers)]
             : g \in told}
=============================================================================
