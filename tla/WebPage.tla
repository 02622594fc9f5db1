------------------------------- MODULE WebPage -------------------------------
(***************************************************************************)
(* A browser tab watching one job of the web process: the import page and  *)
(* the job page, whose query is polled only while the last answer says the *)
(* job is active, and whose buttons ask for a start, a resume or a render. *)
(*                                                                         *)
(* The query (external: TanStack Query) has one fetch under way at a time: *)
(* mounting, polling and focus join it, an invalidation replaces it.  An   *)
(* answer is computed from two reads, the row first and the runner after   *)
(* the awaits that follow, and is shown later still.  A fetch outlives the *)
(* page that sent it, for the query does not look at its signal: a page    *)
(* that is opened again joins it, and nothing is invalidated while no page *)
(* is open.                                                                *)
(***************************************************************************)
EXTENDS GenerationRunner

CONSTANTS Tab, Job      \* the tab, the one of Clients; the job it watches

VARIABLES
  tab,
  starter   \* ghost: whose request queued the work under way; "missed" if the tab's, and no page
            \* has asked for the state of the job since the tab had its answer

pageVars == <<vars, tab, starter>>

Views == {"loading", "active", "resumable", "review", "completed", "absent", "error"}

NoFetch == [at |-> "none", got |-> "none", view |-> "loading"]

Sent == [NoFetch EXCEPT !.at = "sent"]

NoAsk == [kind |-> "none", at |-> "none"]

PageInit ==
  /\ Init
  /\ tab = [at |-> "home", seen |-> "loading", fetch |-> NoFetch, ask |-> NoAsk]
  /\ starter = "nobody"

Active == status[Job] # "idle"

\* Whose the work under way is, after a step of the process
Owned(c) == starter' = IF status'[Job] = "idle" THEN "nobody"
                       ELSE IF Active THEN starter ELSE c

-----------------------------------------------------------------------------
(* The answer to a read                                                    *)

\* Mutant: the row as it was read
ViewOfRow(state) ==
  CASE state \in {"running", "pending"} -> "active"
    [] state \in {"failed", "abandoned"} -> "resumable"
    [] OTHER -> state

\* buildJobStateView, then withRunnerStatus; a job without a row is pending or rejected
View(state) ==
  CASE Active \/ state \in {"running", "pending"} -> "active"
    [] state \in {"failed", "abandoned"} -> "resumable"
    [] state = "none" -> "absent"
    [] OTHER -> state

FetchAt(at) == tab.fetch.at = at

Answers(view) == tab' = [tab EXCEPT !.fetch = [at |-> "answered", got |-> "none", view |-> view]]

\* getJobState, to the row; a job that has none is answered at once
ReadRow ==
  /\ FetchAt("sent") /\ Up
  /\ IF ~DatabaseOpen THEN Answers("error")
     ELSE IF rows[Job].state = "none" THEN Answers(View("none"))
     ELSE tab' = [tab EXCEPT !.fetch = [NoFetch EXCEPT !.at = "read", !.got = rows[Job].state]]
  /\ UNCHANGED <<vars, starter>>

ReadRunner ==
  /\ FetchAt("read") /\ Up /\ Answers(View(tab.fetch.got))
  /\ UNCHANGED <<vars, starter>>

-----------------------------------------------------------------------------
(* The page                                                                *)

OnPage == tab.at = "job"

Hears == starter' = IF starter = "missed" THEN "tab" ELSE starter

Misses == starter' = IF starter = "tab" THEN "missed" ELSE starter

Fetches == tab' = [tab EXCEPT !.fetch = Sent] /\ Hears

\* refetchOnMount: a fetch that is under way is joined
Mounted == [tab EXCEPT !.at = "job", !.fetch = IF FetchAt("none") THEN Sent ELSE @]

Shows ==
  /\ FetchAt("answered")
  /\ tab' = [tab EXCEPT !.seen = tab.fetch.view, !.fetch = NoFetch]
  /\ UNCHANGED <<vars, starter>>

\* The retries of a fetch end, and what was shown stays
GivesUp ==
  /\ FetchAt("sent") /\ ~Up /\ tab' = [tab EXCEPT !.fetch = NoFetch]
  /\ UNCHANGED <<vars, starter>>

\* Mutant: the interval runs while the job rests
PollAtRest ==
  /\ OnPage /\ FetchAt("none") /\ tab.seen \in {"resumable", "review", "completed"} /\ Fetches
  /\ UNCHANGED vars

Poll ==
  /\ OnPage /\ FetchAt("none") /\ tab.seen = "active" /\ Fetches
  /\ UNCHANGED vars

\* The window is focused
Focus ==
  /\ OnPage /\ FetchAt("none") /\ Fetches
  /\ UNCHANGED vars

\* Back to the import page at any time; the query's data stays, and what is under way goes on
Leave ==
  /\ OnPage
  /\ tab' = [tab EXCEPT !.at = "home"]
  /\ UNCHANGED <<vars, starter>>

\* The page of the job is opened again from the browser's history
Return ==
  /\ tab.at = "home" /\ tab' = Mounted
  /\ IF FetchAt("none") THEN Hears ELSE UNCHANGED starter
  /\ UNCHANGED vars

AskedFor(kind, at) == tab.ask = [kind |-> kind, at |-> at]

Asks(kind) ==
  /\ tab.ask = NoAsk /\ tab' = [tab EXCEPT !.ask = [kind |-> kind, at |-> "sent"]]
  /\ UNCHANGED <<vars, starter>>

\* The button the page offers for what it shows.  A bound: one request of a tab at a time
Click ==
  \/ tab.at = "home" /\ Asks("start")
  \/ OnPage /\ tab.seen = "resumable" /\ Asks("resume")
  \/ OnPage /\ tab.seen = "review" /\ Asks("render")

\* Mutant: the invalidation joins the fetch under way
InvalidatesUnlessFetching == [tab EXCEPT !.ask = NoAsk, !.fetch = IF FetchAt("none") THEN Sent ELSE @]

Invalidates == [tab EXCEPT !.ask = NoAsk, !.fetch = Sent]

\* onSuccess: a start leads to the job page, which is mounted unless it is open already;
\* anything else invalidates what the page shows, and fetches nothing when it was left
Settles ==
  /\ tab.ask.at \in {"ok", "refused"}
  /\ \/ /\ AskedFor("start", "refused")
        /\ tab' = [tab EXCEPT !.ask = NoAsk] /\ UNCHANGED starter
     \/ /\ AskedFor("start", "ok") /\ ~OnPage
        /\ tab' = [Mounted EXCEPT !.ask = NoAsk]
        /\ IF FetchAt("none") THEN Hears ELSE Misses
     \/ /\ AskedFor("start", "ok") /\ OnPage
        /\ tab' = [tab EXCEPT !.ask = NoAsk] /\ Misses
     \/ /\ tab.ask.kind # "start" /\ OnPage
        /\ tab' = Invalidates /\ Hears
     \/ /\ tab.ask.kind # "start" /\ ~OnPage
        /\ tab' = [tab EXCEPT !.ask = NoAsk] /\ Misses
  /\ UNCHANGED vars

-----------------------------------------------------------------------------
(* The process                                                             *)

Answered(at) == tab' = [tab EXCEPT !.ask.at = at]

Replies(kind, at) ==
  AskedFor(kind, "sent") /\ Up /\ DatabaseOpen /\ Answered(at) /\ UNCHANGED <<vars, starter>>

\* startGeneration: an active job or one that can be resumed is shown, a running row is refused
ServeStart ==
  LET state == rows[Job].state
  IN \/ Active /\ Replies("start", "ok")
     \/ ~Active /\ state = "running" /\ Replies("start", "refused")
     \/ ~Active /\ state \in {"failed", "abandoned"} /\ Replies("start", "ok")
     \/ /\ AskedFor("start", "sent") /\ state # "running"
        /\ StartGeneration(Tab, Job) /\ Answered("served") /\ UNCHANGED starter

ServeResume ==
  \/ Active /\ Replies("resume", "ok")
  \/ ~Active /\ rows[Job].state \notin {"failed", "abandoned"} /\ Replies("resume", "refused")
  \/ /\ AskedFor("resume", "sent")
     /\ ResumeGeneration(Tab, Job) /\ Answered("served") /\ UNCHANGED starter

\* renderApprovedScript: the confirmation may be refused
ServeRender ==
  \/ rows[Job].state # "review" /\ Replies("render", "refused")
  \/ rows[Job].state = "review" /\ Active /\ Replies("render", "ok")
  \/ rows[Job].state = "review" /\ ~Active /\ Replies("render", "refused")
  \/ /\ AskedFor("render", "sent")
     /\ RenderApprovedScript(Tab, Job) /\ Answered("served") /\ UNCHANGED starter

\* The request is gone with the process, or finds none, or a database that is closed
AskFails ==
  /\ \/ ~Up /\ tab.ask.at = "sent" /\ tab' = [tab EXCEPT !.ask = NoAsk]
     \/ Up /\ ~DatabaseOpen /\ tab.ask.at = "sent" /\ Answered("refused")
  /\ UNCHANGED <<vars, starter>>

EnqueueAsked ==
  Enqueue(Tab) /\ Owned("tab") /\ Answered("ok")

\* Requests under way end with the process: a mutation fails, a fetch is retried
Drops ==
  tab' = IF stop' # "exited" THEN tab
         ELSE [tab EXCEPT !.ask = IF tab.ask.at = "served" THEN NoAsk ELSE @,
                          !.fetch = IF FetchAt("read") THEN Sent ELSE @]

\* A bound: a stop begins before the last of the faults, and while the tab asks for nothing
Stops == tab.ask = NoAsk /\ faults < MaxFaults /\ Prepare

Elsewhere ==
  /\ \/ Execute \/ SaveLost
     \/ Stops \/ Drain \/ Restart \/ Crash
  /\ Owned("nobody") /\ Drops

Queues(kind, recover) ==
  /\ chain' = Append(chain, [job |-> Job, kind |-> kind, recover |-> recover])
  /\ status' = [status EXCEPT ![Job] = "queued"]

\* A request of another tab, without its awaits
AnotherTab ==
  /\ stop = "no" /\ ~Active
  /\ LET row == rows[Job]
     IN \/ row.state \notin {"running", "failed", "abandoned"} /\ Queues("direction", FALSE)
        \/ row.state \in {"failed", "abandoned"} /\ Queues(row.stage, TRUE)
        \/ row.state = "review" /\ Queues("rendering", FALSE)
  /\ UNCHANGED <<rows, running, request, Process, faults, lost, tab>> /\ Owned("other")

PageServed == ServeStart \/ ServeResume \/ ServeRender \/ EnqueueAsked \/ AskFails

PageNext ==
  \/ ReadRow \/ ReadRunner \/ Shows \/ GivesUp \/ Poll \/ Focus \/ Leave \/ Return
  \/ Click \/ Settles \/ PageServed
  \/ Elsewhere \/ AnotherTab

-----------------------------------------------------------------------------
(* Properties                                                              *)

\* A page that shows a state to act on, and is not about to ask again, has no work of its own
\* under way, if it has asked since its last request was answered: nobody who pressed a button
\* and stayed is left looking at what was there before.  (A page that is opened onto a fetch
\* left behind by an earlier visit may be; README section 7.)
PageRestsTruly ==
  /\ OnPage /\ FetchAt("none") /\ tab.ask = NoAsk
  /\ tab.seen \in {"resumable", "review", "completed", "absent"}
  => starter # "tab"

\* Work that is over is not shown as under way for good, unless its row was left running.
Stale == OnPage /\ tab.seen = "active" /\ Up /\ status[Job] = "idle" /\ Job \notin lost

PageSettles == Stale ~> ~Stale
=============================================================================
