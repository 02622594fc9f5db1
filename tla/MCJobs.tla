-------------------------------- MODULE MCJobs ---------------------------------
(***************************************************************************)
(* A job under its commands, under review, and as a page shows it: one    *)
(* run for the three, a behaviour being one of them.  The aggregate has    *)
(* numbers up to two, two candidate books and a line in each of three      *)
(* chapters that may be warned of; under review one line is granted and    *)
(* withdrawn.  The page is one tab of two, and one fault befalls its       *)
(* process.                                                                *)
(***************************************************************************)
EXTENDS JobLifecycle

CONSTANTS b1, h1, j1, NoJob, s1, r1, d1, c1

MCCounts == 0..2

OneLineEach == 1..3

VARIABLE part

VARIABLES vRow, vOutput, vCatalog, vAudio, vRun, vAsked, vReviewer, vReader, vQueue, vReviews,
          vHistory

Reviewing == INSTANCE RenderReview WITH
  Segments <- {s1}, Fallback <- {s1}, Reviewers <- {r1}, Readers <- {d1},
  Decisions <- {"grant", "revoke"}, MaxReviews <- 2, WritesFail <- TRUE, Crashes <- FALSE,
  row <- vRow, output <- vOutput, catalog <- vCatalog, audio <- vAudio, run <- vRun,
  asked <- vAsked, reviewer <- vReviewer, reader <- vReader, queue <- vQueue,
  reviews <- vReviews, history <- vHistory

reviewVars ==
  <<vRow, vOutput, vCatalog, vAudio, vRun, vAsked, vReviewer, vReader, vQueue, vReviews, vHistory>>

VARIABLES pRows, pChain, pStatus, pRunning, pRequest, pStop, pModels, pFaults, pLost, pTab,
          pStarter

Page == INSTANCE WebPage WITH
  Jobs <- {j1}, Clients <- {c1}, MaxFaults <- 1, Tab <- c1, Job <- j1,
  rows <- pRows, chain <- pChain, status <- pStatus, running <- pRunning, request <- pRequest,
  stop <- pStop, models <- pModels, faults <- pFaults, lost <- pLost, tab <- pTab,
  starter <- pStarter

pageVars ==
  <<pRows, pChain, pStatus, pRunning, pRequest, pStop, pModels, pFaults, pLost, pTab, pStarter>>

allVars == <<part, vars, reviewVars, pageVars>>

MCInit ==
  /\ part \in {"aggregate", "review", "page"}
  /\ Init
  /\ Reviewing!Init /\ vRow = Reviewing!DirectedJob(b1, h1)
  /\ Page!PageInit

MCNext ==
  \/ part = "aggregate" /\ Next /\ UNCHANGED <<part, reviewVars, pageVars>>
  \/ part = "review" /\ Reviewing!Next /\ UNCHANGED <<part, vars, pageVars>>
  \/ part = "page" /\ Page!PageNext /\ UNCHANGED <<part, vars, reviewVars>>

\* The fairness of the renders, reviews and reads, and of the page
MCSpec ==
  /\ MCInit /\ [][MCNext]_allVars
  /\ WF_reviewVars(part = "review" /\ Reviewing!Enqueue)
  /\ WF_reviewVars(part = "review" /\ Reviewing!Run)
  /\ WF_reviewVars(part = "review" /\ Reviewing!Review(r1))
  /\ WF_reviewVars(/\ part = "review" /\ ~Reviewing!ReaderAt(d1, "streaming")
                   /\ Reviewing!Read(d1))
  /\ WF_pageVars(part = "page" /\ (Page!ReadRow \/ Page!ReadRunner \/ Page!Shows \/ Page!Poll))

(* A render that ends leaves its row at rest, whatever throws and whoever  *)
(* reopens it, unless the database gave up the last write of the run; and  *)
(* a page that rests shows nobody less than what they have set going.      *)
EverybodyRests == Reviewing!NoOrphan /\ [][Page!PageRestsTruly']_pageVars

Busy ==
  \/ part = "review" /\ Reviewing!Active
  \/ part = "page" /\ Page!Stale

(* Every render ends, and every review or read gets its answer; and a page *)
(* does not show work that is over as under way for good.  (PageSettles    *)
(* among them, in as few formulas.)                                        *)
EverybodyAnswered ==
  /\ Busy ~> ~Busy
  /\ vReviewer[r1].pc # "idle" ~> Reviewing!ReviewerAt(r1, "idle")
  /\ vReader[d1].pc # "idle" ~> vReader[d1].pc \in {"idle", "streaming"}
=============================================================================
