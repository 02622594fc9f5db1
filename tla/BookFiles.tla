------------------------------- MODULE BookFiles -------------------------------
(***************************************************************************)
(* How a book's files enter the workspace and how an export of it leaves   *)
(* it: the two components side by side, a behaviour being one of either.   *)
(***************************************************************************)
EXTENDS OutputReservation

CONSTANTS
  Ingests,      \* of EpubIngestion
  Records,
  MaxMishaps    \* its bound on faults

\* No ingest is called as the free lock is, and there is something to upload
ASSUME IngestsAssumption == Nobody \notin Ingests /\ Records # {}

VARIABLES target, lock, holder, call, lapsed, told

VARIABLE part

Ingestion == INSTANCE EpubIngestion WITH MaxFaults <- MaxMishaps

ingestionVars == <<target, lock, holder, call, lapsed, told>>

outputVars == <<schema, bodies, reserved, completed, disk, writer, render>>

allVars == <<vars, ingestionVars, part>>

BooksInit == Init /\ Ingestion!Init /\ part \in {"ingestion", "output"}

Exporting(A) == part = "output" /\ A /\ UNCHANGED <<ingestionVars, part>>

Ingesting(A) == part = "ingestion" /\ A /\ UNCHANGED <<outputVars, part>>

BooksNext ==
  \/ part = "output" /\ Next /\ UNCHANGED <<ingestionVars, part>>
  \/ part = "ingestion" /\ Ingestion!Next /\ UNCHANGED <<outputVars, part>>

BooksSpec == BooksInit /\ [][BooksNext]_allVars

FairBooksSpec ==
  /\ BooksSpec
  /\ \A r \in Renders : WF_allVars(Exporting(Step(r)))
  /\ \A i \in Ingests :
       /\ WF_allVars(Ingesting(Ingestion!Step(i)))
       /\ WF_allVars(Ingesting(\E e \in Records : Ingestion!Upload(i, e)))

\* For a run: the books whose files meet in one directory
OneTitle == [b \in Books |-> "title"]

(* What ingest returned is the committed record on disk, whatever other    *)
(* uploads, failures and crashes came since, unless a lock was lost; and   *)
(* the lock has one holder.                                                *)
UploadsKept == Ingestion!TypeOK /\ Ingestion!HandedIsStored

(* Nobody destroys another's files: a committed record leaves books/ only  *)
(* when the run that put it there rolls back, never once it was handed     *)
(* out, and an output only when the run that placed it does.               *)
FilesStand == OthersStand /\ Ingestion!CommittedStands

(* Every export and every ingest ends, whatever races it loses and whoever *)
(* is wedged or dies; and what an interrupted commit left behind is        *)
(* committed or cleared away by later uploads.                             *)
EverythingEnds == EveryRunEnds /\ Ingestion!EveryIngestAnswers /\ Ingestion!NoLimbo
=============================================================================
