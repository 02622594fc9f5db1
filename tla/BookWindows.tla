----------------------------- MODULE BookWindows -----------------------------
(***************************************************************************)
(* Slices of a book: the bounds a run may state, the canonical descriptor  *)
(* that stands for them in the identity of the extractor, in the ID of the *)
(* book and in the job IDs of the web, and the chapters and passages that  *)
(* are kept.                                                               *)
(*                                                                         *)
(* Bounds are a function of those of the names firstChapter, maxChapters   *)
(* and maxPassagesPerChapter that are stated.  Chapters are named          *)
(* by their position in the whole book and passages counted from the first.*)
(***************************************************************************)
EXTENDS Integers, Sequences, FiniteSetsExt, Functions

CONSTANT Shape      \* passages in each chapter of the book as extracted

Unbounded == [name \in {} |-> 0]

ValidBounds(limits) == \A name \in DOMAIN limits : limits[name] >= 1

Stated(limits, name, otherwise) ==
  IF name \in DOMAIN limits THEN limits[name] ELSE otherwise

\* canonicalSliceDescriptor: a first chapter of one is no bound
CanonicalSliceDescriptor(limits) ==
  Restrict(limits, IF Stated(limits, "firstChapter", 1) = 1
                   THEN DOMAIN limits \ {"firstChapter"}
                   ELSE DOMAIN limits)

FirstKept(limits) == Stated(limits, "firstChapter", 1)

PastTheEnd(limits) == FirstKept(limits) > Len(Shape)

\* The chapters kept, each with the number of passages kept of it
Window(limits) ==
  LET last == FirstKept(limits) + Stated(limits, "maxChapters", Len(Shape)) - 1
  IN [c \in FirstKept(limits)..Min({last, Len(Shape)}) |->
        Min({Shape[c], Stated(limits, "maxPassagesPerChapter", Shape[c])})]

WholeBook == [c \in 1..Len(Shape) |-> Shape[c]]

\* The book ID: that of the whole book where nothing is cut off or renumbered
WindowedBookId(limits) ==
  IF Window(limits) = WholeBook THEN Unbounded ELSE CanonicalSliceDescriptor(limits)

\* deriveJobId of the web, one upload being looked at
DeriveJobId(limits) == CanonicalSliceDescriptor(limits)

\* parseJobId accepts what deriveJobId mints
Parsable(jobId) == ValidBounds(jobId) /\ CanonicalSliceDescriptor(jobId) = jobId
=============================================================================
