-------------------------- MODULE DirectionProofs ----------------------------
(***************************************************************************)
(* Proofs about Direction, for any number of processes, jobs and chapters, *)
(* any scripts a director may return, and any number of crashes, failures, *)
(* lost writes and stops; about the calls of the two directors it asks,    *)
(* for chapters of any length, any budgets and any limits; and about the   *)
(* batches of the speech engine, for any segments, identities and orders.  *)
(***************************************************************************)
EXTENDS AdapterCalls, AudiobookJobProofs, FiniteSetTheorems, WellFoundedInduction, TLAPS

\* What the code's values are
DirectionAssumption ==
  /\ NumChapters \in Nat \ {0} /\ PassagesEach \in Nat \ {0} /\ MaxFaults \in Nat
  /\ Chapters \subseteq Warned
  /\ "absent" \notin Scripts /\ "draft" \notin Scripts
  /\ BookOf \in [JobIds -> Books] /\ NoJob \notin JobIds

\* What extraction does not ensure (see DirectionSameBook.cfg): no two jobs derive one book
OwnBook == \A i, k \in JobIds : BookOf[i] = BookOf[k] => i = k

-----------------------------------------------------------------------------
(* Books                                                                   *)

(* Passages grow with chapters.                                            *)
LEMMA PassagesGrow ==
  ASSUME DirectionAssumption, NEW m \in Nat, NEW n \in Nat, m <= n
  PROVE  /\ PassagesEach * m \in Nat /\ PassagesEach * n \in Nat
         /\ PassagesEach * m <= PassagesEach * n
<1>1. PICK k \in Nat : n = m + k
  <2>1. n - m \in Nat /\ n = m + (n - m)
    OBVIOUS
  <2> QED
    BY <2>1
<1>2. PassagesEach \in Nat
  BY DEF DirectionAssumption
<1>3. PassagesEach * m \in Nat /\ PassagesEach * k \in Nat
  BY <1>2
<1>4. PassagesEach * n = PassagesEach * m + PassagesEach * k
  BY <1>1, <1>2
<1> QED
  BY <1>3, <1>4

(* The approved chapters are counted.                                      *)
LEMMA DoneBounded ==
  ASSUME DirectionAssumption, NEW book
  PROVE  /\ Done(book) \in 0..NumChapters /\ Approved(book) \subseteq Chapters
         /\ Done(book) = NumChapters => Approved(book) = Chapters
         /\ Approved(book) = Chapters => Done(book) = NumChapters
<1>1. IsFiniteSet(Chapters) /\ Cardinality(Chapters) = NumChapters
  BY FS_Interval DEF Chapters, DirectionAssumption
<1>2. Approved(book) \subseteq Chapters
  BY DEF Approved
<1>3. /\ IsFiniteSet(Approved(book)) /\ Cardinality(Approved(book)) <= NumChapters
      /\ Cardinality(Approved(book)) = NumChapters => Approved(book) = Chapters
  BY <1>1, <1>2, FS_Subset
<1>4. Cardinality(Approved(book)) \in Nat
  BY <1>3, FS_CardinalityType
<1> QED
  BY <1>1, <1>2, <1>3, <1>4 DEF Done, DirectionAssumption

(* A book of which so many first chapters are approved has that many done. *)
LEMMA DoneFirst ==
  ASSUME NEW n \in Nat, NEW book, Approved(book) = 1..n
  PROVE  Done(book) = n /\ InOrder(book)
<1>1. Cardinality(1..n) = n
  BY FS_Interval
<1> QED
  BY <1>1 DEF Done, InOrder

(* Nothing is approved of a book that is not there or only extracted.      *)
LEMMA NothingDone ==
  ASSUME DirectionAssumption
  PROVE  /\ Absent \in BookStates /\ Extracted \in BookStates
         /\ Approved(Absent) = {} /\ Approved(Extracted) = {}
         /\ Done(Absent) = 0 /\ Done(Extracted) = 0 /\ InOrder(Absent) /\ InOrder(Extracted)
         /\ Extracted # Absent
<1>1. Absent \in BookStates /\ Extracted \in BookStates
  BY DEF Absent, Extracted, BookStates
<1>2. Approved(Absent) = {} /\ Approved(Extracted) = {}
  BY DEF Absent, Extracted, Approved, DirectionAssumption
<1>3. 1..0 = {}
  OBVIOUS
<1>4. Extracted # Absent
  <2>1. 1 \in Chapters
    BY DEF Chapters, DirectionAssumption
  <2>2. Extracted[1] # Absent[1]
    BY <2>1 DEF Extracted, Absent
  <2> QED
    BY <2>2
<1> QED
  BY <1>1, <1>2, <1>3, <1>4, DoneFirst

(* Where no chapter is approved none is done.                              *)
LEMMA DoneNone ==
  ASSUME NEW book, Approved(book) = {}
  PROVE  Done(book) = 0
<1>1. 1..0 = {}
  OBVIOUS
<1> QED
  BY <1>1, DoneFirst

(* A chapter that is not approved follows on those that are.               *)
LEMMA NextOne ==
  ASSUME DirectionAssumption, NEW book, InOrder(book),
         NEW n \in Chapters \ Approved(book), 1..(n - 1) \subseteq Approved(book)
  PROVE  n \in Nat \ {0} /\ n <= NumChapters /\ Done(book) = n - 1
<1>1. n \in Nat /\ n >= 1 /\ Done(book) \in Nat /\ n <= NumChapters
  BY DoneBounded DEF Chapters, DirectionAssumption
<1>2. Approved(book) = 1..Done(book)
  BY DEF InOrder
<1>3. ~(n <= Done(book))
  BY <1>1, <1>2
<1>4. n = 1 \/ n - 1 \in 1..(n - 1)
  BY <1>1
<1>5. n = 1 \/ n - 1 <= Done(book)
  BY <1>1, <1>2, <1>4
<1> QED
  BY <1>1, <1>3, <1>5

(* The chapter that is directed after all that are approved is one more.   *)
LEMMA DoneNext ==
  ASSUME DirectionAssumption, NEW book \in BookStates, InOrder(book),
         NEW n \in Chapters \ Approved(book), 1..(n - 1) \subseteq Approved(book),
         NEW script \in Scripts, NEW more, more = [book EXCEPT ![n] = script]
  PROVE  /\ more \in BookStates /\ InOrder(more) /\ Done(more) = n /\ Done(book) = n - 1
         /\ Approved(more) = 1..n
<1>1. n \in Nat /\ n >= 1 /\ Done(book) \in Nat /\ n <= NumChapters
  BY DoneBounded DEF Chapters, DirectionAssumption
<1>2. Approved(book) = 1..Done(book)
  BY DEF InOrder
<1>3. Done(book) = n - 1
  BY NextOne
<1>4. more \in BookStates /\ \A c \in Chapters : more[c] = IF c = n THEN script ELSE book[c]
  BY DEF BookStates
<1>5. Approved(more) = Approved(book) \cup {n}
  BY <1>4 DEF Approved
<1>6. Approved(more) = 1..n
  <2>1. Approved(book) = 1..(n - 1)
    BY <1>2, <1>3
  <2>2. \A c : c \in 1..n <=> c \in 1..(n - 1) \/ c = n
    BY <1>1
  <2> QED
    BY <1>5, <2>1, <2>2, Zenon
<1> QED
  BY <1>1, <1>3, <1>4, <1>6, DoneFirst

-----------------------------------------------------------------------------
(* The commands of stage A                                                 *)

(* A job bound to its inputs waits to be started.                          *)
LEMMA CreatedA ==
  ASSUME DirectionAssumption, NEW b, NEW c \in Digests
  PROVE  /\ StageA(BindCommand(NewJob, c), b)
         /\ BindCommand(NewJob, c).state = "pending"
         /\ BindCommand(NewJob, c).stage = "extracting"
<1>1. BindCommand(NewJob, c) \in Jobs
  BY ConstructorTyped, BindingsTyped
<1> QED
  BY <1>1, NullsAssumption DEF BindCommand, NewJob, StageA

(* A started job extracts.                                                 *)
LEMMA StartedA ==
  ASSUME NEW b, NEW j, StageA(j, b), j.state = "pending",
         NEW k, k = BindRenderContract(Start(j), j.command)
  PROVE  StageA(k, b) /\ k.state = "running" /\ k.stage = "extracting"
<1>1. j \in Jobs /\ j.command \in Digests
  BY DEF StageA, Jobs
<1>2. k \in Jobs
  BY <1>1, CommandsTyped, BindingsTyped
<1>3. /\ k.command = j.command /\ k.revision = j.revision /\ k.done = j.done /\ k.total = j.total
      /\ k.state = "running" /\ k.stage = j.stage /\ k.book = j.book /\ k.msg = "progress"
      /\ k.direction = j.direction /\ k.onChapter = FALSE /\ k.warnings = j.warnings
      /\ k.error = j.error
  BY <1>1 DEF Jobs, BindRenderContract, Start, Reported
<1> QED
  BY <1>2, <1>3 DEF StageA

(* An abandoned job keeps what it knows of the book.                       *)
LEMMA AbandonedA ==
  ASSUME NEW b, NEW j, StageA(j, b), j.state = "running"
  PROVE  /\ StageA(MarkAbandoned(j), b)
         /\ MarkAbandoned(j).state = "abandoned" /\ MarkAbandoned(j).stage = j.stage
         /\ MarkAbandoned(j).direction = j.direction
<1>1. j \in Jobs
  BY DEF StageA
<1> DEFINE k == MarkAbandoned(j)
<1>2. k \in Jobs
  BY <1>1, CommandsTyped
<1>3. /\ k.command = j.command /\ k.revision = j.revision /\ k.done = j.done /\ k.total = j.total
      /\ k.state = "abandoned" /\ k.stage = j.stage /\ k.book = j.book /\ k.msg = "abandoned"
      /\ k.direction = j.direction /\ k.onChapter = j.onChapter
      /\ k.warnings = j.warnings /\ k.error = j.error
  BY <1>1 DEF Jobs, MarkAbandoned
<1> HIDE DEF k
<1>4. StageA(k, b)
  BY <1>2, <1>3 DEF StageA
<1> QED
  BY <1>3, <1>4 DEF k

(* ... and so does a failed one.                                           *)
LEMMA FailedA ==
  ASSUME NEW b, NEW j, StageA(j, b), j.state = "running"
  PROVE  /\ StageA(Fail(j), b)
         /\ Fail(j).state = "failed" /\ Fail(j).stage = j.stage
         /\ Fail(j).direction = j.direction
<1>1. j \in Jobs
  BY DEF StageA
<1> DEFINE k == Fail(j)
<1>2. k \in Jobs
  BY <1>1, CommandsTyped
<1>3. /\ k.command = j.command /\ k.revision = j.revision /\ k.done = j.done /\ k.total = j.total
      /\ k.state = "failed" /\ k.stage = j.stage /\ k.book = j.book /\ k.msg = "error"
      /\ k.direction = j.direction /\ k.onChapter = j.onChapter
      /\ k.warnings = j.warnings /\ k.error = TRUE
  BY <1>1 DEF Jobs, Fail
<1> HIDE DEF k
<1>4. StageA(k, b)
  BY <1>2, <1>3 DEF StageA
<1> QED
  BY <1>3, <1>4 DEF k

(* A resumed extraction starts over.                                       *)
LEMMA ExtractingA ==
  ASSUME NEW b, NEW j, StageA(j, b), Interrupted(j), j.stage = "extracting",
         NEW k, k = BindRenderContract(ResumeExtracting(j), j.command)
  PROVE  StageA(k, b) /\ k.state = "running" /\ k.stage = "extracting"
<1>1. j \in Jobs /\ j.command \in Digests
  BY DEF StageA, Jobs
<1>2. k \in Jobs
  BY <1>1, CommandsTyped, BindingsTyped
<1>3. /\ k.command = j.command /\ k.revision = NoRevision /\ k.done = 0 /\ k.total = 0
      /\ k.state = "running" /\ k.stage = j.stage /\ k.book = j.book /\ k.msg = "progress"
      /\ k.direction = NoDirection /\ k.onChapter = FALSE /\ k.warnings = {}
      /\ k.error = FALSE
  BY <1>1 DEF Jobs, BindRenderContract, ResumeExtracting, Retaken
<1> QED
  BY <1>2, <1>3 DEF StageA

(* A resumed direction counts the book.                                    *)
LEMMA DirectingA ==
  ASSUME DirectionAssumption, NEW b, NEW j, StageA(j, b), Interrupted(j), j.stage = "directing",
         NEW book \in BookStates,
         NEW k, k = BindRenderContract(ResumeDirecting(j, Checkpoint(book)), j.command)
  PROVE  /\ StageA(k, b) /\ k.state = "running" /\ k.stage = "directing"
         /\ k.direction.chapters = Done(book) /\ k.warnings = {}
<1>1. j \in Jobs /\ j.command \in Digests
  BY DEF StageA, Jobs
<1> DEFINE d == Checkpoint(book)
           N == PassagesEach * NumChapters
           p == PassagesEach * Done(book)
<1>2. Done(book) \in Nat /\ Done(book) <= NumChapters /\ NumChapters \in Nat
  BY DoneBounded DEF DirectionAssumption
<1>3. p \in Nat /\ N \in Nat /\ p <= N
  BY <1>2, PassagesGrow
<1>4. d = [chapters |-> Done(book), ofChapters |-> NumChapters, passages |-> p, ofPassages |-> N]
  BY DEF Checkpoint, Done
<1>5. d \in Directions
  BY <1>2, <1>3, <1>4 DEF Directions
<1>6. k \in Jobs
  BY <1>1, <1>5, ResumeDirectingTyped, BindingsTyped
<1>7. /\ k.command = j.command /\ k.revision = NoRevision /\ k.done = 0 /\ k.total = 0
      /\ k.state = "running" /\ k.stage = j.stage /\ k.book = j.book /\ k.msg = "progress"
      /\ k.direction = d /\ k.onChapter = FALSE /\ k.warnings = {}
      /\ k.error = FALSE
  BY <1>1 DEF Jobs, BindRenderContract, ResumeDirecting, Retaken
<1>8. d.chapters = Done(book) /\ d.ofChapters = NumChapters /\ d.passages = p /\ d.ofPassages = N
  BY <1>4
<1> HIDE DEF d, p
<1> QED
  BY <1>1, <1>2, <1>3, <1>6, <1>7, <1>8 DEF StageA

(* Extraction attaches the book.                                           *)
LEMMA AttachedA ==
  ASSUME NEW b \in Books, NEW j, StageA(j, b), j.state = "running", j.stage = "extracting"
  PROVE  /\ StageA(AttachBook(j, b), b)
         /\ AttachBook(j, b).state = "running" /\ AttachBook(j, b).stage = "extracting"
         /\ AttachBook(j, b).book = b
<1> DEFINE k == AttachBook(j, b)
<1>1. j \in Jobs
  BY DEF StageA
<1>2. k \in Jobs
  BY <1>1, AttachBookTyped
<1>3. /\ k.command = j.command /\ k.revision = j.revision /\ k.done = j.done /\ k.total = j.total
      /\ k.state = j.state /\ k.stage = j.stage /\ k.book = b /\ k.msg = j.msg
      /\ k.direction = j.direction /\ k.onChapter = j.onChapter /\ k.warnings = j.warnings
      /\ k.error = j.error
  BY <1>1 DEF Jobs, AttachBook
<1> HIDE DEF k
<1> QED
  <2>1. StageA(k, b) /\ k.state = "running" /\ k.stage = "extracting" /\ k.book = b
    BY <1>2, <1>3 DEF StageA
  <2> QED
    BY <2>1 DEF k

(* Direction begins with the totals of the book.                           *)
LEMMA BegunA ==
  ASSUME DirectionAssumption, NEW b, NEW j, StageA(j, b),
         j.state = "running", j.stage = "extracting", j.book = b,
         NEW k, k = BeginDirection(j, NumChapters, PassagesEach * NumChapters)
  PROVE  /\ StageA(k, b) /\ k.state = "running" /\ k.stage = "directing"
         /\ k.direction.chapters = 0 /\ k.warnings = {}
<1> DEFINE N == PassagesEach * NumChapters
           d == [chapters |-> 0, ofChapters |-> NumChapters, passages |-> 0, ofPassages |-> N]
<1>1. j \in Jobs
  BY DEF StageA
<1>2. NumChapters \in Nat /\ N \in Nat
  BY DEF DirectionAssumption
<1>3. k \in Jobs
  BY <1>1, <1>2, NumbersTyped
<1> HIDE DEF N
<1>4. k = [AdvanceTo(j, "directing") EXCEPT !.direction = d]
  BY DEF BeginDirection, N
<1>5. /\ d.chapters = 0 /\ d.ofChapters = NumChapters /\ d.passages = 0 /\ d.ofPassages = N
  OBVIOUS
<1> HIDE DEF d
<1>6. /\ k.command = j.command /\ k.revision = j.revision /\ k.done = j.done /\ k.total = j.total
      /\ k.state = j.state /\ k.stage = "directing" /\ k.book = j.book /\ k.msg = "progress"
      /\ k.direction = d /\ k.onChapter = FALSE /\ k.warnings = j.warnings
      /\ k.error = j.error
  BY <1>1, <1>4 DEF Jobs, AdvanceTo, Reported
<1> QED
  BY <1>2, <1>3, <1>5, <1>6 DEF StageA, N

(* A warning changes the warnings only.                                    *)
LEMMA WarnedA ==
  ASSUME DirectionAssumption, NEW b, NEW j, StageA(j, b),
         j.state = "running", j.stage = "directing", NEW s \in Warned
  PROVE  /\ StageA(AddFallbackWarning(j, s), b)
         /\ AddFallbackWarning(j, s).state = "running"
         /\ AddFallbackWarning(j, s).stage = "directing"
         /\ AddFallbackWarning(j, s).direction = j.direction
         /\ AddFallbackWarning(j, s).warnings = j.warnings \cup {s}
<1> DEFINE k == AddFallbackWarning(j, s)
<1>1. j \in Jobs
  BY DEF StageA
<1>2. k \in Jobs
  BY <1>1, AddFallbackWarningTyped
<1>3. /\ k.command = j.command /\ k.revision = j.revision /\ k.done = j.done /\ k.total = j.total
      /\ k.state = j.state /\ k.stage = j.stage /\ k.book = j.book /\ k.msg = j.msg
      /\ k.direction = j.direction /\ k.onChapter = j.onChapter
      /\ k.warnings = j.warnings \cup {s} /\ k.error = j.error
  BY <1>1 DEF Jobs, AddFallbackWarning
<1> HIDE DEF k
<1>4. StageA(k, b)
  BY <1>2, <1>3 DEF StageA
<1> QED
  BY <1>3, <1>4 DEF k

(* Progress changes the counts only.                                       *)
LEMMA ProgressA ==
  ASSUME DirectionAssumption, NEW b, NEW j, StageA(j, b),
         j.state = "running", j.stage = "directing",
         NEW m \in 0..NumChapters, NEW n \in 0..(PassagesEach * NumChapters)
  PROVE  /\ StageA(RecordDirectionProgress(j, m, n), b)
         /\ RecordDirectionProgress(j, m, n) \in Jobs
         /\ RecordDirectionProgress(j, m, n).state = "running"
         /\ RecordDirectionProgress(j, m, n).stage = "directing"
         /\ RecordDirectionProgress(j, m, n).direction.chapters = m
         /\ RecordDirectionProgress(j, m, n).warnings = j.warnings
<1> DEFINE k == RecordDirectionProgress(j, m, n)
           N == PassagesEach * NumChapters
<1>1. j \in Jobs
  BY DEF StageA
<1>2. m \in Nat /\ m <= NumChapters /\ N \in Nat /\ n \in Nat /\ n <= N
  BY DEF DirectionAssumption
<1>3. k \in Jobs
  BY <1>1, <1>2, NumbersTyped
<1>4. /\ k.command = j.command /\ k.revision = j.revision /\ k.done = j.done /\ k.total = j.total
      /\ k.state = j.state /\ k.stage = j.stage /\ k.book = j.book /\ k.msg = "progress"
      /\ k.warnings = j.warnings /\ k.error = j.error
      /\ k.direction.chapters = m /\ k.direction.passages = n
      /\ k.direction.ofChapters = j.direction.ofChapters
      /\ k.direction.ofPassages = j.direction.ofPassages
  BY <1>1 DEF Jobs, Directions, RecordDirectionProgress
<1> HIDE DEF k
<1>5. StageA(k, b)
  BY <1>2, <1>3, <1>4 DEF StageA
<1> QED
  BY <1>3, <1>4, <1>5 DEF k

(* A job put to review has counted everything.                             *)
LEMMA ReviewA ==
  ASSUME DirectionAssumption, NEW b, NEW j, StageA(j, b), CanAwaitReview(j)
  PROVE  /\ StageA(AwaitReview(j), b)
         /\ AwaitReview(j).state = "awaiting_review" /\ AwaitReview(j).stage = "directing"
         /\ AwaitReview(j).warnings = j.warnings
         /\ AwaitReview(j).direction = j.direction
<1> DEFINE k == AwaitReview(j)
<1>1. j \in Jobs /\ j.stage = "directing" /\ Directed(j.direction) /\ j.state = "running"
  BY DEF StageA, CanAwaitReview
<1>2. k \in Jobs
  BY <1>1, CommandsTyped
<1>3. /\ k.command = j.command /\ k.revision = j.revision /\ k.done = j.done /\ k.total = j.total
      /\ k.state = "awaiting_review" /\ k.stage = j.stage /\ k.book = j.book /\ k.msg = "review"
      /\ k.direction = j.direction /\ k.onChapter = FALSE
      /\ k.warnings = j.warnings /\ k.error = j.error
  BY <1>1 DEF Jobs, AwaitReview
<1> HIDE DEF k
<1>4. StageA(k, b)
  BY <1>1, <1>2, <1>3 DEF StageA
<1> QED
  BY <1>1, <1>3, <1>4 DEF k

(* A row of stage A can be opened again.                                   *)
LEMMA AcceptedA ==
  ASSUME DirectionAssumption, NEW b \in Books, NEW j, StageA(j, b)
  PROVE  SnapshotAccepted(j)
<1> DEFINE N == PassagesEach * NumChapters
<1>1. j \in Jobs /\ b # NoBook /\ NumChapters \in Nat \ {0}
  BY NullsAssumption DEF StageA, DirectionAssumption
<1>2. NumChapters <= N /\ N \in Nat
  <2>1. PICK k \in Nat : PassagesEach = 1 + k
    <3>1. PassagesEach - 1 \in Nat /\ PassagesEach = 1 + (PassagesEach - 1)
      BY DEF DirectionAssumption
    <3> QED
      BY <3>1
  <2>2. N = NumChapters + k * NumChapters /\ k * NumChapters \in Nat
    BY <1>1, <2>1
  <2> QED
    BY <1>1, <2>2
<1>3. j.stage = "directing" =>
        /\ j.book = b /\ j.direction.ofChapters = NumChapters /\ j.direction.ofPassages = N
        /\ j.direction.chapters <= NumChapters /\ j.direction.passages <= N
  BY DEF StageA
<1> HIDE DEF N
<1>4. j.direction # NoDirection => ValidDirection(j.direction)
  <2>1. CASE j.stage = "directing"
    BY <1>1, <1>2, <1>3, <2>1 DEF ValidDirection, ValidTotals
  <2>2. CASE j.stage # "directing"
    BY <2>2 DEF StageA
  <2> QED
    BY <2>1, <2>2
<1>5. HeaderAccepted(j)
  BY <1>1, <1>4 DEF HeaderAccepted, StageA
<1>6. WarningsAccepted(j)
  BY <1>1 DEF WarningsAccepted, StageA
<1>7. LifecycleAccepted(j)
  <2>1. j.state = "pending" => PendingAccepted(j)
    BY DEF StageA, PendingAccepted
  <2>2. j.state = "awaiting_review" => AwaitingReviewAccepted(j)
    BY <1>1, <1>3 DEF StageA, AwaitingReviewAccepted
  <2>3. StageAccepted(j)
    BY <1>1, <1>3 DEF StageA, StageAccepted
  <2> QED
    BY <2>1, <2>2, <2>3, LifecycleByState DEF StageA
<1> QED
  BY <1>5, <1>6, <1>7 DEF SnapshotAccepted

(* No record of a job is the missing row.                                  *)
LEMMA NoRowIsNone ==
  /\ NoRow \notin Jobs /\ NoRow.state = "absent" /\ NoRow.stage = "extracting"
  /\ NoRow.direction.chapters = 0 /\ NoRow.direction = NoDirection
<1>1. NoRow.state = "absent" /\ NoRow.stage = "extracting" /\ NoRow.direction = NoDirection
  BY DEF NoRow, NewJob
<1>2. NoDirection.chapters = 0
  BY DEF NoDirection
<1> QED
  BY <1>1, <1>2 DEF Jobs, States

-----------------------------------------------------------------------------
(* Rows, books and runs                                                    *)

(* The values of the variables where the invariant holds.                  *)
LEMMA Values ==
  ASSUME DirectionAssumption, DirectionInv, NEW w \in Workers, run[w] # NoRun,
         NEW i, i = run[w].id, NEW b, b = BookOf[i]
  PROVE  /\ i \in JobIds /\ b \in Books /\ run[w] \in Runs
         /\ RunOK(run[w], rows[i], books[b]) /\ RowOK(rows[i], b, books[b])
         /\ rows[i] \in Jobs \cup {NoRow} /\ books[b] \in BookStates
<1>1. RunOK(run[w], rows[i], books[b])
  BY DEF DirectionInv
<1>2. run[w] \in Runs /\ i \in JobIds
  BY <1>1 DEF RunOK, Runs
<1>3. b \in Books
  BY <1>2 DEF DirectionAssumption
<1> QED
  BY <1>1, <1>2, <1>3 DEF DirectionInv

(* Only the run of w moves.                                                *)
Only(w) == run' = [v \in Workers |-> run'[v]] /\ \A v \in Workers \ {w} : run'[v] = run[v]

(* What a run does to its row and its book concerns no other run and no    *)
(* confirmation, where every job has a book of its own.                    *)
LEMMA MoveKeeps ==
  ASSUME DirectionAssumption, OwnBook, DirectionInv,
         NEW w \in Workers, run[w] # NoRun, NEW i, i = run[w].id, NEW b, b = BookOf[i],
         rows' \in [JobIds -> Jobs \cup {NoRow}], \A k \in JobIds \ {i} : rows'[k] = rows[k],
         books' \in [Books -> BookStates], \A c \in Books \ {b} : books'[c] = books[c],
         Only(w), confirmed' = confirmed, stopping' \subseteq Workers, faults' \in 0..MaxFaults,
         RowOK(rows'[i], b, books'[b]),
         run'[w] = NoRun \/ (RunOK(run'[w], rows'[i], books'[b]) /\ run'[w].id = i)
  PROVE  DirectionInv'
<1>1. /\ i \in JobIds /\ b \in Books /\ run[w] \in Runs /\ RunOK(run[w], rows[i], books[b])
  BY Values
<1>2. rows \in [JobIds -> Jobs \cup {NoRow}] /\ books \in [Books -> BookStates]
      /\ run \in [Workers -> Runs \cup {NoRun}]
  BY SMTT(30) DEF DirectionInv
<1>3. run'[w] \in Runs \cup {NoRun}
  BY DEF RunOK
<1>6. run' \in [Workers -> Runs \cup {NoRun}] /\ \A v \in Workers \ {w} : run'[v] = run[v]
  BY <1>2, <1>3 DEF Only
<1>7. \A k \in JobIds \ {i} : BookOf[k] \in Books \ {b}
  BY <1>1 DEF OwnBook, DirectionAssumption
<1>8. ASSUME NEW k \in JobIds
      PROVE  RowOK(rows'[k], BookOf[k], books'[BookOf[k]])
  <2>1. CASE k = i
    BY <2>1
  <2>2. CASE k # i
    <3>1. rows'[k] = rows[k] /\ books'[BookOf[k]] = books[BookOf[k]]
      BY <2>2, <1>7
    <3> QED
      BY <3>1 DEF DirectionInv
  <2> QED
    BY <2>1, <2>2
<1>9. ASSUME NEW v \in Workers \ {w}, run[v] # NoRun
      PROVE  run[v].id \in JobIds \ {i}
  <2>1. run[v].id \in JobIds
    BY <1>2, <1>9 DEF Runs
  <2>2. run[v].id # i
    BY <1>9 DEF DirectionInv
  <2> QED
    BY <2>1, <2>2
<1>10. ASSUME NEW v \in Workers
       PROVE  run'[v] = NoRun \/ RunOK(run'[v], rows'[run'[v].id], books'[BookOf[run'[v].id]])
  <2>1. CASE v = w
    BY <2>1, <1>6
  <2>2. CASE v # w /\ run[v] = NoRun
    BY <2>2, <1>6
  <2>3. CASE v # w /\ run[v] # NoRun
    <3>1. run[v].id \in JobIds \ {i} /\ run'[v] = run[v]
      BY <2>3, <1>6, <1>9
    <3>2. rows'[run[v].id] = rows[run[v].id] /\ books'[BookOf[run[v].id]] = books[BookOf[run[v].id]]
      BY <3>1, <1>7
    <3>3. RunOK(run[v], rows[run[v].id], books[BookOf[run[v].id]])
      BY <2>3 DEF DirectionInv
    <3> QED
      BY <3>1, <3>2, <3>3
  <2> QED
    BY <2>1, <2>2, <2>3
<1>11. ASSUME NEW v \in Workers, NEW u \in Workers, run'[v].id = run'[u].id, run'[v] # NoRun
       PROVE  v = u
  <2>1. CASE v # w /\ u # w
    BY <2>1, <1>6, <1>11 DEF DirectionInv
  <2>2. CASE v = w /\ u # w
    <3>1. run'[v].id = i
      BY <2>2, <1>6, <1>11
    <3>2. run[u] # NoRun
      BY <3>1, <2>2, <1>1, <1>6, <1>11 DEF NoRun, DirectionAssumption
    <3> QED
      BY <3>1, <3>2, <2>2, <1>6, <1>9, <1>11
  <2>3. CASE v # w /\ u = w
    <3>1. run[v] # NoRun /\ run[v].id \in JobIds \ {i}
      BY <2>3, <1>6, <1>9, <1>11
    <3>2. run'[w].id = run[v].id
      BY <2>3, <1>6, <1>11
    <3> QED
      BY <3>1, <3>2 DEF NoRun, DirectionAssumption
  <2> QED
    BY <2>1, <2>2, <2>3
<1>12. ASSUME NEW p \in confirmed
       PROVE  rows'[p[1]].state = "awaiting_review" /\ books'[BookOf[p[1]]] = p[2]
  <2>1. p \in JobIds \X BookStates /\ rows[p[1]].state = "awaiting_review"
        /\ books[BookOf[p[1]]] = p[2]
    BY <1>12, SMTT(30) DEF DirectionInv
  <2>2. p[1] \in JobIds \ {i}
    BY <2>1, <1>1 DEF RunOK
  <2> QED
    BY <2>1, <2>2, <1>7
<1>13. confirmed' \subseteq JobIds \X BookStates
  BY DEF DirectionInv
<1> QED
  BY <1>6, <1>8, <1>10, <1>11, <1>12, <1>13 DEF DirectionInv

(* ... in particular what it does in memory only.                          *)
LEMMA RunKeeps ==
  ASSUME DirectionAssumption, OwnBook, DirectionInv,
         NEW w \in Workers, run[w] # NoRun, NEW i, i = run[w].id, NEW b, b = BookOf[i],
         Only(w), UNCHANGED <<rows, books, confirmed>>,
         stopping' \subseteq Workers, faults' \in 0..MaxFaults,
         run'[w] = NoRun \/ (RunOK(run'[w], rows[i], books[b]) /\ run'[w].id = i)
  PROVE  DirectionInv'
<1>1. RowOK(rows[i], b, books[b])
  BY Values
<1>2. rows \in [JobIds -> Jobs \cup {NoRow}] /\ books \in [Books -> BookStates]
  BY DEF DirectionInv
<1> QED
  BY <1>1, <1>2, MoveKeeps

(* A run taken up for a job that has none.                                 *)
LEMMA NewRunKeeps ==
  ASSUME DirectionAssumption, DirectionInv,
         NEW w \in Workers, NEW i \in JobIds, \A v \in Workers : run[v].id # i,
         Only(w), UNCHANGED <<rows, books, confirmed, stopping, faults>>,
         RunOK(run'[w], rows[i], books[BookOf[i]]), run'[w].id = i
  PROVE  DirectionInv'
<1>1. run \in [Workers -> Runs \cup {NoRun}] /\ run'[w] \in Runs
  BY DEF DirectionInv, RunOK
<1>2. run' \in [Workers -> Runs \cup {NoRun}] /\ \A v \in Workers \ {w} : run'[v] = run[v]
  BY <1>1 DEF Only
<1>3. ASSUME NEW v \in Workers
      PROVE  run'[v] = NoRun \/ RunOK(run'[v], rows'[run'[v].id], books'[BookOf[run'[v].id]])
  BY <1>2 DEF DirectionInv
<1>4. ASSUME NEW v \in Workers, NEW u \in Workers, run'[v].id = run'[u].id, run'[v] # NoRun
      PROVE  v = u
  BY <1>2, <1>4 DEF DirectionInv
<1> QED
  BY <1>2, <1>3, <1>4 DEF DirectionInv

(* A run that goes on keeps its job's ID, its book and its place in it.    *)
LEMMA GoesOn ==
  ASSUME DirectionInv, NEW w \in Workers, run[w] \in Runs, NEW pc, NEW j \in Jobs, Goes(w, pc, j)
  PROVE  /\ Only(w) /\ run'[w].pc = pc /\ run'[w].job = j /\ run'[w].id = run[w].id
         /\ run'[w].book = run[w].book /\ run'[w].at = run[w].at
         /\ pc \in Underway \cup {"reviewed", "failed", "abandoned", "start", "resume"}
              => run'[w] \in Runs
<1>1. run \in [Workers -> Runs \cup {NoRun}]
  BY DEF DirectionInv
<1>2. Only(w)
  BY <1>1 DEF Only, Goes
<1>3. /\ run'[w].pc = pc /\ run'[w].job = j /\ run'[w].id = run[w].id
      /\ run'[w].book = run[w].book /\ run'[w].at = run[w].at
  BY <1>1 DEF Runs, Goes
<1>4. ASSUME pc \in Underway \cup {"reviewed", "failed", "abandoned", "start", "resume"}
      PROVE  run'[w] \in Runs
  BY <1>1, <1>4 DEF Runs, Goes
<1> QED
  BY <1>2, <1>3, <1>4

(* A run that ends is no more.                                             *)
LEMMA EndsThere ==
  ASSUME DirectionInv, NEW w \in Workers, Ends(w)
  PROVE  Only(w) /\ run'[w] = NoRun
<1>1. run \in [Workers -> Runs \cup {NoRun}]
  BY DEF DirectionInv
<1> QED
  BY <1>1 DEF Only, Ends

(* What every step of a run starts from.                                   *)
LEMMA Stepping ==
  ASSUME DirectionAssumption, DirectionInv, NEW w \in Workers, run[w].pc # "idle"
  PROVE  /\ run[w] # NoRun /\ run[w] \in Runs
         /\ run[w].id \in JobIds /\ BookOf[run[w].id] \in Books
         /\ run[w].job \in Jobs /\ run[w].book \in BookStates
         /\ run[w].at \in 1..(NumChapters + 1) /\ run[w].at \in Nat
         /\ RunOK(run[w], rows[run[w].id], books[BookOf[run[w].id]])
         /\ RowOK(rows[run[w].id], BookOf[run[w].id], books[BookOf[run[w].id]])
         /\ StageA(run[w].job, BookOf[run[w].id])
         /\ stopping \subseteq Workers /\ faults \in 0..MaxFaults /\ MaxFaults \in Nat
<1>1. run[w] # NoRun
  BY DEF NoRun
<1>2. /\ run[w] \in Runs /\ run[w].id \in JobIds /\ BookOf[run[w].id] \in Books
      /\ RunOK(run[w], rows[run[w].id], books[BookOf[run[w].id]])
      /\ RowOK(rows[run[w].id], BookOf[run[w].id], books[BookOf[run[w].id]])
  BY <1>1, Values
<1>3. NumChapters \in Nat /\ MaxFaults \in Nat
  BY DEF DirectionAssumption
<1>4. /\ run[w].job \in Jobs /\ run[w].book \in BookStates
      /\ run[w].at \in 1..(NumChapters + 1) /\ run[w].at \in Nat
  BY <1>2, <1>3, SMTT(30) DEF Runs
<1>5. StageA(run[w].job, BookOf[run[w].id])
  BY <1>2 DEF RunOK
<1>6. stopping \subseteq Workers /\ faults \in 0..MaxFaults
  BY DEF DirectionInv
<1> QED
  BY <1>1, <1>2, <1>3, <1>4, <1>5, <1>6

-----------------------------------------------------------------------------
(* The steps                                                               *)

LEMMA LoadOK ==
  ASSUME DirectionAssumption, DirectionInv, NEW w \in Workers, NEW id \in JobIds, NEW c \in Digests,
         Load(w, id, c)
  PROVE  DirectionInv'
<1> DEFINE b == BookOf[id]
<1>1. run[w] = NoRun
  <2>1. run[w] \in Runs \cup {NoRun} /\ run[w].pc = "idle"
    BY DEF Load, MayLoad, RunAt, DirectionInv
  <2> QED
    BY <2>1 DEF Runs, Underway
<1>2. run \in [Workers -> Runs \cup {NoRun}]
  BY DEF DirectionInv
<1>3. ASSUME NEW pc, NEW j,
             run' = [run EXCEPT ![w].id = id, ![w].pc = pc, ![w].job = j]
      PROVE  /\ Only(w) /\ run'[w].pc = pc /\ run'[w].job = j /\ run'[w].id = id
             /\ run'[w].book = Absent /\ run'[w].at = 1
             /\ pc \in {"created", "start", "orphaned", "resume"} /\ j \in Jobs => run'[w] \in Runs
  <2>1. Only(w)
    BY <1>2, <1>3 DEF Only
  <2>2. /\ run'[w].pc = pc /\ run'[w].job = j /\ run'[w].id = id
        /\ run'[w].book = Absent /\ run'[w].at = 1
    BY <1>1, <1>2, <1>3 DEF NoRun
  <2>3. Absent \in BookStates /\ 1 \in 1..(NumChapters + 1)
    BY NothingDone DEF DirectionAssumption
  <2>4. ASSUME pc \in {"created", "start", "orphaned", "resume"}, j \in Jobs
        PROVE  run'[w] \in Runs
    BY <1>1, <1>2, <1>3, <2>3, <2>4 DEF NoRun, Runs
  <2> QED
    BY <2>1, <2>2, <2>4
<1>4. /\ \A v \in Workers : run[v].id # id
      /\ UNCHANGED <<rows, books, confirmed, stopping, faults>>
  BY DEF Load, MayLoad, Stored
<1>5. /\ RowOK(rows[id], b, books[b]) /\ b \in Books /\ books[b] \in BookStates
  BY DEF DirectionInv, DirectionAssumption
<1>6. 1..(1 - 1) = {}
  OBVIOUS
<1>7. CASE rows[id] = NoRow
  <2> DEFINE j == BindCommand(NewJob, c)
  <2>1. StageA(j, b) /\ j.state = "pending" /\ j.stage = "extracting" /\ j \in Jobs
    BY CreatedA DEF StageA
  <2>2. rows[id].stage = "extracting" /\ rows[id].state = "absent"
    BY <1>7, NoRowIsNone
  <2>3. run' = [run EXCEPT ![w].id = id, ![w].pc = "created", ![w].job = j]
    BY <1>7 DEF Load
  <2> HIDE DEF j
  <2>4. /\ Only(w) /\ run'[w].pc = "created" /\ run'[w].job = j /\ run'[w].id = id
        /\ run'[w].book = Absent /\ run'[w].at = 1 /\ run'[w] \in Runs
    BY <1>3, <2>1, <2>3
  <2>5. RunOK(run'[w], rows[id], books[b])
    BY <2>1, <2>2, <2>4, <1>6, <1>7 DEF RunOK, Underway
  <2> QED
    BY <2>4, <2>5, <1>4, NewRunKeeps
<1>8. CASE rows[id] # NoRow
  <2>1. /\ StageA(rows[id], b) /\ rows[id] \in Jobs
        /\ rows[id].stage = "directing" => books[b] # Absent
    BY <1>5, <1>8 DEF RowOK, StageA
  <2>2. CASE rows[id].state = "pending" /\
             run' = [run EXCEPT ![w].id = id, ![w].pc = "start", ![w].job = rows[id]]
    <3>1. /\ Only(w) /\ run'[w].pc = "start" /\ run'[w].job = rows[id] /\ run'[w].id = id
          /\ run'[w].book = Absent /\ run'[w].at = 1 /\ run'[w] \in Runs
      BY <1>3, <2>1, <2>2
    <3>2. RunOK(run'[w], rows[id], books[b])
      BY <2>1, <2>2, <3>1, <1>6, <1>8 DEF RunOK, Underway
    <3> QED
      BY <3>1, <3>2, <1>4, NewRunKeeps
  <2>3. CASE rows[id].state = "running" /\
             run' = [run EXCEPT ![w].id = id, ![w].pc = "orphaned", ![w].job = MarkAbandoned(rows[id])]
    <3> DEFINE j == MarkAbandoned(rows[id])
    <3>1. StageA(j, b) /\ j.state = "abandoned" /\ j.stage = rows[id].stage /\ j \in Jobs
      BY <2>1, <2>3, AbandonedA DEF StageA
    <3>2. run' = [run EXCEPT ![w].id = id, ![w].pc = "orphaned", ![w].job = j]
      BY <2>3
    <3> HIDE DEF j
    <3>3. /\ Only(w) /\ run'[w].pc = "orphaned" /\ run'[w].job = j /\ run'[w].id = id
          /\ run'[w].book = Absent /\ run'[w].at = 1 /\ run'[w] \in Runs
      BY <1>3, <3>1, <3>2
    <3>4. RunOK(run'[w], rows[id], books[b])
      BY <2>1, <2>3, <3>1, <3>3, <1>6, <1>8 DEF RunOK, Underway
    <3> QED
      BY <3>3, <3>4, <1>4, NewRunKeeps
  <2>4. CASE Interrupted(rows[id]) /\
             run' = [run EXCEPT ![w].id = id, ![w].pc = "resume", ![w].job = rows[id]]
    <3>1. rows[id].state # "awaiting_review"
      BY <2>4 DEF Interrupted
    <3>2. /\ Only(w) /\ run'[w].pc = "resume" /\ run'[w].job = rows[id] /\ run'[w].id = id
          /\ run'[w].book = Absent /\ run'[w].at = 1 /\ run'[w] \in Runs
      BY <1>3, <2>1, <2>4
    <3>3. RunOK(run'[w], rows[id], books[b])
      BY <2>1, <2>4, <3>1, <3>2, <1>6, <1>8 DEF RunOK, Underway
    <3> QED
      BY <3>2, <3>3, <1>4, NewRunKeeps
  <2> QED
    BY <1>8, <2>2, <2>3, <2>4 DEF Load
<1> QED
  BY <1>7, <1>8

LEMMA StartJobOK ==
  ASSUME DirectionAssumption, OwnBook, DirectionInv, NEW w \in Workers, StartJob(w)
  PROVE  DirectionInv'
<1> DEFINE i == run[w].id
           b == BookOf[i]
           k == BindRenderContract(Start(run[w].job), run[w].job.command)
<1>1. /\ run[w].pc = "start" /\ Goes(w, "claimed", k)
      /\ UNCHANGED <<rows, books, confirmed, stopping, faults>>
  BY DEF StartJob, RunAt, Stored
<1>2. /\ run[w] # NoRun /\ run[w] \in Runs /\ i \in JobIds /\ StageA(run[w].job, b)
      /\ RunOK(run[w], rows[i], books[b])
      /\ stopping \subseteq Workers /\ faults \in 0..MaxFaults
  BY <1>1, Stepping
<1>3. run[w].job.state = "pending"
  BY <1>1, <1>2, SMTT(30) DEF RunOK
<1>4. StageA(k, b) /\ k.state = "running" /\ k.stage = "extracting" /\ k \in Jobs
      /\ run[w].job.stage = "extracting"
  BY <1>2, <1>3, StartedA DEF StageA
<1> HIDE DEF k
<1>5. /\ Only(w) /\ run'[w].pc = "claimed" /\ run'[w].job = k /\ run'[w].id = i
      /\ run'[w].book = run[w].book /\ run'[w].at = run[w].at
  BY <1>1, <1>2, <1>4, GoesOn
<1>6. run'[w] \in Runs
  BY <1>1, <1>2, <1>4, GoesOn DEF Underway
<1>7. RunOK(run'[w], rows[i], books[b])
  BY <1>1, <1>2, <1>4, <1>5, <1>6 DEF RunOK, Underway
<1> QED
  BY <1>1, <1>2, <1>5, <1>7, RunKeeps

LEMMA ResumeJobOK ==
  ASSUME DirectionAssumption, OwnBook, DirectionInv, NEW w \in Workers, ResumeJob(w)
  PROVE  DirectionInv'
<1> DEFINE i == run[w].id
           b == BookOf[i]
           j == run[w].job
<1>1. /\ run[w].pc = "resume"
      /\ UNCHANGED <<rows, books, confirmed, stopping, faults>>
  BY DEF ResumeJob, RunAt, Stored
<1>2. /\ run[w] # NoRun /\ run[w] \in Runs /\ i \in JobIds /\ StageA(j, b) /\ b \in Books
      /\ RunOK(run[w], rows[i], books[b]) /\ RowOK(rows[i], b, books[b])
      /\ stopping \subseteq Workers /\ faults \in 0..MaxFaults
  BY <1>1, Stepping
<1>3. Interrupted(j) /\ run[w].at = 1 /\ 1..(run[w].at - 1) = {}
  BY <1>1, <1>2 DEF RunOK
<1>4. CASE /\ CanResumeExtracting(j)
           /\ Goes(w, "claimed", BindRenderContract(ResumeExtracting(j), j.command))
  <2> DEFINE k == BindRenderContract(ResumeExtracting(j), j.command)
  <2>1. StageA(k, b) /\ k.state = "running" /\ k.stage = "extracting" /\ k \in Jobs
        /\ j.stage = "extracting" /\ Goes(w, "claimed", k)
    <3>1. StageA(j, b) /\ Interrupted(j) /\ j.stage = "extracting"
      BY <1>2, <1>3, <1>4 DEF CanResumeExtracting
    <3>2. StageA(k, b) /\ k.state = "running" /\ k.stage = "extracting"
      BY <3>1, ExtractingA
    <3> QED
      BY <3>1, <3>2, <1>4 DEF StageA
  <2> HIDE DEF k
  <2>2. /\ Only(w) /\ run'[w].pc = "claimed" /\ run'[w].job = k /\ run'[w].id = i
        /\ run'[w].book = run[w].book /\ run'[w].at = run[w].at
    BY <1>2, <2>1, GoesOn
  <2>3. run'[w] \in Runs
    BY <1>2, <2>1, GoesOn DEF Underway
  <2>4. RunOK(run'[w], rows[i], books[b])
    BY <1>1, <1>2, <2>1, <2>2, <2>3 DEF RunOK, Underway
  <2> QED
    BY <1>1, <1>2, <2>2, <2>4, RunKeeps, SMTT(30)
<1>5. CASE /\ j.stage = "directing" /\ books[j.book] # Absent
           /\ run' = [run EXCEPT ![w].pc = "claimed", ![w].book = books[j.book],
                ![w].job = BindRenderContract(ResumeDirecting(j, Checkpoint(books[j.book])), j.command)]
  <2> DEFINE k == BindRenderContract(ResumeDirecting(j, Checkpoint(books[b])), j.command)
  <2>1. j.book = b /\ books[b] \in BookStates
    BY <1>2, <1>5 DEF StageA, DirectionInv
  <2>2. /\ StageA(k, b) /\ k.state = "running" /\ k.stage = "directing"
        /\ k.direction.chapters = Done(books[b]) /\ k.warnings = {}
    <3>1. StageA(j, b) /\ Interrupted(j) /\ j.stage = "directing"
      BY <1>2, <1>3, <1>5
    <3> QED
      BY <2>1, <3>1, DirectingA
  <2>3. run' = [run EXCEPT ![w].pc = "claimed", ![w].book = books[b], ![w].job = k]
        /\ k \in Jobs
    BY <1>5, <2>1, <2>2 DEF StageA
  <2> HIDE DEF k
  <2>4. run \in [Workers -> Runs \cup {NoRun}]
    BY DEF DirectionInv
  <2>5. Only(w)
    BY <2>3, <2>4 DEF Only
  <2>6. /\ run'[w].pc = "claimed" /\ run'[w].job = k /\ run'[w].id = i
        /\ run'[w].book = books[b] /\ run'[w].at = run[w].at /\ run'[w] \in Runs
    BY <1>2, <2>1, <2>3, <2>4 DEF Runs, Underway
  <2>7. Abreast(run'[w], books[b])
    BY <1>3, <2>2, <2>6 DEF Abreast, Warnings
  <2>8. RunOK(run'[w], rows[i], books[b])
    BY <1>1, <1>2, <1>3, <1>5, <2>1, <2>2, <2>6, <2>7 DEF RunOK, Underway
  <2> QED
    BY <1>1, <1>2, <2>5, <2>6, <2>8, RunKeeps
<1> QED
  BY <1>4, <1>5 DEF ResumeJob

(* An error in the middle of a run.                                        *)
LEMMA ErringOK ==
  ASSUME DirectionAssumption, OwnBook, DirectionInv, NEW w \in Workers,
         run[w].pc \in Underway, Goes(w, "erring", run[w].job), UNCHANGED <<rows, books, confirmed>>,
         stopping' \subseteq Workers, faults' \in 0..MaxFaults
  PROVE  DirectionInv'
<1> DEFINE i == run[w].id
           b == BookOf[i]
<1>1. run[w].pc # "idle" /\ run[w].pc # "created" /\ "erring" \in Underway
  BY DEF Underway
<1>2. /\ run[w] # NoRun /\ run[w] \in Runs /\ i \in JobIds /\ run[w].job \in Jobs
      /\ RunOK(run[w], rows[i], books[b])
  BY <1>1, Stepping
<1>3. /\ Only(w) /\ run'[w].pc = "erring" /\ run'[w].job = run[w].job /\ run'[w].id = i
      /\ run'[w].book = run[w].book /\ run'[w].at = run[w].at /\ run'[w] \in Runs
  BY <1>1, <1>2, GoesOn
<1>4. RunOK(run'[w], rows[i], books[b])
  BY <1>1, <1>2, <1>3, SMTT(30) DEF RunOK
<1> QED
  BY <1>2, <1>3, <1>4, RunKeeps

LEMMA ExtractOK ==
  ASSUME DirectionAssumption, OwnBook, DirectionInv, NEW w \in Workers, Extract(w)
  PROVE  DirectionInv'
<1> DEFINE i == run[w].id
           b == BookOf[i]
           k == AttachBook(run[w].job, b)
<1>1. /\ run[w].pc = "extract"
      /\ run' = [run EXCEPT ![w].pc = "extracted", ![w].book = Extracted,
                            ![w].job = AttachBook(@, BookOf[run[w].id])]
      /\ UNCHANGED <<rows, books, confirmed, stopping, faults>>
  BY DEF Extract, RunAt, Stored
<1>2. /\ run[w] # NoRun /\ run[w] \in Runs /\ i \in JobIds /\ StageA(run[w].job, b) /\ b \in Books
      /\ RunOK(run[w], rows[i], books[b])
      /\ stopping \subseteq Workers /\ faults \in 0..MaxFaults
  BY <1>1, Stepping
<1>3. run[w].job.state = "running" /\ run[w].job.stage = "extracting" /\ run[w].at = 1
  BY <1>1, <1>2, SMTT(30) DEF RunOK, Underway
<1>4. /\ StageA(k, b) /\ k.state = "running" /\ k.stage = "extracting" /\ k.book = b /\ k \in Jobs
      /\ b # NoBook
  BY <1>2, <1>3, AttachedA, NullsAssumption DEF StageA
<1>5. run \in [Workers -> Runs \cup {NoRun}]
  BY DEF DirectionInv
<1>6. run' = [run EXCEPT ![w].pc = "extracted", ![w].book = Extracted, ![w].job = k]
  BY <1>1, <1>2, <1>5 DEF Runs
<1> HIDE DEF k
<1>7. Only(w)
  BY <1>5, <1>6 DEF Only
<1>8. Extracted \in BookStates /\ 1..(1 - 1) = {}
  BY NothingDone
<1>9. /\ run'[w].pc = "extracted" /\ run'[w].job = k /\ run'[w].id = i
      /\ run'[w].book = Extracted /\ run'[w].at = 1 /\ run'[w] \in Runs
  BY <1>2, <1>3, <1>4, <1>5, <1>6, <1>8 DEF Runs, Underway
<1>10. RunOK(run'[w], rows[i], books[b])
  BY <1>1, <1>2, <1>3, <1>4, <1>8, <1>9 DEF RunOK, Underway
<1> QED
  BY <1>1, <1>2, <1>7, <1>9, <1>10, RunKeeps

(* The warnings of one more chapter.                                       *)
LEMMA WarnNext ==
  ASSUME NEW book, NEW n \in Nat \ {0}
  PROVE  /\ book[n] \in Unsure => Warnings(book, 1..n) = Warnings(book, 1..(n - 1)) \cup {n}
         /\ book[n] \notin Unsure => Warnings(book, 1..n) = Warnings(book, 1..(n - 1))
<1>1. \A c : c \in 1..n <=> c \in 1..(n - 1) \/ c = n
  BY SMTT(30)
<1> QED
  BY <1>1, Zenon DEF Warnings

(* What a run knows between two chapters, and before one is directed.      *)
LEMMA Between ==
  ASSUME DirectionAssumption, DirectionInv, NEW w \in Workers,
         run[w].pc \in {"chapter", "skipped", "opened", "directing", "reported", "recorded", "final"},
         NEW i, i = run[w].id, NEW b, b = BookOf[i]
  PROVE  /\ Abreast(run[w], books[b]) /\ run[w].job.state = "running"
         /\ run[w].job.stage = "directing" /\ rows[i].stage = "directing" /\ rows[i] # NoRow
         /\ run[w].book = books[b] /\ InOrder(books[b]) /\ books[b] \in BookStates
         /\ run[w].job.direction.chapters = Done(books[b])
         /\ run[w].job.warnings = Warnings(books[b], 1..(run[w].at - 1))
         /\ run[w].at \in Nat \ {0} /\ run[w].at <= NumChapters + 1
         /\ 1..(run[w].at - 1) \subseteq Approved(books[b])
         /\ books[b] # Absent /\ rows[i].state # "awaiting_review"
         /\ Done(books[b]) \in 0..NumChapters /\ NumChapters \in Nat
         /\ \A m \in 0..NumChapters :
              PassagesEach * m \in 0..(PassagesEach * NumChapters)
         /\ run[w].pc \in {"opened", "directing", "reported"} =>
              run[w].at \in Chapters \ Approved(books[b])
         /\ run[w].pc = "final" => run[w].at = NumChapters + 1
<1>1. /\ run[w] # NoRun /\ run[w] \in Runs /\ i \in JobIds /\ b \in Books
      /\ RunOK(run[w], rows[i], books[b]) /\ RowOK(rows[i], b, books[b])
      /\ run[w].at \in 1..(NumChapters + 1) /\ run[w].at \in Nat
  BY Stepping, SMTT(30)
<1>2. /\ Abreast(run[w], books[b]) /\ run[w].job.state = "running" /\ rows[i].stage = "directing"
      /\ 1..(run[w].at - 1) \subseteq Approved(run[w].book)
      /\ rows[i] # NoRow /\ rows[i].state # "awaiting_review"
      /\ run[w].job.stage = "directing" => books[b] # Absent
      /\ run[w].pc \in {"opened", "directing", "reported"} => run[w].at \in Chapters \ Approved(run[w].book)
      /\ run[w].pc = "final" => run[w].at = NumChapters + 1
  BY <1>1 DEF RunOK, Underway
<1>3. Done(books[b]) \in 0..NumChapters /\ NumChapters \in Nat
  BY DoneBounded DEF DirectionAssumption
<1>4. ASSUME NEW m \in 0..NumChapters
      PROVE  PassagesEach * m \in 0..(PassagesEach * NumChapters)
  <2>1. /\ PassagesEach * m \in Nat /\ PassagesEach * NumChapters \in Nat
        /\ PassagesEach * m <= PassagesEach * NumChapters
    BY <1>3, PassagesGrow
  <2> QED
    BY <2>1
<1>5. InOrder(books[b]) /\ books[b] \in BookStates
  BY <1>1 DEF RowOK
<1>6. /\ run[w].job.stage = "directing" /\ run[w].book = books[b]
      /\ run[w].job.direction.chapters = Done(books[b])
      /\ run[w].job.warnings = Warnings(run[w].book, 1..(run[w].at - 1))
  BY <1>2 DEF Abreast
<1>7. run[w].at \in Nat \ {0} /\ run[w].at <= NumChapters + 1
  BY <1>1, <1>3
<1>8. books[b] # Absent
  BY <1>2, <1>6
<1>9. run[w].pc \in {"opened", "directing", "reported"} => run[w].at \in Chapters \ Approved(books[b])
  BY <1>2, <1>6
<1> QED
  BY <1>2, <1>3, <1>4, <1>5, <1>6, <1>7, <1>8, <1>9

LEMMA SkipChapterOK ==
  ASSUME DirectionAssumption, OwnBook, DirectionInv, NEW w \in Workers, SkipChapter(w)
  PROVE  DirectionInv'
<1> DEFINE i == run[w].id
           b == BookOf[i]
           at == run[w].at
           j == IF run[w].book[at] \in Unsure THEN AddFallbackWarning(run[w].job, at) ELSE run[w].job
<1>1. /\ run[w].pc = "chapter" /\ at \in Approved(run[w].book)
      /\ UNCHANGED <<rows, books, confirmed, stopping, faults>>
  BY DEF SkipChapter, RunAt, Stored
<1>2. /\ run[w] # NoRun /\ run[w] \in Runs /\ i \in JobIds /\ StageA(run[w].job, b) /\ b \in Books
      /\ stopping \subseteq Workers /\ faults \in 0..MaxFaults
  BY <1>1, Stepping
<1>3. /\ run[w].job.state = "running" /\ run[w].job.stage = "directing"
      /\ rows[i].stage = "directing" /\ rows[i] # NoRow
      /\ run[w].book = books[b] /\ InOrder(books[b]) /\ books[b] \in BookStates
      /\ run[w].job.direction.chapters = Done(books[b])
      /\ run[w].job.warnings = Warnings(books[b], 1..(at - 1))
      /\ at \in Nat \ {0} /\ at <= NumChapters + 1
      /\ 1..(at - 1) \subseteq Approved(books[b])
      /\ books[b] # Absent /\ rows[i].state # "awaiting_review"
      /\ Done(books[b]) \in 0..NumChapters /\ NumChapters \in Nat
      /\ \A m \in 0..NumChapters : PassagesEach * m \in 0..(PassagesEach * NumChapters)
  BY <1>1, Between
<1>4. /\ at \in Chapters /\ at \in Warned /\ at <= Done(books[b]) /\ at \in 0..NumChapters
      /\ at + 1 \in 1..(NumChapters + 1) /\ (at + 1) - 1 = at
  <2>1. at \in 1..Done(books[b])
    BY <1>1, <1>3 DEF InOrder
  <2>2. at \in Chapters /\ at \in Warned
    BY <1>1, <1>3 DEF Approved, DirectionAssumption
  <2>3. at <= Done(books[b]) /\ at <= NumChapters
    BY <1>3, <2>1
  <2> QED
    BY <1>3, <2>2, <2>3, SMTT(30)
<1>5. 1..at \subseteq Approved(books[b])
  BY <1>3, <1>4 DEF InOrder
<1>6. /\ StageA(j, b) /\ j.state = "running" /\ j.stage = "directing"
      /\ j.direction = run[w].job.direction /\ j.warnings = Warnings(books[b], 1..at)
  <2>1. CASE run[w].book[at] \in Unsure
    <3>1. books[b][at] \in Unsure /\ at \in Nat \ {0}
      BY <2>1, <1>3
    <3>2. Warnings(books[b], 1..at) = Warnings(books[b], 1..(at - 1)) \cup {at}
      BY <3>1, WarnNext
    <3>3. /\ StageA(AddFallbackWarning(run[w].job, at), b)
          /\ AddFallbackWarning(run[w].job, at).state = "running"
          /\ AddFallbackWarning(run[w].job, at).stage = "directing"
          /\ AddFallbackWarning(run[w].job, at).direction = run[w].job.direction
          /\ AddFallbackWarning(run[w].job, at).warnings = run[w].job.warnings \cup {at}
      <4>1. /\ StageA(run[w].job, b) /\ run[w].job.state = "running"
            /\ run[w].job.stage = "directing" /\ at \in Warned
        BY <1>2, <1>3, <1>4
      <4> QED
        BY <4>1, WarnedA
    <3>4. j = AddFallbackWarning(run[w].job, at)
      BY <2>1
    <3>5. j.warnings = Warnings(books[b], 1..at)
      BY <3>2, <3>3, <3>4, <1>3, Zenon
    <3> QED
      BY <3>3, <3>4, <3>5
  <2>2. CASE run[w].book[at] \notin Unsure
    BY <2>2, <1>2, <1>3, <1>4, WarnNext
  <2> QED
    BY <2>1, <2>2
<1>7. run \in [Workers -> Runs \cup {NoRun}]
  BY DEF DirectionInv
<1>8. CASE at >= run[w].job.direction.chapters
  <2> DEFINE k == RecordDirectionProgress(j, at, PassagesEach * at)
  <2>1. at >= j.direction.chapters
    BY <1>6, <1>8, SMTT(30)
  <2>2. run' = [run EXCEPT ![w].pc = "skipped", ![w].at = at + 1, ![w].job = k]
    BY <1>6, <1>8 DEF SkipChapter
  <2>3. PassagesEach * at \in 0..(PassagesEach * NumChapters)
    BY <1>3, <1>4
  <2> HIDE DEF j
  <2>4. /\ StageA(k, b) /\ k.state = "running" /\ k.stage = "directing"
        /\ k.direction.chapters = at /\ k.warnings = j.warnings /\ k \in Jobs
    BY <1>4, <1>6, <2>3, ProgressA
  <2> HIDE DEF k
  <2>5. Only(w)
    BY <1>7, <2>2 DEF Only
  <2>6. /\ run'[w].pc = "skipped" /\ run'[w].job = k /\ run'[w].id = i
        /\ run'[w].book = run[w].book /\ run'[w].at = at + 1
    BY <1>2, <1>7, <2>2 DEF Runs
  <2>7. run'[w] \in Runs
    BY <1>2, <1>4, <1>7, <2>2, <2>4 DEF Runs, Underway
  <2>8. at = Done(books[b])
    BY <1>3, <1>4, <1>8, SMTT(30)
  <2>9. Abreast(run'[w], books[b])
    BY <1>3, <1>4, <1>6, <2>4, <2>6, <2>8, SMTT(30) DEF Abreast
  <2>10. RunOK(run'[w], rows[i], books[b])
    BY <1>1, <1>3, <1>4, <1>5, <2>4, <2>6, <2>7, <2>9 DEF RunOK, Underway
  <2> QED
    BY <1>1, <1>2, <2>5, <2>6, <2>10, RunKeeps
<1>9. CASE ~(at >= run[w].job.direction.chapters)
  <2>1. run' = [run EXCEPT ![w].at = at + 1, ![w].job = j]
    BY <1>6, <1>9, SMTT(30) DEF SkipChapter
  <2>2. j \in Jobs
    BY <1>6 DEF StageA
  <2> HIDE DEF j
  <2>3. Only(w)
    BY <1>7, <2>1 DEF Only
  <2>4. /\ run'[w].pc = "chapter" /\ run'[w].job = j /\ run'[w].id = i
        /\ run'[w].book = run[w].book /\ run'[w].at = at + 1
    BY <1>1, <1>2, <1>7, <2>1 DEF Runs
  <2>5. run'[w] \in Runs
    BY <1>2, <1>4, <1>7, <2>1, <2>2 DEF Runs, Underway
  <2>6. Abreast(run'[w], books[b])
    BY <1>3, <1>4, <1>6, <2>4, SMTT(30) DEF Abreast
  <2>7. RunOK(run'[w], rows[i], books[b])
    BY <1>1, <1>3, <1>4, <1>5, <1>6, <2>4, <2>5, <2>6 DEF RunOK, Underway
  <2> QED
    BY <1>1, <1>2, <2>3, <2>4, <2>7, RunKeeps
<1> QED
  BY <1>8, <1>9

LEMMA OpenChapterOK ==
  ASSUME DirectionAssumption, OwnBook, DirectionInv, NEW w \in Workers, OpenChapter(w)
  PROVE  DirectionInv'
<1> DEFINE i == run[w].id
           b == BookOf[i]
           done == run[w].at - 1
           k == RecordDirectionProgress(run[w].job, done, PassagesEach * done)
<1>1. /\ run[w].pc = "chapter" /\ run[w].at \in Chapters \ Approved(run[w].book)
      /\ UNCHANGED <<rows, books, confirmed, stopping, faults>>
  BY DEF OpenChapter, RunAt, Stored
<1>2. /\ run[w] # NoRun /\ run[w] \in Runs /\ i \in JobIds /\ StageA(run[w].job, b) /\ b \in Books
      /\ stopping \subseteq Workers /\ faults \in 0..MaxFaults
  BY <1>1, Stepping
<1>3. /\ run[w].job.state = "running" /\ run[w].job.stage = "directing"
      /\ rows[i].stage = "directing" /\ rows[i] # NoRow
      /\ run[w].book = books[b] /\ InOrder(books[b])
      /\ run[w].job.warnings = Warnings(books[b], 1..(run[w].at - 1))
      /\ 1..(run[w].at - 1) \subseteq Approved(books[b])
      /\ books[b] # Absent /\ rows[i].state # "awaiting_review"
      /\ \A m \in 0..NumChapters : PassagesEach * m \in 0..(PassagesEach * NumChapters)
  BY <1>1, Between
<1>4. run[w].at \in Nat \ {0} /\ run[w].at <= NumChapters /\ Done(books[b]) = done /\ NumChapters \in Nat
  BY <1>1, <1>3, NextOne DEF DirectionAssumption
<1>5. done \in 0..NumChapters
  BY <1>4
<1>6. PassagesEach * done \in 0..(PassagesEach * NumChapters)
  BY <1>3, <1>5
<1> HIDE DEF done
<1>7. /\ StageA(k, b) /\ k.state = "running" /\ k.stage = "directing"
      /\ k.direction.chapters = done /\ k.warnings = run[w].job.warnings /\ k \in Jobs
  BY <1>2, <1>3, <1>5, <1>6, ProgressA
<1>8. CASE Goes(w, "opened", k)
  <2> HIDE DEF k
  <2>1. /\ Only(w) /\ run'[w].pc = "opened" /\ run'[w].job = k /\ run'[w].id = i
        /\ run'[w].book = run[w].book /\ run'[w].at = run[w].at /\ run'[w] \in Runs
    BY <1>2, <1>7, <1>8, GoesOn DEF Underway
  <2>2. Abreast(run'[w], books[b])
    BY <1>3, <1>4, <1>7, <2>1 DEF Abreast
  <2>3. RunOK(run'[w], rows[i], books[b])
    BY <1>1, <1>3, <1>7, <2>1, <2>2 DEF RunOK, Underway
  <2> QED
    BY <1>1, <1>2, <2>1, <2>3, RunKeeps
<1>9. CASE Goes(w, "erring", run[w].job)
  BY <1>1, <1>2, <1>9, ErringOK DEF Underway
<1> QED
  BY <1>8, <1>9 DEF OpenChapter, done

LEMMA ReportPassagesOK ==
  ASSUME DirectionAssumption, OwnBook, DirectionInv, NEW w \in Workers, ReportPassages(w)
  PROVE  DirectionInv'
<1> DEFINE i == run[w].id
           b == BookOf[i]
           j == run[w].job
<1>1. /\ run[w].pc = "directing"
      /\ UNCHANGED <<rows, books, confirmed, stopping, faults>>
  BY DEF ReportPassages, RunAt, Stored
<1>2. /\ run[w] # NoRun /\ run[w] \in Runs /\ i \in JobIds /\ StageA(j, b) /\ b \in Books
      /\ stopping \subseteq Workers /\ faults \in 0..MaxFaults
  BY <1>1, Stepping
<1>3. /\ j.state = "running" /\ j.stage = "directing"
      /\ rows[i].stage = "directing" /\ rows[i] # NoRow
      /\ run[w].book = books[b] /\ InOrder(books[b])
      /\ j.direction.chapters = Done(books[b])
      /\ j.warnings = Warnings(books[b], 1..(run[w].at - 1))
      /\ 1..(run[w].at - 1) \subseteq Approved(books[b])
      /\ books[b] # Absent /\ rows[i].state # "awaiting_review"
      /\ run[w].at \in Chapters \ Approved(books[b])
      /\ Done(books[b]) \in 0..NumChapters
      /\ \A m \in 0..NumChapters : PassagesEach * m \in 0..(PassagesEach * NumChapters)
  BY <1>1, Between
<1>4. PICK p \in 1..PassagesEach :
        Goes(w, "reported",
             RecordDirectionProgress(j, j.direction.chapters, PassagesEach * (run[w].at - 1) + p))
  BY DEF ReportPassages
<1> DEFINE n == PassagesEach * (run[w].at - 1) + p
           k == RecordDirectionProgress(j, j.direction.chapters, n)
<1>5. n \in 0..(PassagesEach * NumChapters)
  <2>1. /\ run[w].at \in Nat \ {0} /\ run[w].at <= NumChapters
        /\ NumChapters \in Nat /\ PassagesEach \in Nat
    BY <1>3, NextOne DEF DirectionAssumption
  <2>2. PICK m \in Nat : run[w].at = m + 1
    <3>1. run[w].at - 1 \in Nat /\ run[w].at = (run[w].at - 1) + 1
      BY <2>1
    <3> QED
      BY <3>1
  <2>3. PassagesEach * (m + 1) = PassagesEach * m + PassagesEach
    BY <2>1
  <2>4. PassagesEach * (m + 1) \in 0..(PassagesEach * NumChapters) /\ PassagesEach * m \in Nat
    BY <1>3, <2>1, <2>2
  <2>5. PassagesEach * (run[w].at - 1) = PassagesEach * m
    <3>1. run[w].at - 1 = m
      BY SMTT(30), <2>2
    <3> QED
      BY <3>1
  <2> QED
    BY <2>1, <2>3, <2>4, <2>5
<1> HIDE DEF n
<1>6. /\ StageA(k, b) /\ k.state = "running" /\ k.stage = "directing"
      /\ k.direction.chapters = j.direction.chapters /\ k.warnings = j.warnings /\ k \in Jobs
  BY <1>2, <1>3, <1>5, ProgressA
<1>7. Goes(w, "reported", k)
  BY <1>4 DEF n
<1> HIDE DEF k
<1>8. /\ Only(w) /\ run'[w].pc = "reported" /\ run'[w].job = k /\ run'[w].id = i
      /\ run'[w].book = run[w].book /\ run'[w].at = run[w].at /\ run'[w] \in Runs
  BY <1>2, <1>6, <1>7, GoesOn DEF Underway
<1>9. Abreast(run'[w], books[b])
  BY <1>3, <1>6, <1>8, SMTT(30) DEF Abreast
<1>10. RunOK(run'[w], rows[i], books[b])
  BY <1>1, <1>3, <1>6, <1>8, <1>9 DEF RunOK, Underway
<1> QED
  BY <1>1, <1>2, <1>8, <1>10, RunKeeps

LEMMA DirectChapterOK ==
  ASSUME DirectionAssumption, OwnBook, DirectionInv, NEW w \in Workers, DirectChapter(w)
  PROVE  DirectionInv'
<1> DEFINE i == run[w].id
           b == BookOf[i]
           at == run[w].at
           Job(script) == IF script \in Unsure THEN AddFallbackWarning(run[w].job, at) ELSE run[w].job
           Counted(script) == RecordDirectionProgress(Job(script), at, PassagesEach * at)
<1>1. /\ run[w].pc = "directing"
      /\ UNCHANGED <<rows, books, confirmed, stopping, faults>>
  BY DEF DirectChapter, RunAt, Stored
<1>2. /\ run[w] # NoRun /\ run[w] \in Runs /\ i \in JobIds /\ StageA(run[w].job, b) /\ b \in Books
      /\ stopping \subseteq Workers /\ faults \in 0..MaxFaults
  BY <1>1, Stepping
<1>3. /\ run[w].job.state = "running" /\ run[w].job.stage = "directing"
      /\ rows[i].stage = "directing" /\ rows[i] # NoRow
      /\ run[w].book = books[b] /\ InOrder(books[b]) /\ books[b] \in BookStates
      /\ run[w].job.warnings = Warnings(books[b], 1..(at - 1))
      /\ 1..(at - 1) \subseteq Approved(books[b])
      /\ books[b] # Absent /\ rows[i].state # "awaiting_review"
      /\ at \in Chapters \ Approved(books[b])
      /\ \A m \in 0..NumChapters : PassagesEach * m \in 0..(PassagesEach * NumChapters)
  BY <1>1, Between, SMTT(30)
<1>4. PICK script \in Scripts :
        run' = [run EXCEPT ![w].pc = "directed", ![w].at = at + 1, ![w].book[at] = script,
                  ![w].job = Counted(script)]
  BY DEF DirectChapter
<1> DEFINE j == Job(script)
           k == Counted(script)
           more == [books[b] EXCEPT ![at] = script]
<1>5. /\ at \in Nat \ {0} /\ at <= NumChapters /\ NumChapters \in Nat /\ at \in Warned
      /\ at \in 0..NumChapters /\ at + 1 \in 1..(NumChapters + 1) /\ (at + 1) - 1 = at /\ at + 1 > 1
      /\ PassagesEach * at \in 0..(PassagesEach * NumChapters)
  <2>1. /\ at \in Nat \ {0} /\ at <= NumChapters /\ NumChapters \in Nat /\ at \in Warned
    BY <1>3, NextOne DEF DirectionAssumption
  <2>2. at \in 0..NumChapters /\ at + 1 \in 1..(NumChapters + 1) /\ (at + 1) - 1 = at /\ at + 1 > 1
    BY <2>1
  <2> QED
    BY <1>3, <2>1, <2>2
<1>6. more \in BookStates /\ Approved(more) = 1..at
  BY <1>3, DoneNext, SMTT(30)
<1>7. /\ more[at] = script /\ more = [books[b] EXCEPT ![at] = more[at]]
      /\ \A c \in Chapters \ {at} : more[c] = books[b][c]
  BY <1>3, <1>4 DEF BookStates
<1> HIDE DEF more
<1>8. Warnings(more, 1..(at - 1)) = Warnings(books[b], 1..(at - 1))
  <2>1. \A c \in 1..(at - 1) : c \in Chapters \ {at}
    BY <1>5 DEF Chapters
  <2>2. \A c \in 1..(at - 1) : more[c] = books[b][c]
    BY <1>7, <2>1
  <2> QED
    BY <2>2, Zenon DEF Warnings
<1>9. /\ StageA(j, b) /\ j.state = "running" /\ j.stage = "directing"
      /\ j.warnings = Warnings(more, 1..at)
  <2>1. CASE script \in Unsure
    <3>1. more[at] \in Unsure /\ at \in Nat \ {0}
      BY <2>1, <1>5, <1>7
    <3>2. Warnings(more, 1..at) = Warnings(more, 1..(at - 1)) \cup {at}
      BY <3>1, WarnNext
    <3>3. /\ StageA(AddFallbackWarning(run[w].job, at), b)
          /\ AddFallbackWarning(run[w].job, at).state = "running"
          /\ AddFallbackWarning(run[w].job, at).stage = "directing"
          /\ AddFallbackWarning(run[w].job, at).warnings = run[w].job.warnings \cup {at}
      <4>1. /\ StageA(run[w].job, b) /\ run[w].job.state = "running"
            /\ run[w].job.stage = "directing" /\ at \in Warned
        BY <1>2, <1>3, <1>5
      <4> QED
        BY <4>1, WarnedA
    <3> QED
      BY <2>1, <3>2, <3>3, <1>3, <1>8
  <2>2. CASE script \notin Unsure
    <3>0. more[at] \notin Unsure /\ at \in Nat \ {0}
      BY <2>2, <1>5, <1>7
    <3>1. Warnings(more, 1..at) = Warnings(more, 1..(at - 1))
      BY <3>0, WarnNext
    <3> QED
      BY <3>1, <2>2, <1>2, <1>3, <1>8
  <2> QED
    BY <2>1, <2>2
<1> HIDE DEF j, Job
<1>10. k = RecordDirectionProgress(j, at, PassagesEach * at)
  BY DEF j
<1>11. /\ StageA(k, b) /\ k.state = "running" /\ k.stage = "directing"
       /\ k.direction.chapters = at /\ k.warnings = j.warnings /\ k \in Jobs
  BY <1>5, <1>9, <1>10, ProgressA
<1>12. run \in [Workers -> Runs \cup {NoRun}]
  BY DEF DirectionInv
<1> HIDE DEF k, Counted
<1>13. run' = [run EXCEPT ![w].pc = "directed", ![w].at = at + 1, ![w].book[at] = script, ![w].job = k]
  BY <1>4 DEF k
<1>14. run' = [run EXCEPT ![w].pc = "directed", ![w].at = at + 1, ![w].book = more, ![w].job = k]
  BY <1>2, <1>3, <1>12, <1>13 DEF Runs, more
<1>15. Only(w)
  BY <1>12, <1>14 DEF Only
<1>16. /\ run'[w].pc = "directed" /\ run'[w].job = k /\ run'[w].id = i
       /\ run'[w].book = more /\ run'[w].at = at + 1
  BY <1>2, <1>12, <1>14 DEF Runs
<1>17. run'[w] \in Runs
  BY <1>2, <1>5, <1>6, <1>11, <1>12, <1>14 DEF Runs, Underway
<1>18. run'[w].at - 1 = at
  BY <1>5, <1>16, SMTT(30)
<1>19. /\ run'[w].book = [books[b] EXCEPT ![run'[w].at - 1] = run'[w].book[run'[w].at - 1]]
       /\ 1..(run'[w].at - 1) \subseteq Approved(run'[w].book)
       /\ run'[w].at - 1 \notin Approved(books[b]) /\ run'[w].at > 1
       /\ run'[w].job.warnings = Warnings(run'[w].book, 1..(run'[w].at - 1))
       /\ run'[w].job.direction.chapters = run'[w].at - 1
  <2>1. run'[w].book = [books[b] EXCEPT ![run'[w].at - 1] = run'[w].book[run'[w].at - 1]]
    BY <1>7, <1>16, <1>18
  <2> QED
    BY <2>1, <1>3, <1>5, <1>6, <1>9, <1>11, <1>16, <1>18
<1>20. RunOK(run'[w], rows[i], books[b])
  BY <1>1, <1>3, <1>11, <1>16, <1>17, <1>19 DEF RunOK, Underway
<1> QED
  BY <1>1, <1>2, <1>15, <1>16, <1>20, RunKeeps

LEMMA FinishBookOK ==
  ASSUME DirectionAssumption, OwnBook, DirectionInv, NEW w \in Workers, FinishBook(w)
  PROVE  DirectionInv'
<1> DEFINE i == run[w].id
           b == BookOf[i]
<1>1. /\ run[w].pc = "chapter" /\ run[w].at > NumChapters /\ Goes(w, "final", run[w].job)
      /\ UNCHANGED <<rows, books, confirmed, stopping, faults>>
  BY DEF FinishBook, RunAt, Stored
<1>2. /\ run[w] # NoRun /\ run[w] \in Runs /\ i \in JobIds /\ run[w].job \in Jobs /\ b \in Books
      /\ RunOK(run[w], rows[i], books[b])
      /\ stopping \subseteq Workers /\ faults \in 0..MaxFaults
  BY <1>1, Stepping
<1>3. Abreast(run[w], books[b]) /\ run[w].at = NumChapters + 1
  <2>1. run[w].at \in Nat /\ run[w].at <= NumChapters + 1 /\ NumChapters \in Nat
    BY <1>1, Between
  <2> QED
    BY <1>1, <2>1, Between
<1>4. /\ Only(w) /\ run'[w].pc = "final" /\ run'[w].job = run[w].job /\ run'[w].id = i
      /\ run'[w].book = run[w].book /\ run'[w].at = run[w].at /\ run'[w] \in Runs
  BY <1>1, <1>2, GoesOn DEF Underway
<1>5. Abreast(run'[w], books[b])
  BY <1>3, <1>4 DEF Abreast
<1>6. RunOK(run'[w], rows[i], books[b])
  BY <1>1, <1>2, <1>3, <1>4, <1>5 DEF RunOK, Underway
<1> QED
  BY <1>1, <1>2, <1>4, <1>6, RunKeeps

LEMMA CatchErrorOK ==
  ASSUME DirectionAssumption, OwnBook, DirectionInv, NEW w \in Workers, CatchError(w)
  PROVE  DirectionInv'
<1> DEFINE i == run[w].id
           b == BookOf[i]
<1>1. /\ run[w].pc = "erring"
      /\ UNCHANGED <<rows, books, confirmed, stopping, faults>>
  BY DEF CatchError, RunAt, Stored
<1>2. /\ run[w] # NoRun /\ run[w] \in Runs /\ i \in JobIds /\ StageA(run[w].job, b) /\ b \in Books
      /\ RunOK(run[w], rows[i], books[b])
      /\ stopping \subseteq Workers /\ faults \in 0..MaxFaults
  BY <1>1, Stepping
<1>3. run[w].job.state = "running"
  BY <1>1, <1>2 DEF RunOK, Underway
<1>4. ASSUME NEW k, NEW pc \in {"failed", "abandoned"}, Goes(w, pc, k),
             StageA(k, b), k.state = pc, k.stage = run[w].job.stage
      PROVE  DirectionInv'
  <2>1. k \in Jobs
    BY <1>4 DEF StageA
  <2>2. /\ Only(w) /\ run'[w].pc = pc /\ run'[w].job = k /\ run'[w].id = i
        /\ run'[w].book = run[w].book /\ run'[w].at = run[w].at /\ run'[w] \in Runs
    BY <1>2, <1>4, <2>1, GoesOn
  <2>3. RunOK(run'[w], rows[i], books[b])
    BY <1>1, <1>2, <1>4, <2>2 DEF RunOK, Underway
  <2> QED
    BY <1>1, <1>2, <2>2, <2>3, RunKeeps
<1>5. CASE Goes(w, "abandoned", MarkAbandoned(run[w].job))
  BY <1>2, <1>3, <1>4, <1>5, AbandonedA
<1>6. CASE Goes(w, "failed", Fail(run[w].job))
  BY <1>2, <1>3, <1>4, <1>6, FailedA, SMTT(30)
<1> QED
  BY <1>5, <1>6 DEF CatchError

(* What is stored of a book fits what its run saves of the job.            *)
LEMMA SavedRow ==
  ASSUME DirectionAssumption, DirectionInv, NEW w \in Workers, run[w].pc \in DOMAIN JobSaves,
         NEW i, i = run[w].id, NEW b, b = BookOf[i]
  PROVE  RowOK(run[w].job, b, books[b])
<1>1. run[w].pc \in {"created", "orphaned", "claimed", "begun", "skipped", "opened", "reported",
                     "recorded", "reviewed", "failed", "abandoned"}
  BY DEF JobSaves
<1>2. /\ run[w] # NoRun /\ run[w] \in Runs /\ i \in JobIds /\ b \in Books /\ run[w].job \in Jobs
      /\ StageA(run[w].job, b)
      /\ RunOK(run[w], rows[i], books[b]) /\ RowOK(rows[i], b, books[b])
  BY <1>1, Stepping
<1>3. run[w].job # NoRow
  BY <1>2, NoRowIsNone
<1>4. books[b] \in BookStates /\ InOrder(books[b])
  BY <1>2 DEF RowOK
<1>5. run[w].job.stage = "extracting" => Approved(books[b]) = {}
  <2>1. CASE rows[i] = NoRow
    BY <2>1, <1>2, NothingDone, SMTT(30) DEF RowOK
  <2>2. CASE rows[i] # NoRow
    BY <2>2, <1>2 DEF RowOK, RunOK
  <2> QED
    BY <2>1, <2>2
<1>6. run[w].job.stage = "directing" => books[b] # Absent
  BY <1>2 DEF RunOK
<1>7. ASSUME run[w].job.stage = "directing", run[w].job.state = "running"
      PROVE  run[w].job.direction.chapters <= Done(books[b])
  <2>1. run[w].pc \in {"claimed", "begun", "skipped", "opened", "reported", "recorded"}
    BY <1>1, <1>2, <1>7 DEF RunOK, Interrupted
  <2>2. Abreast(run[w], books[b])
    BY <1>2, <1>7, <2>1 DEF RunOK
  <2>3. Done(books[b]) \in Nat
    BY DoneBounded
  <2> QED
    BY <2>2, <2>3 DEF Abreast
<1>8. ASSUME run[w].job.state = "awaiting_review"
      PROVE  Approved(books[b]) = Chapters /\ run[w].job.warnings = Warnings(books[b], Chapters)
  <2>1. run[w].pc = "reviewed"
    BY <1>1, <1>2, <1>8 DEF RunOK, Interrupted, Underway
  <2> QED
    BY <2>1, <1>2 DEF RunOK
<1> QED
  BY <1>2, <1>3, <1>4, <1>5, <1>6, <1>7, <1>8 DEF RowOK

LEMMA SaveJobOK ==
  ASSUME DirectionAssumption, OwnBook, DirectionInv, NEW w \in Workers, SaveJob(w)
  PROVE  DirectionInv'
<1> DEFINE i == run[w].id
           b == BookOf[i]
           j == run[w].job
<1>1. /\ run[w].pc \in DOMAIN JobSaves /\ rows' = [rows EXCEPT ![i] = j]
      /\ IF AfterSave(w) = "idle" THEN Ends(w) ELSE Goes(w, AfterSave(w), j)
      /\ UNCHANGED <<books, confirmed, stopping, faults>>
  BY DEF SaveJob
<1>2. run[w].pc \in {"created", "orphaned", "claimed", "begun", "skipped", "opened", "reported",
                     "recorded", "reviewed", "failed", "abandoned"}
  BY <1>1 DEF JobSaves
<1>3. /\ run[w] # NoRun /\ run[w] \in Runs /\ i \in JobIds /\ b \in Books /\ j \in Jobs
      /\ StageA(j, b) /\ RunOK(run[w], rows[i], books[b])
      /\ stopping \subseteq Workers /\ faults \in 0..MaxFaults
  BY <1>2, Stepping
<1>4. RowOK(j, b, books[b]) /\ j # NoRow
  BY <1>1, <1>3, SavedRow, NoRowIsNone
<1>5. /\ rows' \in [JobIds -> Jobs \cup {NoRow}] /\ rows'[i] = j
      /\ \A k \in JobIds \ {i} : rows'[k] = rows[k]
      /\ books' \in [Books -> BookStates] /\ books' = books
  BY <1>1, <1>3 DEF DirectionInv
<1>6. Only(w) /\ (run'[w] = NoRun \/ (RunOK(run'[w], j, books[b]) /\ run'[w].id = i))
  <2>1. CASE AfterSave(w) = "idle"
    BY <2>1, <1>1, EndsThere
  <2>2. CASE AfterSave(w) # "idle"
    <3>1. Goes(w, AfterSave(w), j)
      BY <2>2, <1>1
    <3>2. run[w].pc \notin {"reviewed", "failed", "abandoned"}
      BY <2>2 DEF AfterSave, JobSaves, RunAt
    <3>3. /\ run[w].pc = "created" => AfterSave(w) = "start"
          /\ run[w].pc = "orphaned" => AfterSave(w) = "resume"
          /\ run[w].pc = "claimed" =>
               AfterSave(w) = IF j.stage = "directing" THEN "chapter" ELSE "extract"
          /\ run[w].pc \in {"begun", "skipped", "recorded"} => AfterSave(w) = "chapter"
          /\ run[w].pc \in {"opened", "reported"} => AfterSave(w) = "directing"
      BY DEF AfterSave, JobSaves, RunAt
    <3>4. AfterSave(w) \in {"start", "resume", "chapter", "extract", "directing"}
      BY <1>2, <3>2, <3>3
    <3>5. /\ Only(w) /\ run'[w].pc = AfterSave(w) /\ run'[w].job = j /\ run'[w].id = i
          /\ run'[w].book = run[w].book /\ run'[w].at = run[w].at /\ run'[w] \in Runs
      BY <3>1, <3>4, <1>3, GoesOn, SMTT(30) DEF Underway
    <3>6. 1..(run[w].at - 1) \subseteq Approved(run[w].book)
          /\ (j.stage = "directing" => books[b] # Absent) /\ j.stage \in {"extracting", "directing"}
      BY <1>3 DEF RunOK, StageA
    <3>7. CASE run[w].pc = "created"
      <4>1. run'[w].pc = "start" /\ j.state = "pending" /\ run[w].at = 1 /\ j.state # "awaiting_review"
        BY <3>3, <3>5, <3>7, <1>3 DEF RunOK
      <4> QED
        BY <4>1, <3>5, <3>6, <1>3, <1>4 DEF RunOK, Underway
    <3>8. CASE run[w].pc = "orphaned"
      <4>1. /\ run'[w].pc = "resume" /\ j.state = "abandoned" /\ run[w].at = 1
            /\ j.state # "awaiting_review" /\ Interrupted(j)
        BY <3>3, <3>5, <3>8, <1>3 DEF RunOK, Interrupted
      <4> QED
        BY <4>1, <3>5, <3>6, <1>3, <1>4 DEF RunOK, Underway
    <3>9. CASE run[w].pc = "claimed" /\ j.stage # "directing"
      <4>1. /\ run'[w].pc = "extract" /\ j.state = "running" /\ run[w].at = 1 /\ j.stage = "extracting"
        BY <3>3, <3>5, <3>6, <3>9, <1>3, SMTT(30) DEF RunOK, Underway
      <4> QED
        BY <4>1, <3>5, <3>6, <1>3, <1>4 DEF RunOK, Underway
    <3>10. CASE /\ run[w].pc \in {"claimed", "begun", "skipped", "opened", "reported", "recorded"}
                /\ run[w].pc = "claimed" => j.stage = "directing"
      <4>1. Abreast(run[w], books[b]) /\ j.state = "running"
        BY <3>10, <1>3 DEF RunOK, Underway
      <4>2. j.stage = "directing" /\ Abreast(run'[w], books[b])
        BY <4>1, <3>5 DEF Abreast
      <4>3. run'[w].pc \in {"chapter", "directing"}
            /\ (run'[w].pc = "directing" => run[w].at \in Chapters \ Approved(run[w].book))
        BY <3>3, <3>5, <3>10, <4>2, <1>3 DEF RunOK
      <4> QED
        BY <4>1, <4>2, <4>3, <3>5, <3>6, <1>3, <1>4 DEF RunOK, Underway
    <3> QED
      BY <1>2, <3>2, <3>5, <3>7, <3>8, <3>9, <3>10
  <2> QED
    BY <2>1, <2>2
<1> QED
  BY <1>1, <1>3, <1>4, <1>5, <1>6, MoveKeeps

LEMMA SaveBookOK ==
  ASSUME DirectionAssumption, OwnBook, DirectionInv, NEW w \in Workers, SaveBook(w)
  PROVE  DirectionInv'
<1> DEFINE i == run[w].id
           b == BookOf[i]
           j == run[w].job
           more == run[w].book
<1>1. /\ run[w].pc \in {"extracted", "directed", "final"}
      /\ books' = [books EXCEPT ![j.book] = more] /\ AfterSaveBook(w)
      /\ UNCHANGED <<rows, confirmed, stopping, faults>>
  BY DEF SaveBook
<1>2. /\ run[w] # NoRun /\ run[w] \in Runs /\ i \in JobIds /\ b \in Books /\ j \in Jobs
      /\ more \in BookStates /\ run[w].at \in Nat /\ StageA(j, b)
      /\ RunOK(run[w], rows[i], books[b]) /\ RowOK(rows[i], b, books[b])
      /\ stopping \subseteq Workers /\ faults \in 0..MaxFaults
  BY <1>1, Stepping, SMTT(30)
<1>3. j.book = b /\ j.state = "running" /\ rows[i] # NoRow
  BY <1>1, <1>2 DEF RunOK, StageA, Underway, Abreast
<1>4. /\ books' \in [Books -> BookStates] /\ books'[b] = more
      /\ \A c \in Books \ {b} : books'[c] = books[c]
      /\ rows' \in [JobIds -> Jobs \cup {NoRow}] /\ rows' = rows
  BY <1>1, <1>2, <1>3, SMTT(30) DEF DirectionInv
<1>5. CASE run[w].pc = "extracted"
  <2> DEFINE k == BeginDirection(j, NumChapters, PassagesEach * NumChapters)
  <2>1. Goes(w, "begun", k)
    BY <1>1, <1>5 DEF AfterSaveBook, RunAt
  <2>2. j.stage = "extracting" /\ rows[i].stage = "extracting" /\ more = Extracted /\ run[w].at = 1
        /\ rows[i].state # "awaiting_review"
    BY <1>2, <1>5, SMTT(30) DEF RunOK
  <2>3. /\ StageA(k, b) /\ k.state = "running" /\ k.stage = "directing" /\ k \in Jobs
        /\ k.direction.chapters = 0 /\ k.warnings = {}
    BY <1>2, <1>3, <2>2, BegunA DEF StageA
  <2> HIDE DEF k
  <2>4. /\ Only(w) /\ run'[w].pc = "begun" /\ run'[w].job = k /\ run'[w].id = i
        /\ run'[w].book = more /\ run'[w].at = 1 /\ run'[w] \in Runs
    BY <1>2, <2>1, <2>2, <2>3, GoesOn DEF Underway
  <2>5. /\ Approved(more) = {} /\ Done(more) = 0 /\ InOrder(more) /\ more # Absent
        /\ 1..(1 - 1) = {}
    BY <2>2, NothingDone
  <2>6. RowOK(rows[i], b, more)
    BY <1>2, <1>3, <2>2, <2>5 DEF RowOK
  <2>7. Abreast(run'[w], more)
    BY <2>3, <2>4, <2>5 DEF Abreast, Warnings
  <2>8. RunOK(run'[w], rows[i], more)
    BY <1>3, <2>2, <2>3, <2>4, <2>5, <2>7, SMTT(30) DEF RunOK, Underway
  <2> QED
    BY <1>1, <1>2, <1>4, <2>4, <2>6, <2>8, MoveKeeps
<1>6. CASE run[w].pc = "directed"
  <2> DEFINE n == run[w].at - 1
  <2>1. Goes(w, "recorded", j)
    BY <1>1, <1>6, SMTT(30) DEF AfterSaveBook, RunAt
  <2>2. /\ j.stage = "directing" /\ run[w].at > 1 /\ j.direction.chapters = n
        /\ n \notin Approved(books[b]) /\ more = [books[b] EXCEPT ![n] = more[n]]
        /\ j.warnings = Warnings(more, 1..n) /\ 1..n \subseteq Approved(more)
        /\ rows[i].stage = "directing" /\ rows[i].state # "awaiting_review"
        /\ books[b] # Absent
    BY <1>2, <1>6, SMTT(30) DEF RunOK
  <2>3. n \in Nat \ {0} /\ run[w].at <= NumChapters + 1 /\ NumChapters \in Nat
    BY <1>2, <2>2 DEF Runs, DirectionAssumption
  <2>4. n \in Chapters /\ n \in Approved(more) /\ more[n] \in Scripts
    <3>1. n \in 1..n /\ n <= NumChapters
      BY <1>2, <2>3
    <3>2. n \in Approved(more)
      BY <2>2, <3>1
    <3> QED
      BY <3>2 DEF Approved
  <2>5. books[b] \in BookStates /\ InOrder(books[b])
    BY <1>2 DEF RowOK
  <2> HIDE DEF n
  <2>6. 1..(n - 1) \subseteq Approved(books[b])
    <3>1. ASSUME NEW c \in 1..(n - 1)
          PROVE  c \in Approved(books[b])
      <4>1. c \in Approved(more) /\ c # n
        BY <2>2, <2>3, <3>1
      <4>2. c \in Chapters /\ more[c] \in Scripts
        BY <4>1 DEF Approved
      <4>3. more[c] = books[b][c]
        BY <4>1, <4>2, <2>2, <2>5 DEF BookStates
      <4> QED
        BY <4>2, <4>3 DEF Approved
    <3> QED
      BY <3>1
  <2>7. InOrder(more) /\ Done(more) = n /\ Done(books[b]) = n - 1
    BY <2>2, <2>4, <2>5, <2>6, DoneNext
  <2>8. more # Absent
    BY <2>4 DEF Absent, DirectionAssumption
  <2>9. /\ Only(w) /\ run'[w].pc = "recorded" /\ run'[w].job = j /\ run'[w].id = i
        /\ run'[w].book = more /\ run'[w].at = run[w].at /\ run'[w] \in Runs
    BY <1>2, <2>1, GoesOn, SMTT(30) DEF Underway
  <2>10. RowOK(rows[i], b, more)
    <3>1. /\ StageA(rows[i], b)
          /\ rows[i].state = "running" => rows[i].direction.chapters <= Done(books[b])
          /\ rows[i].direction.chapters \in Nat
      BY <1>2, <1>3, <2>2 DEF RowOK, StageA, Jobs, Directions
    <3>2. rows[i].state = "running" => rows[i].direction.chapters <= Done(more)
      BY <3>1, <2>3, <2>7
    <3> QED
      BY <3>1, <3>2, <1>2, <1>3, <2>2, <2>7, <2>8, SMTT(30) DEF RowOK
  <2>11. Abreast(run'[w], more)
    BY <2>2, <2>7, <2>9, SMTT(30) DEF Abreast, n
  <2>12. RunOK(run'[w], rows[i], more)
    BY <1>2, <1>3, <2>2, <2>8, <2>9, <2>11 DEF RunOK, Underway
  <2> QED
    BY <1>1, <1>2, <1>4, <2>9, <2>10, <2>12, MoveKeeps
<1>7. CASE run[w].pc = "final"
  <2>1. /\ Abreast(run[w], books[b]) /\ run[w].at = NumChapters + 1 /\ more = books[b]
        /\ rows[i].stage = "directing" /\ rows[i].state # "awaiting_review"
        /\ 1..(run[w].at - 1) \subseteq Approved(more) /\ books[b] # Absent
        /\ j.warnings = Warnings(more, 1..(run[w].at - 1))
    BY <1>7, Between
  <2>2. run[w].at - 1 = NumChapters /\ NumChapters \in Nat
    BY <2>1 DEF DirectionAssumption
  <2>3. Approved(more) = Chapters /\ j.warnings = Warnings(more, Chapters)
    BY <2>1, <2>2, SMTT(30) DEF Chapters, Approved
  <2>4. CASE CanAwaitReview(j) /\ Goes(w, "reviewed", AwaitReview(j))
    <3> DEFINE k == AwaitReview(j)
    <3>1. StageA(k, b) /\ k.state = "awaiting_review" /\ k.stage = "directing"
          /\ k.warnings = j.warnings /\ k \in Jobs
      BY <1>2, <2>4, ReviewA DEF StageA
    <3>2. Goes(w, "reviewed", k)
      BY <2>4
    <3> HIDE DEF k
    <3>3. /\ Only(w) /\ run'[w].pc = "reviewed" /\ run'[w].job = k /\ run'[w].id = i
          /\ run'[w].book = more /\ run'[w].at = run[w].at /\ run'[w] \in Runs
      BY <1>2, <3>1, <3>2, GoesOn, SMTT(30)
    <3>4. RunOK(run'[w], rows[i], more)
      BY <1>2, <1>3, <2>1, <2>3, <3>1, <3>3 DEF RunOK, Underway
    <3> QED
      BY <1>1, <1>2, <1>4, <2>1, <3>3, <3>4, MoveKeeps, ZenonT(30)
  <2>5. CASE Goes(w, "erring", j)
    <3>1. books' = books
      BY <1>1, <1>2, <1>3, <2>1 DEF DirectionInv
    <3> QED
      BY <3>1, <1>1, <1>2, <1>7, <2>5, ErringOK, SMTT(30) DEF Underway
  <2> QED
    BY <1>1, <1>7, <2>4, <2>5 DEF AfterSaveBook, RunAt
<1> QED
  BY <1>1, <1>5, <1>6, <1>7

(* Failures, stops, restarts and crashes.                                  *)
LEMMA FaultyOK ==
  ASSUME DirectionAssumption, OwnBook, DirectionInv, NEW w \in Workers,
         Faulty(w) \/ Stop(w) \/ Restart(w) \/ DirectorAborted(w)
  PROVE  DirectionInv'
<1> DEFINE i == run[w].id
           b == BookOf[i]
<1>1. faults' \in 0..MaxFaults /\ stopping' \subseteq Workers
  <2>1. stopping \subseteq Workers /\ faults \in 0..MaxFaults /\ MaxFaults \in Nat
    BY DEF DirectionInv, DirectionAssumption
  <2>2. faults' = faults \/ (faults < MaxFaults /\ faults' = faults + 1)
    BY DEF Faulty, SaveJobFails, SaveBookFails, StageFails, Crash, Stop, Restart, DirectorAborted, Fault
  <2>3. faults' \in 0..MaxFaults
    BY <2>1, <2>2
  <2>4. stopping' \in {stopping, stopping \cup {w}, stopping \ {w}}
    BY DEF Faulty, SaveJobFails, SaveBookFails, StageFails, Crash, Stop, Restart, DirectorAborted
  <2> QED
    BY <2>1, <2>3, <2>4
<1>2. UNCHANGED <<rows, books, confirmed>>
  BY DEF Faulty, SaveJobFails, SaveBookFails, StageFails, Crash, Stop, Restart, DirectorAborted, Stored
<1>3. CASE run' = run
  BY <1>1, <1>2, <1>3 DEF DirectionInv
<1>4. CASE Ends(w)
  <2>1. Only(w) /\ run'[w] = NoRun
    BY <1>4, EndsThere
  <2>2. CASE run[w] = NoRun
    <3>1. run' = run
      BY <1>4, <2>2 DEF Ends, DirectionInv
    <3> QED
      BY <1>3, <3>1
  <2>3. CASE run[w] # NoRun
    BY <1>1, <1>2, <2>1, <2>3, RunKeeps
  <2> QED
    BY <2>2, <2>3
<1>5. CASE run[w].pc \in Underway /\ Goes(w, "erring", run[w].job)
  BY <1>1, <1>2, <1>5, ErringOK
<1>6. run' = run \/ Ends(w) \/ (run[w].pc \in Underway /\ Goes(w, "erring", run[w].job))
  <2>1. ASSUME SaveJobFails(w)
        PROVE  Ends(w) \/ (run[w].pc \in Underway /\ Goes(w, "erring", run[w].job))
    BY <2>1 DEF SaveJobFails, Underway
  <2>2. ASSUME SaveBookFails(w) \/ StageFails(w) \/ DirectorAborted(w)
        PROVE  run[w].pc \in Underway /\ Goes(w, "erring", run[w].job)
    BY <2>2 DEF SaveBookFails, StageFails, DirectorAborted, RunAt, Underway
  <2>3. ASSUME Crash(w)
        PROVE  Ends(w)
    BY <2>3 DEF Crash
  <2>4. ASSUME Stop(w) \/ Restart(w)
        PROVE  run' = run
    BY <2>4 DEF Stop, Restart
  <2> QED
    BY <2>1, <2>2, <2>3, <2>4 DEF Faulty
<1> QED
  BY <1>3, <1>4, <1>5, <1>6

LEMMA ConfirmOK ==
  ASSUME DirectionAssumption, DirectionInv, NEW id \in JobIds, Confirm(id)
  PROVE  DirectionInv'
<1> DEFINE b == BookOf[id]
<1>1. /\ rows[id].state = "awaiting_review"
      /\ confirmed' = confirmed \cup {<<id, books[rows[id].book]>>}
      /\ UNCHANGED <<rows, books, run, stopping, faults>>
  BY DEF Confirm
<1>2. RowOK(rows[id], b, books[b])
  BY DEF DirectionInv
<1>3. rows[id].book = b /\ books[b] \in BookStates
  BY <1>1, <1>2, NoRowIsNone DEF RowOK, StageA
<1>4. confirmed' = confirmed \cup {<<id, books[b]>>}
  BY <1>1, <1>3
<1>5. confirmed' \subseteq JobIds \X BookStates
  BY <1>3, <1>4 DEF DirectionInv
<1>6. \A p \in confirmed' : rows[p[1]].state = "awaiting_review" /\ books[BookOf[p[1]]] = p[2]
  BY <1>1, <1>4 DEF DirectionInv
<1> QED
  BY <1>1, <1>5, <1>6 DEF DirectionInv

-----------------------------------------------------------------------------
(* The invariant                                                           *)

LEMMA InitOK ==
  ASSUME DirectionAssumption, Init
  PROVE  DirectionInv
<1>1. /\ rows \in [JobIds -> Jobs \cup {NoRow}] /\ books \in [Books -> BookStates]
      /\ run \in [Workers -> Runs \cup {NoRun}]
      /\ stopping \subseteq Workers /\ faults \in 0..MaxFaults /\ confirmed = {}
  BY NothingDone DEF Init, DirectionAssumption
<1>2. ASSUME NEW id \in JobIds
      PROVE  RowOK(rows[id], BookOf[id], books[BookOf[id]])
  <2>1. BookOf[id] \in Books
    BY DEF DirectionAssumption
  <2>2. rows[id] = NoRow /\ books[BookOf[id]] = Absent
    BY <2>1 DEF Init
  <2> QED
    BY <2>2, NothingDone, NoRowIsNone DEF RowOK
<1>3. \A w \in Workers : run[w] = NoRun
  BY DEF Init
<1> QED
  BY <1>1, <1>2, <1>3 DEF DirectionInv

LEMMA StepOK ==
  ASSUME DirectionAssumption, OwnBook, DirectionInv, [Next]_vars
  PROVE  DirectionInv'
<1>1. ASSUME NEW w \in Workers, NEW id \in JobIds, NEW c \in Digests, Load(w, id, c)
      PROVE  DirectionInv'
  BY <1>1, LoadOK
<1>2. ASSUME NEW w \in Workers, Operate(w)
      PROVE  DirectionInv'
  BY <1>2, StartJobOK, ResumeJobOK, SaveJobOK, SaveBookOK, ExtractOK, SkipChapterOK, OpenChapterOK,
     ReportPassagesOK, DirectChapterOK, FinishBookOK, FaultyOK, CatchErrorOK DEF Operate
<1>3. ASSUME NEW w \in Workers, Faulty(w) \/ Stop(w) \/ Restart(w)
      PROVE  DirectionInv'
  BY <1>3, FaultyOK
<1>4. ASSUME NEW id \in JobIds, Confirm(id)
      PROVE  DirectionInv'
  BY <1>4, ConfirmOK
<1>5. CASE UNCHANGED vars
  BY <1>5 DEF vars, DirectionInv
<1> QED
  BY <1>1, <1>2, <1>3, <1>4, <1>5 DEF Next

(* Where every job has a book of its own, DirectionInv holds in every      *)
(* reachable state: what a row says of its book is so, and every run has   *)
(* the book as it is stored, up to the chapter it is about to save.        *)
THEOREM Invariance ==
  ASSUME DirectionAssumption, OwnBook
  PROVE  Spec => []DirectionInv
<1>1. Init => DirectionInv
  BY InitOK
<1>2. DirectionInv /\ [Next]_vars => DirectionInv'
  BY StepOK
<1> QED
  BY <1>1, <1>2, PTL DEF Spec

-----------------------------------------------------------------------------
(* What it implies                                                         *)

LEMMA TypeFollows ==
  ASSUME DirectionAssumption, DirectionInv
  PROVE  TypeOK
<1>1. \A id \in JobIds : rows[id] \in Jobs \/ rows[id] = NoRow
  BY DEF DirectionInv
<1>2. /\ books \in [Books -> [Chapters -> Scripts \cup {"absent", "draft"}]]
      /\ stopping \subseteq Workers /\ faults \in 0..MaxFaults
  BY DEF DirectionInv, BookStates
<1>3. ASSUME NEW w \in Workers
      PROVE  /\ run[w].id \in JobIds \cup {NoJob} /\ run[w].job \in Jobs
             /\ run[w].at \in 1..(NumChapters + 1)
             /\ 1..(run[w].at - 1) \subseteq Approved(run[w].book)
  <2>1. CASE run[w] = NoRun
    <3>1. run[w].id = NoJob /\ run[w].job = NewJob /\ run[w].at = 1
      BY <2>1 DEF NoRun
    <3>2. 1 \in 1..(NumChapters + 1) /\ 1..(1 - 1) = {}
      BY DEF DirectionAssumption
    <3> QED
      BY <3>1, <3>2, ConstructorTyped
  <2>2. CASE run[w] # NoRun
    <3>1. RunOK(run[w], rows[run[w].id], books[BookOf[run[w].id]])
      BY <2>2 DEF DirectionInv
    <3>2. run[w] \in Runs /\ 1..(run[w].at - 1) \subseteq Approved(run[w].book)
      BY <3>1 DEF RunOK
    <3> QED
      BY <3>2 DEF Runs
  <2> QED
    BY <2>1, <2>2
<1> QED
  BY <1>1, <1>2, <1>3 DEF TypeOK

(* A row counts a part of its book that is stored.                         *)
LEMMA ShownOf ==
  ASSUME DirectionAssumption, NEW b \in Books, NEW j, NEW stored, RowOK(j, b, stored),
         j.stage = "directing"
  PROVE  /\ j \in Jobs /\ j.book = b /\ stored # Absent /\ j.direction.chapters \in Nat
         /\ Done(stored) \in Nat
         /\ ~Interrupted(j) => j.direction.chapters <= Done(stored)
<1>1. j # NoRow
  BY NoRowIsNone
<1>2. StageA(j, b) /\ stored # Absent
  BY <1>1 DEF RowOK
<1>3. j \in Jobs /\ j.book = b
  BY <1>2 DEF StageA
<1>4. j.direction.chapters \in Nat /\ Done(stored) \in Nat /\ Done(stored) <= NumChapters
  BY <1>3, DoneBounded DEF Jobs, Directions, DirectionAssumption
<1>5. ASSUME ~Interrupted(j)
      PROVE  j.direction.chapters <= Done(stored)
  <2>1. j.state \in {"running", "awaiting_review"}
    BY <1>2, <1>3, <1>5 DEF StageA, Jobs, States, Interrupted
  <2>2. CASE j.state = "running"
    BY <1>1, <2>2 DEF RowOK
  <2>3. CASE j.state = "awaiting_review"
    <3>1. Approved(stored) = Chapters
      BY <1>1, <2>3 DEF RowOK
    <3>2. Done(stored) = NumChapters
      BY <3>1, DoneBounded
    <3>3. j.direction.chapters <= NumChapters
      BY <1>2 DEF StageA
    <3> QED
      BY <3>2, <3>3
  <2> QED
    BY <2>1, <2>2, <2>3
<1> QED
  BY <1>2, <1>3, <1>4, <1>5

LEMMA HonestFollows ==
  ASSUME DirectionAssumption, DirectionInv
  PROVE  RowReadable /\ HonestDirection
<1>1. ASSUME NEW id \in JobIds
      PROVE  RowOK(rows[id], BookOf[id], books[BookOf[id]]) /\ BookOf[id] \in Books
  BY DEF DirectionInv, DirectionAssumption
<1>2. ASSUME NEW id \in JobIds, rows[id] # NoRow
      PROVE  SnapshotAccepted(rows[id])
  BY <1>1, <1>2, AcceptedA DEF RowOK
<1>3. ASSUME NEW id \in JobIds, rows[id].stage = "directing"
      PROVE  ShownChapters(id) <= Cardinality(Approved(books[rows[id].book]))
  BY <1>1, <1>3, ShownOf DEF ShownChapters, Done
<1> QED
  BY <1>2, <1>3 DEF RowReadable, HonestDirection

LEMMA ReviewFollows ==
  ASSUME DirectionAssumption, DirectionInv
  PROVE  ReviewHasScript /\ ConfirmedStands
<1>1. ASSUME NEW id \in JobIds, rows[id].state = "awaiting_review"
      PROVE  /\ rows[id].book = BookOf[id]
             /\ Approved(books[BookOf[id]]) = Chapters
             /\ rows[id].warnings = Warnings(books[BookOf[id]], Chapters)
  <2>1. RowOK(rows[id], BookOf[id], books[BookOf[id]]) /\ rows[id] # NoRow
    BY <1>1, NoRowIsNone DEF DirectionInv
  <2> QED
    BY <1>1, <2>1 DEF RowOK, StageA
<1>2. ReviewHasScript
  BY <1>1 DEF ReviewHasScript, Warnings
<1>3. ConfirmedStands
  <2>1. ASSUME NEW p \in confirmed
        PROVE  books[rows[p[1]].book] = p[2]
    <3>1. p[1] \in JobIds /\ rows[p[1]].state = "awaiting_review" /\ books[BookOf[p[1]]] = p[2]
      BY DEF DirectionInv
    <3> QED
      BY <3>1, <1>1
  <2> QED
    BY <2>1 DEF ConfirmedStands
<1> QED
  BY <1>2, <1>3

(* RowsTruthful: whatever failed, crashed or was stopped between saveBook  *)
(* and saveJob, every row can be opened again, and counts no chapter whose *)
(* script is not in the database; and the script a human has confirmed     *)
(* stays the one stored, if no other job writes its book                   *)
(* (DirectionSameBook.cfg has one that does).                              *)
THEOREM RowsAreTruthful ==
  ASSUME DirectionAssumption, OwnBook
  PROVE  Spec => []RowsTruthful
<1>1. DirectionInv => RowsTruthful
  BY TypeFollows, HonestFollows, ReviewFollows DEF RowsTruthful
<1> QED
  BY <1>1, Invariance, PTL

(* ReviewHasScript: a job is put to review with its whole script stored,   *)
(* and warns of exactly the lines in it that have no speaker, however      *)
(* often direction was resumed.                                            *)
THEOREM ReviewedScripts ==
  ASSUME DirectionAssumption, OwnBook
  PROVE  Spec => []ReviewHasScript
<1>1. DirectionInv => ReviewHasScript
  BY ReviewFollows
<1> QED
  BY <1>1, Invariance, PTL

-----------------------------------------------------------------------------
(* What no step does                                                       *)

(* Only the two saves change what is stored, each that of one job.         *)
LEMMA OnlySavesStore ==
  ASSUME DirectionAssumption, DirectionInv, [Next]_vars
  PROVE  \/ UNCHANGED <<rows, books>>
         \/ \E w \in Workers : SaveJob(w)
         \/ \E w \in Workers : SaveBook(w)
<1>1. ASSUME NEW w \in Workers, Operate(w)
      PROVE  UNCHANGED <<rows, books>> \/ SaveJob(w) \/ SaveBook(w)
  BY <1>1 DEF Operate, StartJob, ResumeJob, Extract, SkipChapter, OpenChapter, ReportPassages,
     DirectChapter, FinishBook, DirectorAborted, CatchError, Stored
<1>2. ASSUME NEW w \in Workers, Faulty(w) \/ Stop(w) \/ Restart(w)
      PROVE  UNCHANGED <<rows, books>>
  BY <1>2 DEF Faulty, SaveJobFails, SaveBookFails, StageFails, Crash, Stop, Restart, Stored
<1>3. ASSUME NEW w \in Workers, NEW id \in JobIds, NEW c \in Digests, Load(w, id, c)
      PROVE  UNCHANGED <<rows, books>>
  BY <1>3 DEF Load, Stored
<1>4. ASSUME NEW id \in JobIds, Confirm(id)
      PROVE  UNCHANGED <<rows, books>>
  BY <1>4 DEF Confirm
<1>5. CASE UNCHANGED vars
  BY <1>5 DEF vars
<1> QED
  BY <1>1, <1>2, <1>3, <1>4, <1>5, SMTT(30) DEF Next

(* saveBook adds at most a chapter to what is approved.                    *)
LEMMA BooksGrow ==
  ASSUME DirectionAssumption, DirectionInv, NEW w \in Workers, SaveBook(w),
         NEW i, i = run[w].id, NEW b, b = BookOf[i]
  PROVE  /\ i \in JobIds /\ b \in Books /\ rows' = rows
         /\ \A d \in Books \ {b} : books'[d] = books[d]
         /\ books'[b] \in BookStates /\ books[b] \in BookStates
         /\ \A c \in Chapters : books[b][c] \in Scripts => books'[b][c] = books[b][c]
         /\ rows[i].stage = "directing" => books'[b] # Absent
         /\ run[w].pc = "extracted" => rows[i].stage = "extracting"
<1> DEFINE more == run[w].book
<1>1. /\ run[w].pc \in {"extracted", "directed", "final"} /\ rows' = rows
      /\ books' = [books EXCEPT ![run[w].job.book] = more]
  BY DEF SaveBook
<1>2. /\ run[w] # NoRun /\ run[w] \in Runs /\ i \in JobIds /\ b \in Books
      /\ more \in BookStates /\ run[w].at \in Nat /\ StageA(run[w].job, b)
      /\ RunOK(run[w], rows[i], books[b]) /\ RowOK(rows[i], b, books[b])
  BY <1>1, Stepping, SMTT(30)
<1>3. run[w].job.book = b /\ books \in [Books -> BookStates] /\ rows[i] # NoRow
  BY <1>1, <1>2 DEF RunOK, StageA, Underway, Abreast, DirectionInv
<1>4. books'[b] = more /\ \A d \in Books \ {b} : books'[d] = books[d]
  BY <1>1, <1>2, <1>3, SMTT(30)
<1>5. CASE run[w].pc = "extracted"
  <2>1. rows[i].stage = "extracting" /\ more = Extracted
    BY <1>2, <1>5 DEF RunOK
  <2>2. Approved(books[b]) = {}
    BY <1>2, <1>3, <2>1, SMTT(30) DEF RowOK
  <2> QED
    BY <1>1, <1>2, <1>3, <1>4, <2>1, <2>2 DEF Approved
<1>6. CASE run[w].pc = "directed"
  <2> DEFINE n == run[w].at - 1
  <2>1. /\ n \notin Approved(books[b]) /\ more = [books[b] EXCEPT ![n] = more[n]]
        /\ 1..n \subseteq Approved(more) /\ n \in Nat \ {0}
    BY <1>2, <1>6 DEF RunOK
  <2> HIDE DEF n
  <2>2. \A c \in Chapters : books[b][c] \in Scripts => more[c] = books[b][c]
    <3>1. ASSUME NEW c \in Chapters, books[b][c] \in Scripts
          PROVE  more[c] = books[b][c]
      <4>1. c # n /\ books[b] \in BookStates
        BY <2>1, <3>1, <1>2, <1>3 DEF Approved
      <4> QED
        BY <4>1, <2>1 DEF BookStates
    <3> QED
      BY <3>1
  <2>3. more # Absent
    <3>1. n \in 1..n
      BY <2>1
    <3>2. n \in Chapters /\ more[n] \in Scripts
      BY <2>1, <3>1, SMTT(30) DEF Approved
    <3> QED
      BY <3>2 DEF Absent, DirectionAssumption
  <2> QED
    BY <1>1, <1>2, <1>3, <1>4, <1>6, <2>2, <2>3
<1>7. CASE run[w].pc = "final"
  <2>1. more = books[b] /\ books[b] # Absent
    BY <1>7, Between
  <2> QED
    BY <1>1, <1>2, <1>3, <1>4, <1>7, <2>1
<1> QED
  BY <1>1, <1>5, <1>6, <1>7

(* A book in which every approved chapter stands has no fewer done.        *)
LEMMA MoreDone ==
  ASSUME DirectionAssumption, NEW book, NEW more,
         \A c \in Chapters : book[c] \in Scripts => more[c] = book[c]
  PROVE  Done(book) <= Done(more)
<1>1. Approved(book) \subseteq Approved(more)
  BY DEF Approved
<1>2. IsFiniteSet(Chapters) /\ Approved(more) \subseteq Chapters
  BY FS_Interval DEF Chapters, Approved, DirectionAssumption
<1>3. IsFiniteSet(Approved(more))
  BY <1>2, FS_Subset
<1> QED
  BY <1>1, <1>3, FS_Subset DEF Done

LEMMA ApprovedStep ==
  ASSUME DirectionAssumption, DirectionInv, [Next]_vars
  PROVE  \A b \in Books, c \in Chapters : books[b][c] \in Scripts => books'[b][c] = books[b][c]
<1>1. CASE books' = books
  BY <1>1
<1>2. ASSUME NEW w \in Workers, SaveBook(w)
      PROVE  \A b \in Books, c \in Chapters : books[b][c] \in Scripts => books'[b][c] = books[b][c]
  BY <1>2, BooksGrow
<1>3. ASSUME NEW w \in Workers, SaveJob(w)
      PROVE  books' = books
  BY <1>3 DEF SaveJob
<1> QED
  BY <1>1, <1>2, <1>3, OnlySavesStore

(* What is shown of a row, by its stage.                                   *)
LEMMA Shown ==
  ASSUME DirectionAssumption, NEW b \in Books, NEW j, NEW stored, RowOK(j, b, stored)
  PROVE  /\ j.stage = "extracting" => j.direction.chapters = 0
         /\ j.stage \in {"extracting", "directing"}
         /\ j.stage = "directing" => j.book = b /\ stored # Absent
<1>1. CASE j = NoRow
  BY <1>1, NoRowIsNone
<1>2. CASE j # NoRow
  <2>1. StageA(j, b) /\ (j.stage = "directing" => stored # Absent)
    BY <1>2 DEF RowOK
  <2>2. NoDirection.chapters = 0
    BY DEF NoDirection
  <2> QED
    BY <2>1, <2>2 DEF StageA
<1> QED
  BY <1>1, <1>2

ShownRight ==
  \A id \in JobIds :
    /\ rows[id].stage \in {"extracting", "directing"}
    /\ rows[id].stage = "extracting" => ShownChapters(id) = 0
    /\ rows[id].stage = "directing" =>
         /\ ShownChapters(id) = IF Interrupted(rows[id]) THEN Done(books[BookOf[id]])
                                ELSE rows[id].direction.chapters
         /\ ShownChapters(id) \in Nat /\ ShownChapters(id) <= Done(books[BookOf[id]])

LEMMA ShownIsRight ==
  ASSUME DirectionAssumption
  PROVE  DirectionInv => ShownRight
<1> SUFFICES ASSUME DirectionInv, NEW id \in JobIds
             PROVE  /\ rows[id].stage \in {"extracting", "directing"}
                    /\ rows[id].stage = "extracting" => ShownChapters(id) = 0
                    /\ rows[id].stage = "directing" =>
                         /\ ShownChapters(id) = IF Interrupted(rows[id]) THEN Done(books[BookOf[id]])
                                                ELSE rows[id].direction.chapters
                         /\ ShownChapters(id) \in Nat /\ ShownChapters(id) <= Done(books[BookOf[id]])
  BY DEF ShownRight
<1> DEFINE b == BookOf[id]
<1>1. RowOK(rows[id], b, books[b]) /\ b \in Books
  BY DEF DirectionInv, DirectionAssumption
<1>2. /\ rows[id].stage = "extracting" => rows[id].direction.chapters = 0
      /\ rows[id].stage \in {"extracting", "directing"}
  BY <1>1, Shown
<1>3. rows[id].stage = "extracting" => ShownChapters(id) = 0
  BY <1>2 DEF ShownChapters
<1>4. CASE rows[id].stage = "directing"
  <2>1. /\ rows[id].book = b /\ books[b] # Absent /\ rows[id].direction.chapters \in Nat
        /\ Done(books[b]) \in Nat
        /\ ~Interrupted(rows[id]) => rows[id].direction.chapters <= Done(books[b])
    BY <1>1, <1>4, ShownOf
  <2> QED
    BY <1>4, <2>1 DEF ShownChapters, Done
<1> QED
  BY <1>2, <1>3, <1>4

LEMMA ShownAfter ==
  ASSUME DirectionAssumption
  PROVE  DirectionInv' => ShownRight'
BY ShownIsRight, PTL

(* The job that a run saves shows no less than the row it replaces.        *)
LEMMA SavedShows ==
  ASSUME DirectionAssumption, DirectionInv, NEW w \in Workers, run[w].pc \in DOMAIN JobSaves,
         NEW i, i = run[w].id, rows[i].stage = "directing", ~Interrupted(run[w].job)
  PROVE  /\ run[w].job.stage = "directing"
         /\ Done(books[BookOf[i]]) <= run[w].job.direction.chapters
<1> DEFINE b == BookOf[i]
<1>1. run[w].pc \in {"created", "orphaned", "claimed", "begun", "skipped", "opened", "reported",
                     "recorded", "reviewed", "failed", "abandoned"}
  BY DEF JobSaves
<1>2. /\ i \in JobIds /\ b \in Books /\ run[w].job \in Jobs /\ StageA(run[w].job, b)
      /\ RunOK(run[w], rows[i], books[b])
  BY <1>1, Stepping, SMTT(30)
<1>3. run[w].job.stage = "directing"
  BY <1>2 DEF RunOK, StageA
<1>4. run[w].pc \notin {"created", "orphaned", "failed", "abandoned"}
  BY <1>2, <1>3 DEF RunOK, StageA, Interrupted
<1>5. Done(books[b]) \in Nat /\ Done(books[b]) <= NumChapters /\ NumChapters \in Nat
  BY DoneBounded DEF DirectionAssumption
<1>6. CASE run[w].pc = "reviewed"
  <2>1. run[w].job.direction.chapters = NumChapters
    BY <1>2, <1>3, <1>6 DEF RunOK, StageA, Directed
  <2> QED
    BY <1>3, <1>5, <2>1
<1>7. CASE run[w].pc # "reviewed"
  <2>1. Abreast(run[w], books[b])
    BY <1>1, <1>2, <1>3, <1>4, <1>7 DEF RunOK
  <2> QED
    BY <1>3, <1>5, <2>1 DEF Abreast
<1> QED
  BY <1>6, <1>7

LEMMA ProgressStep ==
  ASSUME DirectionAssumption, OwnBook, DirectionInv, [Next]_vars
  PROVE  \A id \in JobIds : ShownChapters(id) <= ShownChapters(id)'
<1>1. ShownRight /\ ShownRight'
  BY StepOK, ShownIsRight, ShownAfter
<1>2. ASSUME NEW b \in Books
      PROVE  Done(books[b]) <= Done(books'[b]) /\ Done(books[b]) \in Nat
  BY ApprovedStep, MoreDone, DoneBounded
<1>3. \A id \in JobIds : BookOf[id] \in Books
  BY DEF DirectionAssumption
<1>4. ASSUME NEW id \in JobIds, rows'[id] = rows[id]
      PROVE  ShownChapters(id) <= ShownChapters(id)'
  <2>1. CASE rows[id].stage = "extracting"
    <3>1. ShownChapters(id) = 0 /\ ShownChapters(id)' = 0
      BY <1>1, <1>4, <2>1 DEF ShownRight
    <3> QED
      BY <3>1
  <2>2. CASE rows[id].stage = "directing" /\ Interrupted(rows[id])
    <3>1. ShownChapters(id) = Done(books[BookOf[id]])
      BY <1>1, <2>2 DEF ShownRight
    <3>2. ShownChapters(id)' = Done(books'[BookOf[id]])
      BY <1>1, <1>4, <2>2 DEF ShownRight, Done, Approved
    <3> QED
      BY <1>2, <1>3, <3>1, <3>2
  <2>3. CASE rows[id].stage = "directing" /\ ~Interrupted(rows[id])
    <3>1. ShownChapters(id) = rows[id].direction.chapters /\ ShownChapters(id) \in Nat
      BY <1>1, <2>3 DEF ShownRight
    <3>2. ShownChapters(id)' = rows[id].direction.chapters
      BY <1>1, <1>4, <2>3 DEF ShownRight
    <3> QED
      BY <3>1, <3>2
  <2> QED
    BY <1>1, <2>1, <2>2, <2>3 DEF ShownRight
<1>5. ASSUME NEW w \in Workers, SaveJob(w), NEW id \in JobIds
      PROVE  ShownChapters(id) <= ShownChapters(id)'
  <2> DEFINE i == run[w].id
             j == run[w].job
  <2>1. run[w].pc \in DOMAIN JobSaves /\ rows' = [rows EXCEPT ![i] = j] /\ books' = books
    BY <1>5 DEF SaveJob
  <2>2. run[w].pc # "idle"
    BY <2>1 DEF JobSaves
  <2>3. i \in JobIds /\ RunOK(run[w], rows[i], books[BookOf[i]]) /\ StageA(j, BookOf[i])
    BY <2>2, Stepping
  <2>4. rows'[i] = j /\ \A k \in JobIds \ {i} : rows'[k] = rows[k]
    BY <2>1, <2>3 DEF DirectionInv
  <2>5. CASE id # i
    BY <1>4, <2>4, <2>5
  <2>6. CASE id = i /\ rows[i].stage = "extracting"
    <3>1. ShownChapters(id) = 0 /\ rows'[i].stage \in {"extracting", "directing"}
      BY <1>1, <2>3, <2>6 DEF ShownRight
    <3>2. (rows'[i].stage = "extracting" => ShownChapters(id)' = 0) /\ (rows'[i].stage = "directing" => ShownChapters(id)' \in Nat)
      BY <1>1, <2>6 DEF ShownRight
    <3> QED
      BY <3>1, <3>2
  <2>7. CASE id = i /\ rows[i].stage = "directing"
    <3>1. ShownChapters(id) <= Done(books[BookOf[i]]) /\ ShownChapters(id) \in Nat
      BY <1>1, <2>7, SMTT(30) DEF ShownRight
    <3>2. j.stage = "directing"
      BY <2>3, <2>7 DEF RunOK, StageA
    <3>3. CASE Interrupted(j)
      <4>1. ShownChapters(id)' = Done(books[BookOf[i]])
        BY <1>1, <2>1, <2>4, <2>7, <3>2, <3>3 DEF ShownRight, Done, Approved
      <4> QED
        BY <3>1, <4>1
    <3>4. CASE ~Interrupted(j)
      <4>1. ShownChapters(id)' = j.direction.chapters /\ ShownChapters(id)' \in Nat
        BY <1>1, <2>1, <2>4, <2>7, <3>2, <3>4 DEF ShownRight
      <4>2. Done(books[BookOf[i]]) <= j.direction.chapters /\ Done(books[BookOf[i]]) \in Nat
        BY <1>2, <1>3, <2>1, <2>3, <2>7, <3>4, SavedShows
      <4> QED
        BY <3>1, <4>1, <4>2
    <3> QED
      BY <3>3, <3>4
  <2> QED
    BY <1>1, <2>3, <2>5, <2>6, <2>7 DEF ShownRight
<1>6. CASE rows' = rows
  BY <1>4, <1>6
<1>7. ASSUME NEW w \in Workers, SaveBook(w)
      PROVE  rows' = rows
  BY <1>7 DEF SaveBook
<1> QED
  BY <1>5, <1>6, <1>7, OnlySavesStore

LEMMA RestStep ==
  ASSUME DirectionAssumption, DirectionInv, [Next]_vars, NEW w \in Workers,
         run[w].id # NoJob, run'[w].id = NoJob, faults' = faults
  PROVE  rows'[run[w].id].state # "running"
<1>1. run[w] # NoRun /\ run[w] \in Runs /\ run \in [Workers -> Runs \cup {NoRun}]
  BY DEF NoRun, DirectionInv
<1>2. run[w].id \in JobIds /\ NoJob \notin JobIds
  BY <1>1 DEF Runs, DirectionAssumption
<1>3. RunOK(run[w], rows[run[w].id], books[BookOf[run[w].id]])
  BY <1>1 DEF DirectionInv
<1>4. CASE SaveJob(w)
  <2>1. /\ run[w].pc \in DOMAIN JobSaves /\ rows' = [rows EXCEPT ![run[w].id] = run[w].job]
        /\ IF AfterSave(w) = "idle" THEN Ends(w) ELSE Goes(w, AfterSave(w), run[w].job)
    BY <1>4 DEF SaveJob
  <2>2. AfterSave(w) = "idle"
    <3>1. ASSUME Goes(w, AfterSave(w), run[w].job)
          PROVE  run'[w].id = run[w].id
      BY <1>1, <3>1 DEF Goes, Runs
    <3> QED
      BY <2>1, <3>1
  <2>3. run[w].pc \in {"reviewed", "failed", "abandoned"}
    BY <2>1, <2>2 DEF AfterSave, JobSaves, RunAt
  <2>4. run[w].job.state # "running"
    BY <1>3, <2>3 DEF RunOK
  <2> QED
    BY <1>2, <2>1, <2>4 DEF DirectionInv
<1>6. ASSUME NEW v \in Workers, NEW pc, NEW j, Goes(v, pc, j)
      PROVE  FALSE
  BY <1>1, <1>6 DEF Goes, Runs
<1>7. ASSUME NEW v \in Workers \ {w}, SaveJob(v)
      PROVE  FALSE
  <2>1. CASE Ends(v)
    BY <1>1, <2>1 DEF Ends
  <2> QED
    BY <2>1, <1>6, <1>7 DEF SaveJob
<1>8. ASSUME NEW v \in Workers, SaveBook(v)
      PROVE  FALSE
  <2>1. run[v].pc \in {"extracted", "directed", "final"} /\ AfterSaveBook(v)
    BY <1>8 DEF SaveBook
  <2>2. CASE run[v].pc = "extracted"
    BY <1>6, <2>1, <2>2 DEF AfterSaveBook, RunAt
  <2>3. CASE run[v].pc = "directed"
    BY <1>6, <2>1, <2>3 DEF AfterSaveBook, RunAt
  <2>4. CASE run[v].pc = "final"
    BY <1>6, <2>1, <2>4 DEF AfterSaveBook, RunAt
  <2> QED
    BY <2>1, <2>2, <2>3, <2>4
<1>9. ASSUME NEW v \in Workers,
             StartJob(v) \/ OpenChapter(v) \/ ReportPassages(v) \/ FinishBook(v)
               \/ DirectorAborted(v) \/ CatchError(v)
      PROVE  FALSE
  BY <1>6, <1>9 DEF StartJob, OpenChapter, ReportPassages, FinishBook, DirectorAborted, CatchError
<1>10. ASSUME NEW v \in Workers, ResumeJob(v) \/ Extract(v) \/ SkipChapter(v) \/ DirectChapter(v)
       PROVE  FALSE
  <2>1. CASE ResumeJob(v)
    BY <1>1, <1>6, <2>1 DEF ResumeJob, Runs
  <2>2. CASE Extract(v)
    BY <1>1, <2>2 DEF Extract, Runs
  <2>3. CASE SkipChapter(v)
    <3>1. ASSUME NEW at, NEW j, run' = [run EXCEPT ![v].pc = "skipped", ![v].at = at, ![v].job = j]
          PROVE  FALSE
      BY <1>1, <3>1 DEF Runs
    <3>2. ASSUME NEW at, NEW j, run' = [run EXCEPT ![v].at = at, ![v].job = j]
          PROVE  FALSE
      BY <1>1, <3>2 DEF Runs
    <3> QED
      BY <2>3, <3>1, <3>2 DEF SkipChapter
  <2>4. CASE DirectChapter(v)
    <3>1. PICK script \in Scripts : \E at : \E j :
            run' = [run EXCEPT ![v].pc = "directed", ![v].at = at, ![v].book[run[v].at] = script,
                      ![v].job = j]
      BY <2>4 DEF DirectChapter
    <3> QED
      BY SMTT(30), <1>1, <3>1 DEF Runs
  <2> QED
    BY <1>10, <2>1, <2>2, <2>3, <2>4
<1>11. ASSUME NEW v \in Workers, Faulty(v) \/ Stop(v)
       PROVE  FALSE
  <2>1. faults' = faults + 1 /\ faults \in Nat
    BY <1>11 DEF Faulty, SaveJobFails, SaveBookFails, StageFails, Crash, Stop, Fault, DirectionInv,
       DirectionAssumption
  <2> QED
    BY <2>1
<1>12. ASSUME run' = run
       PROVE  FALSE
  BY <1>12
<1>13. ASSUME NEW v \in Workers, NEW id \in JobIds, NEW c \in Digests, Load(v, id, c)
       PROVE  FALSE
  <2>1. run[v].pc = "idle" /\ v # w
    BY <1>1, <1>13 DEF Load, MayLoad, RunAt, Runs, Underway
  <2> QED
    BY <1>1, <1>13, <2>1 DEF Load
<1> QED
  BY <1>4, <1>7, <1>8, <1>9, <1>10, <1>11, <1>12, <1>13
     DEF Next, vars, Operate, Restart, Confirm

(* DirectionKept: an approved chapter is neither directed again nor        *)
(* dropped, the progress shown never goes back, and a run whose writes     *)
(* succeed leaves its row at rest.                                         *)
THEOREM DirectionIsKept ==
  ASSUME DirectionAssumption, OwnBook
  PROVE  Spec => DirectionKept
<1>1. DirectionInv /\ [Next]_vars =>
        [\A b \in Books, c \in Chapters : books[b][c] \in Scripts => books'[b][c] = books[b][c]]_vars
  BY ApprovedStep
<1>2. DirectionInv /\ [Next]_vars =>
        [\A id \in JobIds : ShownChapters(id) <= ShownChapters(id)']_vars
  BY ProgressStep
<1>3. DirectionInv /\ [Next]_vars =>
        [\A w \in Workers :
           /\ run[w].id # NoJob /\ run'[w].id = NoJob
           /\ faults' = faults
           => rows'[run[w].id].state # "running"]_vars
  BY RestStep
<1> QED
  BY <1>1, <1>2, <1>3, Invariance, PTL DEF Spec, DirectionKept, ApprovedStays, ProgressNeverBack, EndsAtRest

-----------------------------------------------------------------------------
(* The calls of the directors: windows                                     *)

\* From a passage on, e is the first of n that the next is not to follow
FirstBefore(from, n, stops, e) ==
  (\A k \in (from + 2)..e : k \notin stops) /\ (e < n => e + 1 \in stops)

\* The first of some numbers ends a window, or the chapter does
LEMMA FirstStop ==
  \A stops : \A n \in Nat : \A from \in 0..(n - 1) :
    \E e \in (from + 1)..n : FirstBefore(from, n, stops, e)
<1> SUFFICES ASSUME NEW stops, NEW n \in Nat, NEW from \in 0..(n - 1)
             PROVE  \E e \in (from + 1)..n : FirstBefore(from, n, stops, e)
  OBVIOUS
<1> DEFINE T == {k \in (from + 2)..n : k \in stops}
<1>1. CASE T = {}
  <2>1. n \in (from + 1)..n
    OBVIOUS
  <2> QED BY <1>1, <2>1 DEF FirstBefore
<1>2. CASE T # {}
  <2>1. T \subseteq Nat
    OBVIOUS
  <2>2. PICK x \in T : \A y \in T : ~ (<<y, x>> \in OpToRel(<, Nat))
    <3> HIDE DEF T
    <3> QED BY <1>2, <2>1, NatLessThanWellFounded, WFMin
  <2>3. \A y \in T : ~ (y < x)
    BY <2>1, <2>2 DEF OpToRel
  <2>4. x - 1 \in (from + 1)..n /\ x \in stops /\ (x - 1) + 1 = x
    OBVIOUS
  <2>5. ASSUME NEW k \in (from + 2)..(x - 1) PROVE k \notin stops
    BY <2>3
  <2> QED BY <2>4, <2>5 DEF FirstBefore
<1> QED BY <1>1, <1>2

SumOver(f, S) ==
  LET iter[t \in SUBSET S] ==
        IF t = {} THEN 0 ELSE LET x == CHOOSE x \in t : TRUE IN f[x] + iter[t \ {x}]
  IN iter[S]

LEMMA CharsSummed ==
  ASSUME NEW s, NEW w
  PROVE  Local!Chars(s, w) = SumOver(s, (w.start + 1)..w.end)
  BY DEF Local!Chars, Local!MapThenSumSet, Local!MapThenFoldSet, SumOver

\* The recursion of a sum over the subsets of a set
Some(t) == CHOOSE x \in t : TRUE

Summed(f, g, t) == IF t = {} THEN 0 ELSE f[Some(t)] + g[t \ {Some(t)}]

UpToSize(S, n) == {t \in SUBSET S : Cardinality(t) <= n}

\* Of some numbers one is the least
LEMMA LeastNumber ==
  ASSUME NEW T \in SUBSET Nat, T # {}
  PROVE  \E n \in T : \A m \in T : ~(m < n)
<1>1. PICK n \in T : \A m \in T : ~ (<<m, n>> \in OpToRel(<, Nat))
  BY NatLessThanWellFounded, WFMin
<1> QED BY <1>1 DEF OpToRel

\* Taking an element away leaves a smaller set
LEMMA OneLess ==
  ASSUME NEW S, IsFiniteSet(S), NEW t \in SUBSET S, t # {}
  PROVE  /\ Some(t) \in t /\ t \ {Some(t)} \in SUBSET S
         /\ Cardinality(t) \in Nat /\ Cardinality(t) > 0
         /\ Cardinality(t \ {Some(t)}) = Cardinality(t) - 1
<1>1. IsFiniteSet(t) /\ Some(t) \in t
  BY FS_Subset DEF Some
<1>2. Cardinality(t) \in Nat /\ Cardinality(t) # 0
  BY <1>1, FS_CardinalityType, FS_EmptySet
<1>3. Cardinality(t \ {Some(t)}) = Cardinality(t) - 1
  BY <1>1, FS_RemoveElement
<1>4. Cardinality(t) > 0
  BY <1>2
<1> QED BY <1>1, <1>2, <1>3, <1>4

LEMMA SumExists ==
  ASSUME NEW S, IsFiniteSet(S), NEW f
  PROVE  \E g : g = [t \in SUBSET S |-> Summed(f, g, t)]
<1> DEFINE Good(n) == \E g : g = [t \in UpToSize(S, n) |-> Summed(f, g, t)]
           T == {n \in Nat : ~Good(n)}
<1>1. \A t \in SUBSET S : Cardinality(t) \in Nat /\ IsFiniteSet(t)
  BY FS_Subset, FS_CardinalityType
<1>2. ASSUME T # {} PROVE FALSE
  <2>1. PICK n \in T : \A m \in T : ~(m < n)
    <3> HIDE DEF Good
    <3> QED BY <1>2, LeastNumber
  <2>2. CASE n = 0
    <3> DEFINE g == [t \in UpToSize(S, 0) |-> 0]
    <3>1. \A t \in UpToSize(S, 0) : t = {}
      BY <1>1, FS_EmptySet DEF UpToSize
    <3>2. g = [t \in UpToSize(S, 0) |-> Summed(f, g, t)]
      BY <3>1 DEF Summed
    <3> HIDE DEF g
    <3> QED BY <2>1, <2>2, <3>2
  <2>3. CASE n > 0
    <3>1. n - 1 \in Nat /\ Good(n - 1)
      <4> HIDE DEF Good
      <4> QED BY <2>1, <2>3
    <3>2. PICK h : h = [t \in UpToSize(S, n - 1) |-> Summed(f, h, t)]
      BY <3>1
    <3> DEFINE g == [t \in UpToSize(S, n) |-> Summed(f, h, t)]
    <3>3. ASSUME NEW t \in UpToSize(S, n), t # {}
          PROVE  t \ {Some(t)} \in UpToSize(S, n - 1) /\ t \ {Some(t)} \in UpToSize(S, n)
      BY <2>1, <3>3, <1>1, OneLess DEF UpToSize
    <3>4. \A t \in UpToSize(S, n - 1) : t \in UpToSize(S, n) /\ g[t] = h[t]
      <4>1. \A t \in UpToSize(S, n - 1) : t \in UpToSize(S, n)
        BY <1>1, <2>1 DEF UpToSize
      <4>2. \A t \in UpToSize(S, n - 1) : h[t] = Summed(f, h, t)
        BY <3>2
      <4> QED BY <4>1, <4>2
    <3>5. \A t \in UpToSize(S, n) : Summed(f, h, t) = Summed(f, g, t)
      <4> HIDE DEF g
      <4> QED BY <3>3, <3>4 DEF Summed
    <3>6. g = [t \in UpToSize(S, n) |-> Summed(f, g, t)]
      BY <3>5
    <3> HIDE DEF g
    <3> QED BY <2>1, <3>6
  <2>4. n \in Nat
    OBVIOUS
  <2> QED BY <2>2, <2>3, <2>4
<1>3. Good(Cardinality(S))
  <2>1. Cardinality(S) \in Nat
    BY FS_CardinalityType
  <2> HIDE DEF Good
  <2> QED BY <1>2, <2>1
<1>4. UpToSize(S, Cardinality(S)) = SUBSET S
  BY FS_Subset DEF UpToSize
<1> QED BY <1>3, <1>4

\* The sum of natural numbers over a finite set is one
LEMMA SumIsNatural ==
  ASSUME NEW S, IsFiniteSet(S), NEW f, \A x \in S : f[x] \in Nat
  PROVE  SumOver(f, S) \in Nat
<1> DEFINE g == CHOOSE g : g = [t \in SUBSET S |-> Summed(f, g, t)]
<1>1. SumOver(f, S) = g[S]
  BY DEF SumOver, Summed, Some
<1>2. g = [t \in SUBSET S |-> Summed(f, g, t)]
  BY SumExists
<1> HIDE DEF g
<1> DEFINE T == {n \in Nat : \E t \in SUBSET S : Cardinality(t) = n /\ g[t] \notin Nat}
<1>3. ASSUME T # {} PROVE FALSE
  <2>1. PICK n \in T : \A m \in T : ~(m < n)
    BY <1>3, LeastNumber
  <2>2. PICK t \in SUBSET S : Cardinality(t) = n /\ g[t] \notin Nat
    BY <2>1
  <2>3. g[t] = Summed(f, g, t)
    BY <1>2
  <2>4. t # {}
    BY <2>2, <2>3 DEF Summed
  <2>5. Some(t) \in S /\ t \ {Some(t)} \in SUBSET S /\ Cardinality(t \ {Some(t)}) \in Nat
        /\ Cardinality(t \ {Some(t)}) < n
    BY <2>2, <2>4, OneLess
  <2>6. g[t \ {Some(t)}] \in Nat
    BY <2>1, <2>5
  <2>7. f[Some(t)] \in Nat
    BY <2>5
  <2>8. g[t] = f[Some(t)] + g[t \ {Some(t)}]
    BY <2>3, <2>4 DEF Summed
  <2> QED BY <2>2, <2>6, <2>7, <2>8
<1>4. Cardinality(S) \in Nat
  BY FS_CardinalityType
<1> QED BY <1>1, <1>3, <1>4

\* A window has a natural number of characters
LEMMA CharsNatural ==
  ASSUME NEW s, \A i \in 1..Len(s) : s[i] \in Nat, Len(s) \in Nat,
         NEW w, w.start \in Nat, w.end \in 0..Len(s)
  PROVE  Local!Chars(s, w) \in Nat
<1> DEFINE S == (w.start + 1)..w.end
<1>1. IsFiniteSet(S)
  <2>1. w.start + 1 \in Int /\ w.end \in Int
    OBVIOUS
  <2> QED BY <2>1, FS_Interval
<1>2. \A x \in S : s[x] \in Nat
  OBVIOUS
<1> HIDE DEF S
<1>3. SumOver(s, S) \in Nat
  BY <1>1, <1>2, SumIsNatural
<1> QED BY <1>3, CharsSummed DEF S

-----------------------------------------------------------------------------
(* Budgets that are cut                                                    *)

\* Budgets of some passage at least, not below the floor of windowCharBudget
FairBudgets == {b \in [chars : Nat, count : Nat \ {0}] : b.chars >= CharFloor}

LEMMA LargerOfTwo ==
  ASSUME NEW m \in Nat, NEW n \in Nat
  PROVE  Local!Max({m, n}) = IF m >= n THEN m ELSE n
<1> DEFINE k == IF m >= n THEN m ELSE n
<1>1. k \in {m, n} /\ \A y \in {m, n} : k >= y
  OBVIOUS
<1>2. \A j \in {m, n} : (\A y \in {m, n} : j >= y) => j = k
  OBVIOUS
<1> QED BY <1>1, <1>2 DEF Local!Max

\* A cut leaves fair budgets, no larger, and smaller ones where there is something to halve
LEMMA CutOnce ==
  ASSUME CharFloor \in Nat, NEW b \in FairBudgets
  PROVE  LET c == Local!ShrinkSettings(b)
         IN /\ c \in FairBudgets /\ c.chars <= b.chars /\ c.count <= b.count
            /\ \/ c.chars = CharFloor /\ c.count = 1
               \/ c.chars + c.count < b.chars + b.count
<1>1. b.chars \in Nat /\ b.count \in Nat /\ b.count > 0 /\ b.chars >= CharFloor
  BY DEF FairBudgets
<1> DEFINE half == b.chars \div 2
           few == b.count \div 2
<1>2. half \in Nat /\ half <= b.chars /\ (b.chars > 0 => half < b.chars)
  BY <1>1
<1>3. few \in Nat /\ few < b.count
  BY <1>1
<1> HIDE DEF half, few
<1>4. Local!ShrinkSettings(b) = [chars |-> IF CharFloor >= half THEN CharFloor ELSE half,
                                 count |-> IF 1 >= few THEN 1 ELSE few]
  BY <1>2, <1>3, LargerOfTwo DEF Local!ShrinkSettings, half, few
<1> QED BY <1>1, <1>2, <1>3, <1>4 DEF FairBudgets

Halved(b, h, k) == IF k = 0 THEN b ELSE Local!ShrinkSettings(h[k - 1])

LEMMA HalvingsExist ==
  ASSUME NEW b, NEW n \in Nat
  PROVE  \E h : h = [k \in 0..n |-> Halved(b, h, k)]
<1> DEFINE Good(m) == \E h : h = [k \in 0..m |-> Halved(b, h, k)]
           T == {m \in Nat : ~Good(m)}
<1>1. ASSUME T # {} PROVE FALSE
  <2>1. PICK m \in T : \A j \in T : ~(j < m)
    <3> HIDE DEF Good
    <3> QED BY <1>1, LeastNumber
  <2>2. CASE m = 0
    <3> DEFINE h == [k \in 0..0 |-> b]
    <3>1. h = [k \in 0..0 |-> Halved(b, h, k)]
      BY DEF Halved
    <3> HIDE DEF h
    <3> QED BY <2>1, <2>2, <3>1
  <2>3. CASE m > 0
    <3>1. m - 1 \in Nat /\ Good(m - 1)
      <4> HIDE DEF Good
      <4> QED BY <2>1, <2>3
    <3>2. PICK g : g = [k \in 0..(m - 1) |-> Halved(b, g, k)]
      BY <3>1
    <3> DEFINE h == [k \in 0..m |-> Halved(b, g, k)]
    <3>3. \A k \in 0..(m - 1) : g[k] = h[k]
      <4>1. \A k \in 0..(m - 1) : k \in 0..m
        BY <2>1
      <4>2. \A k \in 0..(m - 1) : g[k] = Halved(b, g, k)
        BY <3>2
      <4> QED BY <4>1, <4>2
    <3>4. \A k \in 0..m : Halved(b, g, k) = Halved(b, h, k)
      <4> HIDE DEF h
      <4>1. \A k \in 0..m : k # 0 => k - 1 \in 0..(m - 1)
        BY <2>1
      <4> QED BY <3>3, <4>1 DEF Halved
    <3>5. h = [k \in 0..m |-> Halved(b, h, k)]
      BY <3>4
    <3> HIDE DEF h
    <3> QED BY <2>1, <3>5
  <2> QED BY <2>1, <2>2, <2>3
<1> HIDE DEF Good
<1> QED
  <2>1. Good(n)
    BY <1>1
  <2> QED BY <2>1 DEF Good

\* After so many halvings there is nothing left to halve
LEMMA HalvingsEnd ==
  ASSUME CharFloor \in Nat, NEW b \in FairBudgets
  PROVE  LET h == Local!Halvings(b)
             n == b.chars + b.count
         IN /\ n \in Nat \ {0}
            /\ \A k \in 0..n : h[k] \in FairBudgets /\ h[k].chars <= b.chars /\ h[k].count <= b.count
            /\ h[n].chars <= CharFloor /\ h[n].count = 1
<1> DEFINE n == b.chars + b.count
           h == CHOOSE g : g = [k \in 0..n |-> Halved(b, g, k)]
           Low(c) == c.chars = CharFloor /\ c.count = 1
           Fine(k) == /\ h[k] \in FairBudgets /\ h[k].chars <= b.chars /\ h[k].count <= b.count
                      /\ (k > 0 /\ Low(h[k])) \/ h[k].chars + h[k].count <= n - k
           T == {k \in 0..n : ~Fine(k)}
<1>1. n \in Nat /\ n > 0
  BY DEF FairBudgets
<1>2. Local!Halvings(b) = h
  BY DEF Local!Halvings, Halved
<1> HIDE DEF n
<1>7. h = [k \in 0..n |-> Halved(b, h, k)]
  BY <1>1, HalvingsExist
<1> HIDE DEF h
<1>3. ASSUME T # {} PROVE FALSE
  <2>1. PICK k \in T : \A j \in T : ~(j < k)
    <3>1. T \in SUBSET Nat
      BY <1>1
    <3> HIDE DEF Fine
    <3> QED BY <1>3, <3>1, LeastNumber
  <2>2. k \in 0..n /\ k \in Nat
    BY <1>1, <2>1
  <2>3. h[k] = Halved(b, h, k)
    BY <1>7, <2>2
  <2>4. CASE k = 0
    <3>1. h[k] = b
      BY <2>3, <2>4 DEF Halved
    <3>2. Fine(k)
      BY <1>1, <2>4, <3>1 DEF FairBudgets, n
    <3> QED BY <2>1, <3>2
  <2>5. CASE k > 0
    <3>1. k - 1 \in 0..n /\ Fine(k - 1)
      <4>1. k - 1 \in 0..n /\ k - 1 < k
        BY <1>1, <2>2, <2>5
      <4> HIDE DEF Fine
      <4> QED BY <2>1, <4>1
    <3>2. h[k] = Local!ShrinkSettings(h[k - 1])
      BY <2>2, <2>3, <2>5 DEF Halved
    <3> DEFINE p == h[k - 1]
    <3>3. p \in FairBudgets /\ p.chars <= b.chars /\ p.count <= b.count
          /\ (Low(p) \/ p.chars + p.count <= n - (k - 1))
      BY <3>1
    <3> HIDE DEF p
    <3>4. /\ h[k] \in FairBudgets /\ h[k].chars <= p.chars /\ h[k].count <= p.count
          /\ Low(h[k]) \/ h[k].chars + h[k].count < p.chars + p.count
      BY <3>2, <3>3, CutOnce DEF p
    <3>5. p.chars \in Nat /\ p.count \in Nat /\ h[k].chars \in Nat /\ h[k].count \in Nat
          /\ h[k].chars >= CharFloor /\ h[k].count >= 1 /\ b.chars \in Nat /\ b.count \in Nat
      BY <3>3, <3>4 DEF FairBudgets
    <3>6. h[k].chars <= b.chars /\ h[k].count <= b.count
      BY <3>3, <3>4, <3>5
    <3>7. Low(h[k]) \/ h[k].chars + h[k].count <= n - k
      BY <1>1, <2>2, <3>3, <3>4, <3>5
    <3>8. Fine(k)
      BY <2>5, <3>4, <3>6, <3>7
    <3> QED BY <2>1, <3>8
  <2> QED BY <2>2, <2>4, <2>5
<1>4. \A k \in 0..n : Fine(k)
  BY <1>3
<1>5. n \in 0..n
  BY <1>1
<1>6. h[n].chars <= CharFloor /\ h[n].count = 1
  <2>1. h[n] \in FairBudgets /\ (Low(h[n]) \/ h[n].chars + h[n].count <= n - n)
    BY <1>4, <1>5
  <2> QED BY <1>1, <2>1 DEF FairBudgets
<1> QED BY <1>1, <1>2, <1>4, <1>6 DEF n

-----------------------------------------------------------------------------
(* Windows that are cut                                                    *)

\* No other passage fits into a window that was planned
LEMMA WindowFull ==
  ASSUME NEW s, Len(s) \in Nat, NEW from \in 0..(Len(s) - 1), NEW b
  PROVE  LET w(e) == [start |-> from, end |-> e]
             e == Local!PlanWindow(s, from, b).end
         IN /\ e \in (from + 1)..Len(s)
            /\ \A k \in (from + 2)..e : Local!WindowFits(s, w(k), b)
            /\ e < Len(s) => ~Local!WindowFits(s, w(e + 1), b)
<1> DEFINE w(e) == [start |-> from, end |-> e]
           stops == {k \in (from + 2)..Len(s) : ~Local!WindowFits(s, w(k), b)}
           Full(e) == /\ \A k \in (from + 2)..e : Local!WindowFits(s, w(k), b)
                      /\ e < Len(s) => ~Local!WindowFits(s, w(e + 1), b)
           last == CHOOSE i \in (from + 1)..Len(s) : Full(i)
<1>1. PICK e \in (from + 1)..Len(s) : FirstBefore(from, Len(s), stops, e)
  <2> HIDE DEF stops
  <2> QED BY FirstStop
<1>2. Full(e)
  <2>1. ASSUME NEW k \in (from + 2)..e PROVE Local!WindowFits(s, w(k), b)
    <3>1. k \in (from + 2)..Len(s)
      OBVIOUS
    <3> QED BY <1>1, <2>1, <3>1 DEF FirstBefore
  <2>2. ASSUME e < Len(s) PROVE ~Local!WindowFits(s, w(e + 1), b)
    BY <1>1, <2>2 DEF FirstBefore
  <2> QED BY <2>1, <2>2
<1>3. last \in (from + 1)..Len(s) /\ Full(last)
  <2> HIDE DEF Full
  <2> QED BY <1>1, <1>2
<1>4. Local!PlanWindow(s, from, b).end = last
  BY DEF Local!PlanWindow
<1> HIDE DEF last
<1> QED BY <1>3, <1>4

\* A window has a passage at least, and ends within the chapter
LEMMA LocalWindow ==
  ASSUME NEW s, Len(s) \in Nat, NEW from \in 0..(Len(s) - 1), NEW b
  PROVE  /\ Local!PlanWindow(s, from, b).start = from
         /\ Local!PlanWindow(s, from, b).end \in (from + 1)..Len(s)
<1>1. Local!PlanWindow(s, from, b).start = from
  BY DEF Local!PlanWindow
<1> QED BY <1>1, WindowFull

\* Smaller budgets never plan a longer window
LEMMA SmallerWindow ==
  ASSUME NEW s, Len(s) \in Nat, \A i \in 1..Len(s) : s[i] \in Nat, NEW from \in 0..(Len(s) - 1),
         NEW b \in FairBudgets, NEW c \in FairBudgets, c.chars <= b.chars, c.count <= b.count
  PROVE  Local!PlanWindow(s, from, c).end <= Local!PlanWindow(s, from, b).end
<1> DEFINE w(e) == [start |-> from, end |-> e]
           d == Local!PlanWindow(s, from, c).end
           e == Local!PlanWindow(s, from, b).end
<1>1. /\ d \in (from + 1)..Len(s) /\ e \in (from + 1)..Len(s)
      /\ \A k \in (from + 2)..d : Local!WindowFits(s, w(k), c)
      /\ e < Len(s) => ~Local!WindowFits(s, w(e + 1), b)
  BY WindowFull
<1> HIDE DEF d, e
<1>2. ASSUME d > e PROVE FALSE
  <2>1. e + 1 \in (from + 2)..d /\ e < Len(s) /\ e + 1 \in 0..Len(s)
    BY <1>1, <1>2
  <2>2. Local!WindowFits(s, w(e + 1), c) /\ ~Local!WindowFits(s, w(e + 1), b)
    BY <1>1, <2>1
  <2>3. w(e + 1).start \in Nat /\ w(e + 1).end \in 0..Len(s)
    BY <2>1
  <2>4. Local!Count(w(e + 1)) \in Int
    BY <2>1 DEF Local!Count
  <2>5. b.chars \in Nat /\ c.chars \in Nat /\ b.count \in Nat /\ c.count \in Nat
    BY DEF FairBudgets
  <2> HIDE DEF w
  <2>6. Local!Chars(s, w(e + 1)) \in Nat
    BY <2>3, CharsNatural
  <2> QED BY <2>2, <2>4, <2>5, <2>6 DEF Local!WindowFits
<1> QED BY <1>1, <1>2 DEF d, e

\* With a budget of one passage, windows have one
LEMMA OneByOne ==
  ASSUME NEW s, Len(s) \in Nat, NEW from \in 0..(Len(s) - 1), NEW c, c.count = 1
  PROVE  Local!PlanWindow(s, from, c).end = from + 1
<1> DEFINE w(e) == [start |-> from, end |-> e]
           d == Local!PlanWindow(s, from, c).end
<1>1. d \in (from + 1)..Len(s) /\ \A k \in (from + 2)..d : Local!WindowFits(s, w(k), c)
  BY WindowFull
<1> HIDE DEF d
<1>2. ASSUME d # from + 1 PROVE FALSE
  <2>1. from + 2 \in (from + 2)..d
    BY <1>1, <1>2
  <2>2. Local!WindowFits(s, w(from + 2), c)
    BY <1>1, <2>1
  <2>3. Local!Count(w(from + 2)) = 2
    BY DEF Local!Count
  <2> HIDE DEF w
  <2> QED BY <2>2, <2>3 DEF Local!WindowFits
<1> QED BY <1>2 DEF d

\* Cut budgets plan a shorter window, where the one before had passages to spare
LEMMA ShrunkShortens ==
  ASSUME CharFloor \in Nat,
         NEW s, Len(s) \in Nat, \A i \in 1..Len(s) : s[i] \in Nat, NEW b \in FairBudgets,
         NEW w, w.start \in 0..(Len(s) - 1), w.end > w.start + 1,
         w.end = Local!PlanWindow(s, w.start, b).end
  PROVE  /\ Local!Shrunk(s, b, w) \in FairBudgets
         /\ Local!PlanWindow(s, w.start, Local!Shrunk(s, b, w)).end < w.end
<1> DEFINE n == b.chars + b.count
           h == Local!Halvings(b)
           ends(k) == Local!PlanWindow(s, w.start, h[k]).end
           moves(k) == ends(k) # w.end
           floor(k) == h[k].chars <= CharFloor /\ h[k].count = 1
           Stops(k) == moves(k) \/ floor(k)
           First(k) == Stops(k) /\ \A j \in 1..(k - 1) : ~moves(j) /\ ~floor(j)
           T == {k \in 1..n : Stops(k)}
           stop == CHOOSE k \in 1..n : First(k)
<1>1. /\ n \in Nat \ {0}
      /\ \A k \in 0..n : h[k] \in FairBudgets /\ h[k].chars <= b.chars /\ h[k].count <= b.count
      /\ floor(n)
  BY HalvingsEnd
<1>2. Local!Shrunk(s, b, w) = h[stop]
  BY DEF Local!Shrunk
<1> HIDE DEF n, h
<1>3. PICK k \in T : \A j \in T : ~(j < k)
  <2>1. n \in T /\ T \in SUBSET Nat
    BY <1>1
  <2> HIDE DEF T
  <2> QED BY <2>1, LeastNumber
<1>4. k \in 1..n /\ First(k)
  <2>1. k \in 1..n /\ Stops(k)
    BY <1>3
  <2>2. ASSUME NEW j \in 1..(k - 1) PROVE ~Stops(j)
    <3>1. j \in 1..n /\ j < k
      BY <1>1, <2>1
    <3> HIDE DEF Stops
    <3> QED BY <1>3, <3>1
  <2> QED BY <2>1, <2>2
<1>5. stop \in 1..n /\ First(stop)
  <2> HIDE DEF First
  <2> QED BY <1>4
<1> HIDE DEF stop
<1>6. h[stop] \in FairBudgets /\ h[stop].chars <= b.chars /\ h[stop].count <= b.count
  BY <1>1, <1>5
<1>7. ends(stop) <= w.end /\ ends(stop) \in Int /\ w.end \in Int
  <2>1. ends(stop) <= Local!PlanWindow(s, w.start, b).end
    BY <1>6, SmallerWindow
  <2>2. ends(stop) \in Int /\ Local!PlanWindow(s, w.start, b).end \in Int
    <3>1. /\ Local!PlanWindow(s, w.start, h[stop]).end \in (w.start + 1)..Len(s)
          /\ Local!PlanWindow(s, w.start, b).end \in (w.start + 1)..Len(s)
      BY LocalWindow
    <3>2. w.start \in Int
      OBVIOUS
    <3> QED BY <3>1, <3>2
  <2> QED BY <2>1, <2>2
<1>8. ends(stop) < w.end
  <2>1. CASE moves(stop)
    BY <1>7, <2>1
  <2>2. CASE floor(stop)
    <3>1. ends(stop) = w.start + 1
      BY <2>2, OneByOne
    <3> QED BY <3>1
  <2> QED BY <1>5, <2>1, <2>2
<1> QED BY <1>2, <1>6, <1>8
-----------------------------------------------------------------------------
(* One call of the local director                                          *)

CallStages == {"starting", "opening", "planning", "fitting", "requesting", "streaming", "validating", "settled"}

\* Where a window is being worked on
Placing == {"fitting", "requesting", "streaming", "validating"}

LocalTyped ==
  /\ lSize \in UNION {[1..n -> LocalSizes] : n \in 1..MaxPassages}
  /\ Len(lSize) \in 1..MaxPassages
  /\ lShrinks \in 0..MaxShrinks /\ lAttempt \in 0..LocalAttempts /\ lIndex \in Nat /\ lRequests \in Nat
  /\ lWindow \in [start : 0..Len(lSize), end : 0..Len(lSize)]
  /\ lSent \in Seq([start : Nat, end : Nat, request : Nat])
  /\ lLedger \in Seq({"started", "failed", "cancelled", "completed"})
  /\ lLate \in BOOLEAN /\ lAborted \in BOOLEAN
  /\ lPc \in CallStages
  /\ lAnswer \in {"none", "chapter", "failed"} /\ (lAnswer = "none" <=> lPc # "settled")

\* What was accepted lies one behind the other, and so does the window that is worked on
LocalPlaced ==
  /\ lSent # <<>> => lSent[1].start = 0
  /\ \A k \in 1..Len(lSent) :
       /\ lSent[k].request = k /\ lSent[k].start < lSent[k].end
       /\ k < Len(lSent) => lSent[k].end = lSent[k + 1].start
  /\ Local!NextIndex \in Nat /\ Len(lSent) <= Local!NextIndex /\ Local!NextIndex <= Len(lSize)
  /\ lPc \in {"starting", "opening"} => lSent = <<>> /\ lIndex = 0
  /\ lPc = "planning" => lIndex = Len(lSent)
  /\ lPc \in Placing =>
       /\ lIndex = Len(lSent) + 1 /\ lWindow.start = Local!NextIndex
       /\ lWindow.start < lWindow.end
  /\ lAnswer = "chapter" => Local!NextIndex = Len(lSize)

\* Windows begun and not accepted were cut, and none was asked for more often than allowed
LocalCounted ==
  LET spent == LocalAttempts * (Len(lSent) + lShrinks)
  IN /\ lRequests <= LocalAttempts * (Len(lSize) + MaxShrinks)
     /\ lPc \in {"starting", "opening", "planning", "fitting"} => lRequests <= spent
     /\ lPc = "requesting" => lAttempt > 0 /\ lRequests <= spent + lAttempt - 1
     /\ lPc \in {"streaming", "validating"} => lAttempt > 0 /\ lRequests <= spent + lAttempt

\* The store hears of an end when the call has one
LocalTold ==
  /\ lPc # "settled" => \A k \in DOMAIN lLedger : lLedger[k] = "started"
  /\ Local!LedgerTruthful

LocalInv == LocalTyped /\ LocalPlaced /\ LocalCounted /\ LocalTold

\* A chapter has as many passages as it has numbers
LEMMA ChapterLength ==
  ASSUME NEW S, NEW s \in UNION {[1..n -> S] : n \in 1..MaxPassages}
  PROVE  Len(s) \in 1..MaxPassages
<1>1. PICK n \in 1..MaxPassages : s \in [1..n -> S]
  OBVIOUS
<1>2. n \in Nat /\ s \in Seq(S)
  BY <1>1, CallsAssumption
<1>3. DOMAIN s = 1..Len(s) /\ DOMAIN s = 1..n /\ Len(s) \in Nat
  BY <1>1, <1>2
<1> QED BY <1>1, <1>2, <1>3

LEMMA LocalInit == Local!Init => LocalInv
<1> SUFFICES ASSUME Local!Init PROVE LocalInv
  OBVIOUS
<1>1. Len(lSize) \in 1..MaxPassages
  BY ChapterLength DEF Local!Init
<1>2. LocalTyped
  <2>1. lSent \in Seq([start : Nat, end : Nat, request : Nat])
        /\ lLedger \in Seq({"started", "failed", "cancelled", "completed"})
    BY DEF Local!Init
  <2>2. lWindow \in [start : 0..Len(lSize), end : 0..Len(lSize)]
    BY <1>1, CallsAssumption DEF Local!Init
  <2>3. lShrinks \in 0..MaxShrinks /\ lAttempt \in 0..LocalAttempts /\ lIndex \in Nat /\ lRequests \in Nat
    BY CallsAssumption DEF Local!Init
  <2> QED BY <1>1, <2>1, <2>2, <2>3 DEF Local!Init, LocalTyped, CallStages
<1>3. LocalPlaced
  <2>1. lSent = <<>> /\ Len(lSent) = 0 /\ Local!NextIndex = 0
    BY DEF Local!Init, Local!NextIndex
  <2>2. lPc = "starting" /\ lAnswer = "none" /\ lIndex = 0
    BY DEF Local!Init
  <2>3. \A k \in 1..Len(lSent) : FALSE
    BY <2>1
  <2>4. Len(lSize) \in Nat
    BY <1>1
  <2> QED BY <2>1, <2>2, <2>3, <2>4 DEF LocalPlaced, Placing
<1>4. LocalCounted
  <2>1. LocalAttempts * (0 + 0) = 0 /\ LocalAttempts * (Len(lSize) + MaxShrinks) >= 0
    BY <1>1, CallsAssumption
  <2> QED BY <1>1, <2>1, CallsAssumption DEF Local!Init, LocalCounted
<1>5. LocalTold
  BY DEF Local!Init, LocalTold, Local!LedgerTruthful
<1> QED BY <1>2, <1>3, <1>4, <1>5 DEF LocalInv

\* A chapter that was accepted to its end is tiled
LEMMA LocalCovers ==
  ASSUME LocalInv, Local!NextIndex = Local!Total
  PROVE  Local!Tiles(lSent, Local!Total)
<1>1. Len(lSize) > 0 /\ lSent # <<>> /\ Len(lSent) \in Nat
  BY SMTT(30) DEF LocalInv, LocalTyped, Local!NextIndex, Local!Total
<1>2. Len(lSent) \in 1..Len(lSent)
  BY <1>1 DEF LocalInv, LocalTyped
<1>3. lSent[Len(lSent)].end = Local!Total
  BY <1>1 DEF Local!NextIndex
<1>4. \A k \in 1..(Len(lSent) - 1) : lSent[k].end = lSent[k + 1].start
  BY <1>1 DEF LocalInv, LocalPlaced
<1> QED BY <1>1, <1>3, <1>4 DEF Local!Tiles, LocalInv, LocalPlaced

\* Another request for a window, or the next window, is paid for
LEMMA Affordable ==
  ASSUME NEW m \in Nat, NEW n \in Nat, NEW t \in Nat, n < t, NEW c \in Nat, NEW x \in Nat, c <= x
  PROVE  /\ m * (n + c) + m <= m * (t + x)
         /\ m * ((n + 1) + c) = m * (n + c) + m
         /\ m * (n + (c + 1)) = m * (n + c) + m
         /\ m * (n + c) \in Nat
<1>1. (n + c) + 1 <= t + x
  OBVIOUS
<1>2. m * ((n + c) + 1) <= m * (t + x)
  <2> DEFINE u == (n + c) + 1
             v == t + x
  <2>1. u \in Nat /\ v \in Nat /\ u <= v
    BY <1>1
  <2> HIDE DEF u, v
  <2>2. m * (v - u) >= 0 /\ m * (v - u) = m * v - m * u
    BY <2>1
  <2>3. m * u <= m * v
    <3>1. m * u \in Nat /\ m * v \in Nat
      BY <2>1
    <3> QED BY <2>2, <3>1
  <2> QED BY <2>3 DEF u, v
<1>3. m * ((n + c) + 1) = m * (n + c) + m
  OBVIOUS
<1> QED BY <1>2, <1>3

LEMMA LocalQuiet ==
  ASSUME LocalInv, lPc # "settled", lAnswer' = "none",
         lLedger' \in {lLedger, Append(lLedger, "started")}
  PROVE  LocalTold' /\ lLedger' \in Seq({"started", "failed", "cancelled", "completed"})
<1>1. lLedger \in Seq({"started", "failed", "cancelled", "completed"})
      /\ \A k \in DOMAIN lLedger : lLedger[k] = "started"
  BY DEF LocalInv, LocalTyped, LocalTold
<1>2. lLedger' \in Seq({"started", "failed", "cancelled", "completed"})
      /\ \A k \in DOMAIN lLedger' : lLedger'[k] = "started"
  BY <1>1
<1> QED BY <1>2 DEF LocalTold, Local!LedgerTruthful

\* The call rejects, and may have said so
LEMMA LocalEnds ==
  ASSUME LocalInv, lPc # "settled", lPc' = "settled", lAnswer' = "failed",
         NEW why \in {"started", "failed", "cancelled", "completed"},
         lLedger' \in {lLedger, Append(lLedger, why)}, why = "cancelled" => lAborted,
         why = "completed" => Local!Tiles(lSent, Local!Total),
         UNCHANGED <<Local!call, lLate, lAborted>>
  PROVE  LocalInv'
<1>1. lLedger \in Seq({"started", "failed", "cancelled", "completed"})
      /\ \A k \in DOMAIN lLedger : lLedger[k] = "started"
  BY DEF LocalInv, LocalTyped, LocalTold
<1>2. lLedger' \in Seq({"started", "failed", "cancelled", "completed"})
      /\ \A k \in DOMAIN lLedger' :
           lLedger'[k] = "started" \/ (lLedger'[k] = why /\ k = Len(lLedger) + 1)
  BY <1>1
<1>3. UNCHANGED <<lSize, lBudget, lShrinks, lWindow, lIndex, lAttempt, lSent, lRequests, lLate, lAborted>>
  BY DEF Local!call
<1>4. LocalTyped'
  BY <1>2, <1>3 DEF LocalInv, LocalTyped, CallStages
<1>5. Local!NextIndex' = Local!NextIndex /\ Local!Tiles(lSent, Local!Total)' = Local!Tiles(lSent, Local!Total)
  BY <1>3 DEF Local!NextIndex, Local!Tiles, Local!Total
<1>6. LocalPlaced'
  BY <1>3, <1>5 DEF LocalInv, LocalPlaced, Placing
<1>7. LocalCounted'
  BY <1>3 DEF LocalInv, LocalCounted
<1>8. LocalTold'
  BY <1>2, <1>3, <1>5 DEF LocalTold, Local!LedgerTruthful
<1> QED BY <1>4, <1>6, <1>7, <1>8 DEF LocalInv

\* The call goes on with what it has accepted
LEMMA LocalGoes ==
  ASSUME LocalInv, lPc # "settled", lPc' \in CallStages \ {"settled"}, UNCHANGED <<lSize, lSent, lAnswer>>,
         lLedger' \in {lLedger, Append(lLedger, "started")},
         lLate' \in BOOLEAN, lAborted' \in BOOLEAN,
         lShrinks' \in 0..MaxShrinks, lAttempt' \in 0..LocalAttempts, lIndex' \in Nat, lRequests' \in Nat,
         lWindow' \in [start : 0..Len(lSize), end : 0..Len(lSize)],
         lPc' \in {"starting", "opening"} => lSent = <<>> /\ lIndex' = 0,
         lPc' = "planning" => lIndex' = Len(lSent),
         lPc' \in Placing =>
           /\ lIndex' = Len(lSent) + 1 /\ lWindow'.start = Local!NextIndex
           /\ lWindow'.start < lWindow'.end,
         LocalCounted'
  PROVE  LocalInv'
<1>1. lAnswer = "none"
  BY DEF LocalInv, LocalTyped
<1>2. LocalTold' /\ lLedger' \in Seq({"started", "failed", "cancelled", "completed"})
  BY <1>1, LocalQuiet
<1>3. LocalTyped'
  BY <1>1, <1>2 DEF LocalInv, LocalTyped, CallStages
<1>4. Local!NextIndex' = Local!NextIndex
  BY DEF Local!NextIndex
<1>5. LocalPlaced'
  BY <1>1, <1>4 DEF LocalInv, LocalPlaced
<1> QED BY <1>2, <1>3, <1>5 DEF LocalInv
\* What is not accepted yet begins a window
LEMMA LocalNextWindow ==
  ASSUME LocalInv, Local!NextIndex < Len(lSize), NEW b
  PROVE  LET w == Local!PlanWindow(lSize, Local!NextIndex, b)
         IN /\ w \in [start : 0..Len(lSize), end : 0..Len(lSize)]
            /\ w.start = Local!NextIndex /\ w.start < w.end
<1>1. Len(lSize) \in Nat /\ Local!NextIndex \in 0..(Len(lSize) - 1)
  BY DEF LocalInv, LocalTyped, LocalPlaced
<1> DEFINE w == Local!PlanWindow(lSize, Local!NextIndex, b)
<1>2. w.start = Local!NextIndex /\ w.end \in (Local!NextIndex + 1)..Len(lSize)
  BY <1>1, LocalWindow
<1>3. w = [start |-> w.start, end |-> w.end]
  BY DEF Local!PlanWindow
<1> HIDE DEF w
<1>4. w \in [start : 0..Len(lSize), end : 0..Len(lSize)]
  BY <1>1, <1>2, <1>3
<1> QED BY <1>1, <1>2, <1>4 DEF w

\* While a window is worked on there is one
LEMMA LocalAhead ==
  ASSUME LocalInv, lPc \in Placing
  PROVE  Local!NextIndex < Len(lSize) /\ Len(lSent) < Len(lSize) /\ Len(lSent) \in Nat
         /\ Len(lSize) \in Nat
<1>1. lWindow.start = Local!NextIndex /\ lWindow.start < lWindow.end /\ lWindow.end \in 0..Len(lSize)
  BY DEF LocalInv, LocalTyped, LocalPlaced
<1>2. Len(lSent) \in Nat /\ Len(lSize) \in Nat
  BY DEF LocalInv, LocalTyped
<1> QED BY <1>1, <1>2 DEF LocalInv, LocalPlaced

\* A cut of the windows gives up at most the requests for one
LEMMA LocalCut ==
  ASSUME LocalInv, lPc \in {"streaming", "validating"}, Local!Recovers, UNCHANGED Local!Env
  PROVE  LocalInv'
<1>1. /\ lPc' = "planning" /\ lShrinks' = lShrinks + 1 /\ lIndex' = lIndex - 1 /\ lShrinks < MaxShrinks
      /\ UNCHANGED <<lSize, lWindow, lAttempt, lSent, lRequests, lLedger, lAnswer, lLate, lAborted>>
  BY DEF Local!Recovers, Local!Goes, Local!Env
<1>2. lIndex = Len(lSent) + 1 /\ Len(lSent) \in Nat /\ lShrinks \in 0..MaxShrinks
  BY DEF LocalInv, LocalPlaced, LocalTyped, Placing
<1>3. LocalCounted'
  <2>1. lRequests <= LocalAttempts * (Len(lSent) + lShrinks) + lAttempt
        /\ lAttempt <= LocalAttempts /\ lAttempt \in Nat /\ lRequests \in Nat
    BY DEF LocalInv, LocalCounted, LocalTyped
  <2>2. LocalAttempts * (Len(lSent) + (lShrinks + 1)) = LocalAttempts * (Len(lSent) + lShrinks) + LocalAttempts
        /\ LocalAttempts * (Len(lSent) + lShrinks) \in Nat
    BY <1>1, <1>2, LocalAhead, Affordable, CallsAssumption DEF Placing
  <2>3. lRequests <= LocalAttempts * (Len(lSent) + (lShrinks + 1))
    BY <2>1, <2>2, CallsAssumption
  <2> QED BY <1>1, <2>3 DEF LocalInv, LocalCounted
<1>4. LocalTyped
  BY DEF LocalInv
<1> QED BY <1>1, <1>2, <1>3, <1>4, LocalGoes, CallsAssumption DEF LocalTyped, CallStages, Placing

LEMMA LocalTooLarge ==
  ASSUME LocalInv, lPc \in {"streaming", "validating"}, Local!TooLarge, UNCHANGED Local!Env
  PROVE  LocalInv'
<1>1. CASE Local!Recovers
  BY <1>1, LocalCut
<1>2. CASE Local!Breaks /\ UNCHANGED Local!call
  BY <1>2, LocalEnds DEF Local!Breaks, Local!Fails, Local!Env
<1> QED BY <1>1, <1>2 DEF Local!TooLarge

LEMMA LocalFitting ==
  ASSUME LocalInv, Local!Fit
  PROVE  LocalInv'
<1>1. lPc = "fitting" /\ UNCHANGED <<lLate, lAborted>>
  BY DEF Local!Fit, Local!Env
<1>2. LocalTyped /\ LocalPlaced /\ LocalCounted
  BY DEF LocalInv
<1>3. lRequests <= LocalAttempts * (Len(lSent) + lShrinks) /\ lIndex = Len(lSent) + 1
      /\ lWindow.start = Local!NextIndex /\ lWindow.start < lWindow.end
  BY <1>1, <1>2 DEF LocalCounted, LocalPlaced, Placing
<1>4. CASE Local!Goes("requesting") /\ lAttempt' = 1
           /\ UNCHANGED <<lSize, lBudget, lShrinks, lWindow, lIndex, lSent, lRequests, lLedger>>
  <2>1. LocalCounted'
    <3>1. lRequests <= LocalAttempts * (Len(lSent) + lShrinks) + 1 - 1
      <4>1. lRequests \in Nat /\ LocalAttempts * (Len(lSent) + lShrinks) \in Nat
        BY <1>1, <1>2, LocalAhead, Affordable, CallsAssumption DEF Placing, LocalTyped
      <4> QED BY <1>3, <4>1
    <3> QED BY <1>2, <1>4, <3>1 DEF LocalCounted, Local!Goes
  <2> QED BY <1>1, <1>2, <1>3, <1>4, <2>1, LocalGoes, CallsAssumption DEF Local!Goes, LocalTyped, CallStages, Placing
<1>5. CASE Local!Breaks /\ UNCHANGED Local!call
  BY <1>1, <1>5, LocalEnds DEF Local!Breaks, Local!Fails
<1>6. CASE /\ lShrinks < MaxShrinks /\ lShrinks' = lShrinks + 1
           /\ lWindow' = Local!PlanWindow(lSize, Local!NextIndex, lBudget')
           /\ UNCHANGED <<lSize, lIndex, lAttempt, lSent, lRequests, lLedger, lPc, lAnswer>>
  <2>1. Local!NextIndex < Len(lSize) /\ Len(lSent) < Len(lSize) /\ Len(lSent) \in Nat /\ Len(lSize) \in Nat
    BY <1>1, LocalAhead DEF Placing
  <2>2. LocalCounted'
    <3>1. lRequests <= LocalAttempts * (Len(lSent) + (lShrinks + 1))
      <4>1. lRequests \in Nat /\ LocalAttempts * (Len(lSent) + lShrinks) \in Nat
            /\ LocalAttempts * (Len(lSent) + (lShrinks + 1)) = LocalAttempts * (Len(lSent) + lShrinks) + LocalAttempts
        BY <1>2, <2>1, Affordable, CallsAssumption DEF LocalTyped
      <4> QED BY <1>3, <4>1, CallsAssumption
    <3> QED BY <1>1, <1>2, <1>6, <3>1 DEF LocalCounted
  <2>3. lWindow' \in [start : 0..Len(lSize), end : 0..Len(lSize)]
        /\ lWindow'.start = Local!NextIndex /\ lWindow'.start < lWindow'.end
    BY <1>6, <2>1, LocalNextWindow
  <2>4. lShrinks' \in 0..MaxShrinks
    BY <1>2, <1>6, CallsAssumption DEF LocalTyped
  <2> QED BY <1>1, <1>2, <1>3, <1>6, <2>2, <2>3, <2>4, LocalGoes DEF LocalTyped, CallStages, Placing
<1> QED BY <1>4, <1>5, <1>6 DEF Local!Fit
\* What goes on neither to a window nor to a request
LEMMA LocalBegins ==
  ASSUME LocalInv, Local!Start \/ Local!Open \/ Local!Plan
  PROVE  LocalInv'
<1>1. LocalTyped /\ LocalPlaced /\ LocalCounted
  BY DEF LocalInv
<1>2. CASE Local!Start
  <2>1. CASE Local!Rejects
    BY <1>2, <2>1, LocalEnds DEF Local!Start, Local!Rejects, Local!Env
  <2>2. CASE Local!Goes("opening") /\ UNCHANGED lLedger
    <3>1. LocalCounted' /\ lPc = "starting"
      BY <1>1, <1>2, <2>2 DEF Local!Start, Local!Goes, Local!call, LocalCounted
    <3> QED BY <1>1, <1>2, <2>2, <3>1, LocalGoes DEF Local!Start, Local!Goes, Local!call, Local!Env,
               LocalTyped, LocalPlaced, CallStages, Placing
  <2> QED BY <1>2, <2>1, <2>2 DEF Local!Start
<1>3. CASE Local!Open
  <2>1. CASE Local!Rejects
    BY <1>3, <2>1, LocalEnds DEF Local!Open, Local!Rejects, Local!Env
  <2>2. CASE lLedger' = Append(lLedger, "started") /\ lPc' = "settled" /\ lAnswer' = "failed"
    BY <1>3, <2>2, LocalEnds DEF Local!Open, Local!Env
  <2>3. CASE lLedger' = Append(lLedger, "started") /\ Local!Goes("planning")
    <3>1. LocalCounted' /\ lPc = "opening"
      BY <1>1, <1>3, <2>3 DEF Local!Open, Local!Goes, Local!call, LocalCounted
    <3>2. Len(lSent) = 0
      BY <1>1, <3>1 DEF LocalPlaced
    <3> QED BY <1>1, <1>3, <2>3, <3>1, <3>2, LocalGoes DEF Local!Open, Local!Goes, Local!call, Local!Env,
               LocalTyped, LocalPlaced, CallStages, Placing
  <2> QED BY <1>3, <2>1, <2>2, <2>3 DEF Local!Open
<1>4. CASE Local!Plan
  <2>1. CASE Local!Timeout /\ UNCHANGED Local!call
    BY <1>4, <2>1, LocalEnds DEF Local!Plan, Local!Timeout, Local!Fails, Local!Env
  <2>2. CASE /\ Local!Goes("fitting") /\ lIndex' = lIndex + 1
             /\ lWindow' = Local!PlanWindow(lSize, Local!NextIndex, lBudget)
             /\ UNCHANGED <<lSize, lBudget, lShrinks, lAttempt, lSent, lRequests, lLedger>>
    <3>1. LocalCounted' /\ lPc = "planning" /\ Local!NextIndex < Len(lSize)
      BY <1>1, <1>4, <2>2 DEF Local!Plan, Local!Goes, LocalCounted, Local!Total
    <3>2. lWindow' \in [start : 0..Len(lSize), end : 0..Len(lSize)]
          /\ lWindow'.start = Local!NextIndex /\ lWindow'.start < lWindow'.end
      BY <2>2, <3>1, LocalNextWindow
    <3>3. lIndex' = Len(lSent) + 1 /\ lIndex' \in Nat
      BY SMTT(30), <1>1, <2>2, <3>1 DEF LocalPlaced, LocalTyped
    <3> QED BY <1>1, <1>4, <2>2, <3>1, <3>2, <3>3, LocalGoes DEF Local!Plan, Local!Goes, Local!Env,
               LocalTyped, CallStages, Placing
  <2> QED BY <1>4, <2>1, <2>2 DEF Local!Plan
<1> QED BY <1>2, <1>3, <1>4

LEMMA LocalRequesting ==
  ASSUME LocalInv, Local!Request
  PROVE  LocalInv'
<1>1. lPc = "requesting" /\ UNCHANGED <<lLate, lAborted>>
  BY DEF Local!Request, Local!Env
<1>2. CASE UNCHANGED Local!call /\ (Local!Timeout \/ Local!Breaks \/ (lAborted /\ Local!Fails("cancelled")))
  BY <1>1, <1>2, LocalEnds DEF Local!Timeout, Local!Breaks, Local!Fails
<1>3. CASE /\ Local!Goes("streaming") /\ lRequests' = lRequests + 1
           /\ UNCHANGED <<lSize, lBudget, lShrinks, lWindow, lIndex, lAttempt, lSent, lLedger>>
  <2>1. LocalTyped /\ LocalPlaced /\ LocalCounted
    BY DEF LocalInv
  <2>2. lAttempt > 0 /\ lRequests <= LocalAttempts * (Len(lSent) + lShrinks) + lAttempt - 1
    BY <1>1, <2>1 DEF LocalCounted
  <2>3. /\ LocalAttempts * (Len(lSent) + lShrinks) + LocalAttempts <= LocalAttempts * (Len(lSize) + MaxShrinks)
        /\ LocalAttempts * (Len(lSent) + lShrinks) \in Nat
    <3>1. Len(lSent) \in Nat /\ Len(lSize) \in Nat /\ Len(lSent) < Len(lSize)
      BY <1>1, LocalAhead DEF Placing
    <3>2. lShrinks \in Nat /\ lShrinks <= MaxShrinks
      BY <2>1, CallsAssumption DEF LocalTyped
    <3>3. LocalAttempts \in Nat /\ MaxShrinks \in Nat
      BY CallsAssumption
    <3> QED BY <3>1, <3>2, <3>3, Affordable
  <2>4. LocalAttempts * (Len(lSize) + MaxShrinks) \in Nat
    BY <1>1, <2>1, LocalAhead, CallsAssumption DEF Placing
  <2>5. lRequests + 1 <= LocalAttempts * (Len(lSent) + lShrinks) + lAttempt
        /\ lRequests + 1 <= LocalAttempts * (Len(lSize) + MaxShrinks)
    <3> DEFINE x == LocalAttempts * (Len(lSent) + lShrinks)
               y == LocalAttempts * (Len(lSize) + MaxShrinks)
    <3>1. x \in Nat /\ y \in Nat /\ x + LocalAttempts <= y /\ lRequests <= x + lAttempt - 1
      BY <2>2, <2>3, <2>4
    <3>2. lRequests \in Nat /\ lAttempt \in Nat /\ LocalAttempts \in Nat /\ lAttempt <= LocalAttempts
      BY <2>1, CallsAssumption DEF LocalTyped
    <3> HIDE DEF x, y
    <3>3. lRequests + 1 <= x + lAttempt /\ lRequests + 1 <= y
      BY <3>1, <3>2
    <3> QED BY <3>3 DEF x, y
  <2>6. LocalCounted'
    BY <1>3, <2>2, <2>5 DEF LocalCounted, Local!Goes
  <2> QED BY <1>1, <1>3, <2>1, <2>6, LocalGoes DEF Local!Goes, LocalTyped, LocalPlaced, CallStages, Placing
<1> QED BY <1>2, <1>3 DEF Local!Request

LEMMA LocalReplies ==
  ASSUME LocalInv,
         Local!CutOff \/ Local!ReplyBroken \/ Local!ReplyWhole \/ Local!ReplyTruncated \/ Local!Unfaithful
  PROVE  LocalInv'
<1>1. LocalTyped /\ LocalPlaced /\ LocalCounted
  BY DEF LocalInv
<1>2. CASE Local!CutOff
  BY <1>2, LocalEnds DEF Local!CutOff, Local!Timeout, Local!Fails, Local!Env
<1>3. CASE Local!ReplyBroken
  BY <1>3, LocalEnds DEF Local!ReplyBroken, Local!Breaks, Local!Fails, Local!Env
<1>4. CASE Local!ReplyWhole
  <2>1. LocalCounted' /\ lPc = "streaming"
    BY <1>1, <1>4 DEF Local!ReplyWhole, Local!Goes, Local!call, LocalCounted
  <2> QED BY <1>1, <1>4, <2>1, LocalGoes DEF Local!ReplyWhole, Local!Goes, Local!call, Local!Env,
             LocalTyped, LocalPlaced, CallStages, Placing
<1>5. CASE Local!ReplyTruncated
  BY <1>5, LocalTooLarge DEF Local!ReplyTruncated
<1>6. CASE Local!Unfaithful
  <2>1. CASE lAttempt < LocalAttempts
    <3>1. /\ lPc = "validating" /\ lPc' = "requesting" /\ lAttempt' = lAttempt + 1
          /\ UNCHANGED <<lSize, lShrinks, lWindow, lIndex, lSent, lRequests, lLedger, lAnswer, lLate, lAborted>>
      BY <1>6, <2>1 DEF Local!Unfaithful, Local!Goes, Local!Env
    <3>2. lAttempt + 1 \in 0..LocalAttempts
      BY <1>1, <2>1, CallsAssumption DEF LocalTyped
    <3>3. LocalCounted'
      <4>1. LocalAttempts * (Len(lSent) + lShrinks) \in Nat /\ lRequests \in Nat /\ lAttempt \in Nat
        BY <1>1, <3>1, LocalAhead, Affordable, CallsAssumption DEF Placing, LocalTyped
      <4>2. lRequests <= LocalAttempts * (Len(lSent) + lShrinks) + lAttempt
        BY <1>1, <3>1 DEF LocalCounted
      <4>3. lRequests <= LocalAttempts * (Len(lSent) + lShrinks) + (lAttempt + 1) - 1 /\ lAttempt + 1 > 0
        BY <4>1, <4>2
      <4> QED BY <1>1, <3>1, <4>3 DEF LocalCounted
    <3> QED BY <1>1, <3>1, <3>2, <3>3, LocalGoes DEF LocalTyped, LocalPlaced, CallStages, Placing
  <2>2. CASE ~(lAttempt < LocalAttempts)
    BY <1>6, <2>2, LocalTooLarge DEF Local!Unfaithful
  <2> QED BY <2>1, <2>2
<1> QED BY <1>2, <1>3, <1>4, <1>5, <1>6

\* What was accepted reaches to the end of the window, whose requests are paid for
LEMMA LocalAccepts ==
  ASSUME LocalInv, Local!Accept
  PROVE  LocalInv' /\ Local!NextIndex' \in (Local!NextIndex + 1)..Len(lSize)
<1>1. LocalTyped /\ LocalPlaced /\ LocalCounted /\ LocalTold
  BY DEF LocalInv
<1> DEFINE n == Len(lSent)
           new == [start |-> lWindow.start, end |-> lWindow.end, request |-> lIndex]
<1>2. /\ lPc = "validating" /\ lPc' = "planning" /\ lSent' = Append(lSent, new)
      /\ UNCHANGED <<lSize, lShrinks, lWindow, lIndex, lAttempt, lRequests, lLedger, lAnswer, lLate, lAborted>>
  BY DEF Local!Accept, Local!Goes, Local!Env
<1>3. /\ n \in Nat /\ lIndex = n + 1 /\ lWindow.start = Local!NextIndex
      /\ lWindow.start < lWindow.end /\ lWindow.end \in 0..Len(lSize) /\ Local!NextIndex \in Nat
      /\ n <= Local!NextIndex /\ Len(lSize) \in Nat
  BY <1>1, <1>2 DEF LocalTyped, LocalPlaced, Placing
<1>4. new \in [start : Nat, end : Nat, request : Nat]
  BY <1>3
<1>5. /\ lSent' \in Seq([start : Nat, end : Nat, request : Nat]) /\ Len(lSent') = n + 1
      /\ \A k \in 1..n : lSent'[k] = lSent[k]
      /\ lSent'[n + 1] = new
  BY <1>1, <1>2, <1>4 DEF LocalTyped
<1>6. lSent' # <<>> /\ Local!NextIndex' = lWindow.end
  <2>1. lSent' # <<>>
    BY <1>3, <1>5
  <2> QED BY <1>5, <2>1 DEF Local!NextIndex
<1>7. lAnswer' = "none" /\ lAnswer = "none"
  BY <1>1, <1>2 DEF LocalTyped
<1>8. LocalTyped'
  BY <1>1, <1>2, <1>5 DEF LocalTyped, CallStages
<1>9. LocalPlaced'
  <2>1. ASSUME NEW k \in 1..Len(lSent')
        PROVE  /\ lSent'[k].request = k /\ lSent'[k].start < lSent'[k].end
               /\ k < Len(lSent') => lSent'[k].end = lSent'[k + 1].start
    <3>1. CASE k < n
      <4>1. k \in 1..n /\ k + 1 \in 1..n
        BY <1>3, <3>1
      <4> QED BY <1>1, <1>3, <1>5, <3>1, <4>1 DEF LocalPlaced
    <3>2. CASE k = n
      <4>1. k \in 1..n /\ lSent # <<>>
        BY <1>3, <3>2
      <4>2. lSent[n].end = Local!NextIndex
        BY <4>1 DEF Local!NextIndex
      <4> QED BY <1>1, <1>3, <1>5, <3>2, <4>1, <4>2 DEF LocalPlaced
    <3>3. CASE k = n + 1
      BY <1>3, <1>5, <3>3
    <3> QED BY SMTT(30), <1>3, <1>5, <3>1, <3>2, <3>3
  <2>2. lSent'[1].start = 0
    <3>1. CASE lSent = <<>>
      <4>1. n = 0 /\ Local!NextIndex = 0
        BY <3>1 DEF Local!NextIndex
      <4> QED BY <1>3, <1>5, <4>1
    <3>2. CASE lSent # <<>>
      <4>1. 1 \in 1..n
        BY <1>1, <1>3, <3>2 DEF LocalTyped
      <4> QED BY <1>1, <1>5, <3>2, <4>1 DEF LocalPlaced
    <3> QED BY <3>1, <3>2
  <2>3. /\ Local!NextIndex' \in Nat /\ Len(lSent') <= Local!NextIndex' /\ Local!NextIndex' <= Len(lSize')
        /\ lPc' = "planning" /\ lIndex' = Len(lSent') /\ lAnswer' = "none"
    BY <1>2, <1>3, <1>5, <1>6, <1>7
  <2> HIDE DEF n, new
  <2> QED BY <2>1, <2>2, <2>3 DEF LocalPlaced, Placing
<1>10. LocalCounted'
  <2>1. LocalAttempts * ((n + 1) + lShrinks) = LocalAttempts * (n + lShrinks) + LocalAttempts
        /\ LocalAttempts * (n + lShrinks) \in Nat /\ lRequests \in Nat /\ lAttempt \in 0..LocalAttempts
    BY <1>1, <1>2, LocalAhead, Affordable, CallsAssumption DEF Placing, LocalTyped
  <2>2. lRequests <= LocalAttempts * (n + lShrinks) + lAttempt
    BY <1>1, <1>2 DEF LocalCounted
  <2>3. lRequests <= LocalAttempts * ((n + 1) + lShrinks)
    BY <2>1, <2>2, CallsAssumption
  <2> QED BY <1>1, <1>2, <1>5, <2>3 DEF LocalCounted
<1>11. LocalTold'
  BY <1>2, <1>7, LocalQuiet
<1> QED BY <1>3, <1>6, <1>8, <1>9, <1>10, <1>11 DEF LocalInv

LEMMA LocalStitches ==
  ASSUME LocalInv, Local!Stitch
  PROVE  LocalInv'
<1>1. Local!Tiles(lSent, Local!Total)
  BY LocalCovers DEF Local!Stitch
<1>2. CASE lAnswer' = "failed"
  BY <1>1, <1>2, LocalEnds DEF Local!Stitch, Local!Rejects, Local!Env
<1>3. CASE lAnswer' = "chapter"
  <2>1. /\ lPc = "planning" /\ lPc' = "settled" /\ lLedger' = Append(lLedger, "completed")
        /\ UNCHANGED <<lSize, lShrinks, lWindow, lIndex, lAttempt, lSent, lRequests, lLate, lAborted>>
        /\ Local!NextIndex = Len(lSize)
    BY <1>1, <1>3 DEF Local!Stitch, Local!Rejects, Local!call, Local!Env, Local!Total
  <2>2. LocalTyped /\ LocalPlaced /\ LocalCounted /\ LocalTold
    BY DEF LocalInv
  <2>3. lLedger \in Seq({"started", "failed", "cancelled", "completed"})
        /\ \A k \in DOMAIN lLedger : lLedger[k] = "started"
    BY <2>1, <2>2 DEF LocalTyped, LocalTold
  <2>4. /\ lLedger' \in Seq({"started", "failed", "cancelled", "completed"})
        /\ \A k \in DOMAIN lLedger' : lLedger'[k] = "started" \/ (lLedger'[k] = "completed" /\ k = Len(lLedger) + 1)
        /\ Len(lLedger) + 1 \in DOMAIN lLedger' /\ lLedger'[Len(lLedger) + 1] = "completed"
    BY <2>1, <2>3
  <2>5. Local!Tiles(lSent, Local!Total)' /\ Local!NextIndex' = Local!NextIndex
    BY <1>1, <2>1 DEF Local!Tiles, Local!Total, Local!NextIndex
  <2>6. LocalTyped'
    BY <1>3, <2>1, <2>2, <2>4 DEF LocalTyped, CallStages
  <2>7. LocalPlaced'
    BY <1>3, <2>1, <2>2, <2>5 DEF LocalPlaced, Placing
  <2>8. LocalCounted'
    BY <2>1, <2>2 DEF LocalCounted
  <2>9. LocalTold'
    BY <2>1, <2>4, <2>5 DEF LocalTold, Local!LedgerTruthful
  <2> QED BY <2>6, <2>7, <2>8, <2>9 DEF LocalInv
<1> QED BY <1>1, <1>2, <1>3 DEF Local!Stitch, Local!Rejects

LEMMA LocalTime ==
  ASSUME LocalInv, Local!Expire \/ Local!Abort
  PROVE  LocalInv'
<1>1. lPc # "settled" /\ lLate' \in BOOLEAN /\ lAborted' \in BOOLEAN
      /\ UNCHANGED <<lSize, lBudget, lShrinks, lWindow, lIndex, lAttempt, lSent, lRequests, lLedger, lPc, lAnswer>>
  BY DEF Local!Expire, Local!Abort, Local!call, LocalInv, LocalTyped
<1>2. LocalCounted'
  BY <1>1 DEF LocalInv, LocalCounted
<1> QED BY <1>1, <1>2, LocalGoes DEF LocalInv, LocalTyped, LocalPlaced, CallStages
LEMMA LocalStep ==
  ASSUME LocalInv, [Local!Next]_localVars
  PROVE  LocalInv'
<1>1. CASE UNCHANGED localVars
  <2>1. UNCHANGED <<lSize, lBudget, lShrinks, lWindow, lIndex, lAttempt, lSent, lRequests, lLedger, lLate,
                    lAborted, lPc, lAnswer>>
    BY <1>1 DEF localVars
  <2>2. LocalTyped'
    BY <2>1 DEF LocalInv, LocalTyped
  <2>3. LocalPlaced'
    BY <2>1 DEF LocalInv, LocalPlaced, Local!NextIndex
  <2>4. LocalCounted'
    BY <2>1 DEF LocalInv, LocalCounted
  <2>5. LocalTold'
    BY <2>1 DEF LocalInv, LocalTold, Local!LedgerTruthful, Local!Tiles, Local!Total
  <2> QED BY <2>2, <2>3, <2>4, <2>5 DEF LocalInv
<1>2. CASE Local!Next
  BY <1>2, LocalBegins, LocalFitting, LocalRequesting, LocalReplies, LocalAccepts, LocalStitches, LocalTime
  DEF Local!Next, Local!Own, Local!Replies
<1> QED BY <1>1, <1>2

\* A step accepts more of the chapter, or answers, or neither
LEMMA LocalRefines ==
  ASSUME LocalInv, [Local!Next]_localVars
  PROVE  [Local!Whole!Next]_(Local!Whole!vars)
<1>1. LocalTyped
  BY DEF LocalInv
<1>2. CASE UNCHANGED <<lSize, lSent, lAnswer>>
  BY <1>2 DEF Local!Whole!vars, Local!Total, Local!NextIndex
<1>3. CASE Local!Accept
  <2>1. Local!NextIndex' \in (Local!NextIndex + 1)..Len(lSize)
    BY <1>3, LocalAccepts
  <2>2. lAnswer = "none" /\ UNCHANGED <<lSize, lAnswer>>
    BY <1>1, <1>3 DEF LocalTyped, Local!Accept, Local!Goes
  <2> QED BY <2>1, <2>2 DEF Local!Whole!Next, Local!Whole!Direct, Local!Total
<1>4. CASE /\ UNCHANGED <<lSize, lSent>> /\ lPc # "settled"
           /\ lAnswer' = "failed" \/ (lAnswer' = "chapter" /\ Local!NextIndex = Local!Total)
  BY <1>1, <1>4 DEF Local!Whole!Next, Local!Whole!Answer, LocalTyped, Local!Total, Local!NextIndex
<1>5. CASE Local!Next
  <2>1. CASE Local!Start \/ Local!Open \/ Local!Plan \/ Local!Request
    BY <2>1, <1>2, <1>4 DEF Local!Start, Local!Open, Local!Plan, Local!Request, Local!Rejects, Local!Timeout,
       Local!Breaks, Local!Fails, Local!Goes, Local!call
  <2>2. CASE Local!Fit
    BY <2>2, <1>2, <1>4 DEF Local!Fit, Local!Breaks, Local!Fails, Local!Goes, Local!call
  <2>3. CASE Local!CutOff \/ Local!ReplyBroken \/ Local!ReplyWhole
    BY <2>3, <1>2, <1>4 DEF Local!CutOff, Local!ReplyBroken, Local!ReplyWhole, Local!Timeout, Local!Breaks,
       Local!Fails, Local!Goes, Local!call
  <2>4. CASE Local!ReplyTruncated \/ Local!Unfaithful
    BY <2>4, <1>2, <1>4 DEF Local!ReplyTruncated, Local!Unfaithful, Local!TooLarge, Local!Recovers, Local!Breaks,
       Local!Fails, Local!Goes, Local!call
  <2>5. CASE Local!Stitch
    BY <2>5, <1>4 DEF Local!Stitch, Local!Rejects, Local!call
  <2>6. CASE Local!Expire \/ Local!Abort
    BY <2>6, <1>2 DEF Local!Expire, Local!Abort, Local!call
  <2> QED BY <1>3, <1>5, <2>1, <2>2, <2>3, <2>4, <2>5, <2>6 DEF Local!Next, Local!Own, Local!Replies
<1>6. CASE UNCHANGED localVars
  BY <1>2, <1>6 DEF localVars
<1> QED BY <1>5, <1>6

LEMMA LocalBeginsWhole == Local!Init => Local!Whole!Init
<1> SUFFICES ASSUME Local!Init PROVE Local!Whole!Init
  OBVIOUS
<1>1. Len(lSize) \in 1..MaxPassages
  BY LocalInit DEF LocalInv, LocalTyped
<1> QED BY <1>1 DEF Local!Init, Local!Whole!Init, Local!Total, Local!NextIndex

LEMMA LocalAccounted ==
  ASSUME LocalInv
  PROVE  Local!TypeOK /\ Local!RequestsNamed /\ Local!RequestsBounded /\ Local!LedgerTruthful
<1>1. LocalTyped /\ LocalPlaced /\ LocalCounted /\ LocalTold
  BY DEF LocalInv
<1>2. Local!TypeOK
  BY <1>1 DEF LocalTyped, Local!TypeOK, Local!Total
<1>3. Local!RequestsNamed
  BY <1>1 DEF LocalPlaced, Local!RequestsNamed
<1>4. Local!RequestsBounded
  BY <1>1 DEF LocalCounted, Local!RequestsBounded, Local!Total
<1> QED BY <1>1, <1>2, <1>3, <1>4 DEF LocalTold

(* The configured windowCharBudget is not below the 500 it is cut to at    *)
(* most: it is 6000 (chunking.ts) unless an adapter is given another, and  *)
(* only tests give one.  A passage has a number of characters.             *)
FairChunking == CharFloor \in Nat /\ LocalChunking \in FairBudgets /\ LocalSizes \subseteq Nat

\* The window worked on is the one the budgets plan
LocalPlanned ==
  /\ lBudget \in FairBudgets
  /\ lPc \in Placing => lWindow.end = Local!PlanWindow(lSize, Local!NextIndex, lBudget).end

\* What a cut of the budgets brings
Shortens == lShrinks' > lShrinks => Local!PlanWindow(lSize, Local!NextIndex, lBudget').end < lWindow.end

\* A window of more than one passage is cut
LEMMA CutShortens ==
  ASSUME FairChunking, LocalInv, LocalPlanned, lPc \in Placing, Local!Count(lWindow) > 1,
         lBudget' = Local!Shrunk(lSize, lBudget, lWindow)
  PROVE  lBudget' \in FairBudgets /\ Local!PlanWindow(lSize, Local!NextIndex, lBudget').end < lWindow.end
<1>1. LocalTyped /\ LocalPlaced
  BY DEF LocalInv
<1>2. lWindow.start = Local!NextIndex /\ lWindow.start \in 0..(Len(lSize) - 1) /\ lWindow.end \in Int
      /\ Len(lSize) \in Nat
  BY <1>1, LocalAhead DEF LocalTyped, LocalPlaced
<1>3. lWindow.end > lWindow.start + 1
  BY <1>2 DEF Local!Count
<1>4. \A i \in 1..Len(lSize) : lSize[i] \in Nat
  <2>1. PICK n \in 1..MaxPassages : lSize \in [1..n -> LocalSizes]
    BY <1>1 DEF LocalTyped
  <2>2. lSize \in Seq(LocalSizes)
    BY <2>1, CallsAssumption
  <2>3. \A i \in 1..Len(lSize) : lSize[i] \in LocalSizes
    BY <2>2
  <2> QED BY <2>3 DEF FairChunking
<1>5. lWindow.end = Local!PlanWindow(lSize, lWindow.start, lBudget).end /\ lBudget \in FairBudgets
      /\ CharFloor \in Nat
  BY <1>2 DEF LocalPlanned, FairChunking
<1> QED BY <1>2, <1>3, <1>4, <1>5, ShrunkShortens

LEMMA PlannedStep ==
  ASSUME FairChunking, LocalInv, LocalPlanned, [Local!Next]_localVars
  PROVE  LocalPlanned' /\ Shortens
<1>1. LocalTyped /\ lShrinks \in Int
  BY CallsAssumption DEF LocalInv, LocalTyped
<1>2. CASE /\ UNCHANGED <<lSize, lBudget, lShrinks>>
           /\ lPc' \in Placing => lPc \in Placing /\ UNCHANGED <<lWindow, lSent>>
  <2>1. lPc' \in Placing => Local!NextIndex' = Local!NextIndex
    BY <1>2 DEF Local!NextIndex
  <2>2. LocalPlanned'
    BY <1>2, <2>1 DEF LocalPlanned
  <2>3. Shortens
    BY <1>1, <1>2 DEF Shortens
  <2> QED BY <2>2, <2>3
<1>3. CASE Local!Recovers /\ lPc \in Placing
  <2>1. lPc' \notin Placing
    BY <1>3 DEF Local!Recovers, Local!Goes, Placing
  <2>2. lBudget' \in FairBudgets /\ Shortens
    BY <1>3, CutShortens DEF Local!Recovers, Shortens
  <2> QED BY <2>1, <2>2 DEF LocalPlanned
<1>4. CASE Local!Next
  <2>1. CASE Local!Start \/ Local!Open \/ Local!Request
    BY <1>2, <2>1 DEF Local!Start, Local!Open, Local!Request, Local!Rejects, Local!Timeout, Local!Breaks,
       Local!Fails, Local!Goes, Local!call, Placing
  <2>2. CASE Local!Plan
    <3>1. CASE Local!Timeout /\ UNCHANGED Local!call
      BY <1>2, <3>1 DEF Local!Timeout, Local!Fails, Local!call, Placing
    <3>2. CASE /\ UNCHANGED <<lSize, lBudget, lShrinks, lSent>>
               /\ lWindow' = Local!PlanWindow(lSize, Local!NextIndex, lBudget)
      <4>1. Local!NextIndex' = Local!NextIndex
        BY <3>2 DEF Local!NextIndex
      <4>2. LocalPlanned'
        BY <3>2, <4>1 DEF LocalPlanned
      <4> QED BY <1>1, <3>2, <4>2 DEF Shortens
    <3> QED BY <2>2, <3>1, <3>2 DEF Local!Plan
  <2>3. CASE Local!Fit
    <3>1. lPc \in Placing
      BY <2>3 DEF Local!Fit, Placing
    <3>2. CASE UNCHANGED <<lSize, lBudget, lShrinks, lWindow, lSent>>
      BY <1>2, <3>1, <3>2
    <3>3. CASE /\ Local!Count(lWindow) > 1 /\ lBudget' = Local!Shrunk(lSize, lBudget, lWindow)
               /\ lWindow' = Local!PlanWindow(lSize, Local!NextIndex, lBudget')
               /\ UNCHANGED <<lSize, lSent>>
      <4>1. lBudget' \in FairBudgets /\ Shortens
        BY <3>1, <3>3, CutShortens DEF Shortens
      <4>2. Local!NextIndex' = Local!NextIndex
        BY <3>3 DEF Local!NextIndex
      <4> QED BY <3>3, <4>1, <4>2 DEF LocalPlanned
    <3> QED BY <2>3, <3>2, <3>3 DEF Local!Fit, Local!call
  <2>4. CASE Local!CutOff \/ Local!ReplyBroken \/ Local!ReplyWhole
    BY <1>2, <2>4 DEF Local!CutOff, Local!ReplyBroken, Local!ReplyWhole, Local!Timeout, Local!Breaks,
       Local!Fails, Local!Goes, Local!call, Placing
  <2>5. CASE Local!ReplyTruncated \/ Local!Unfaithful
    <3>1. lPc \in Placing
      BY <2>5 DEF Local!ReplyTruncated, Local!Unfaithful, Placing
    <3>2. CASE UNCHANGED <<lSize, lBudget, lShrinks, lWindow, lSent>>
      BY <1>2, <3>1, <3>2
    <3>3. CASE Local!Recovers
      BY <1>3, <3>1, <3>3
    <3> QED BY <2>5, <3>2, <3>3 DEF Local!ReplyTruncated, Local!Unfaithful, Local!TooLarge, Local!call
  <2>6. CASE Local!Accept \/ Local!Stitch
    BY <1>2, <2>6 DEF Local!Accept, Local!Stitch, Local!Rejects, Local!Goes, Local!call, Placing
  <2>7. CASE Local!Expire \/ Local!Abort
    BY <1>2, <2>7 DEF Local!Expire, Local!Abort, Local!call
  <2> QED BY <1>4, <2>1, <2>2, <2>3, <2>4, <2>5, <2>6, <2>7 DEF Local!Next, Local!Own, Local!Replies
<1>5. CASE UNCHANGED localVars
  BY <1>2, <1>5 DEF localVars
<1> QED BY <1>4, <1>5
-----------------------------------------------------------------------------
(* One call of the cloud director                                          *)

LEMMA CloudWindow ==
  ASSUME NEW s, Len(s) \in Nat, NEW from \in 0..(Len(s) - 1), NEW b
  PROVE  /\ Cloud!PlanWindow(s, from, b).start = from
         /\ Cloud!PlanWindow(s, from, b).end \in (from + 1)..Len(s)
<1> DEFINE w(e) == [start |-> from, end |-> e]
           stops == {k \in (from + 2)..Len(s) : ~Cloud!WindowFits(s, w(k), b)}
           Full(e) == /\ \A k \in (from + 2)..e : Cloud!WindowFits(s, w(k), b)
                      /\ e < Len(s) => ~Cloud!WindowFits(s, w(e + 1), b)
<1>1. PICK e \in (from + 1)..Len(s) : FirstBefore(from, Len(s), stops, e)
  <2> HIDE DEF stops
  <2> QED BY FirstStop
<1>2. Full(e)
  <2>1. ASSUME NEW k \in (from + 2)..e PROVE Cloud!WindowFits(s, w(k), b)
    <3>1. k \in (from + 2)..Len(s)
      OBVIOUS
    <3> QED BY <1>1, <2>1, <3>1 DEF FirstBefore
  <2>2. ASSUME e < Len(s) PROVE ~Cloud!WindowFits(s, w(e + 1), b)
    BY <1>1, <2>2 DEF FirstBefore
  <2> QED BY <2>1, <2>2
<1>3. (CHOOSE i \in (from + 1)..Len(s) : Full(i)) \in (from + 1)..Len(s)
  <2> HIDE DEF Full
  <2> QED BY <1>1, <1>2
<1> QED BY <1>3 DEF Cloud!PlanWindow

CloudTyped ==
  /\ cSize \in UNION {[1..n -> CloudSizes] : n \in 1..MaxPassages}
  /\ Len(cSize) \in 1..MaxPassages
  /\ cWindow \in [start : 0..Len(cSize), end : 0..Len(cSize)]
  /\ cAttempt \in 0..CloudAttempts /\ cRequests \in Nat
  /\ cSent \in Seq([start : Nat, end : Nat])
  /\ cLate \in BOOLEAN /\ cAborted \in BOOLEAN
  /\ cPc \in {"opening", "loading", "planning", "telling", "sending", "streaming", "validating", "settled"}
  /\ cAnswer \in {"none", "chapter", "failed"} /\ (cAnswer = "none" <=> cPc # "settled")

Sending == {"telling", "sending", "streaming", "validating"}

\* As of the local director; nothing in the code looks at it before a chapter is returned
CloudPlaced ==
  /\ cSent # <<>> => cSent[1].start = 0
  /\ \A k \in 1..Len(cSent) :
       /\ cSent[k].start < cSent[k].end
       /\ k < Len(cSent) => cSent[k].end = cSent[k + 1].start
  /\ Cloud!Done \in Nat /\ Cloud!Done <= Len(cSize)
  /\ cPc \in Sending => cWindow.start = Cloud!Done /\ cWindow.start < cWindow.end
  /\ cAnswer = "chapter" => Cloud!Done = Len(cSize)

CloudCounted ==
  LET spent == CloudAttempts * Len(cSent)
  IN /\ cRequests <= CloudAttempts * (Len(cSent) + 1)
     /\ cPc \in {"opening", "loading", "planning"} => cRequests <= spent
     /\ cPc \in {"telling", "sending"} => cAttempt > 0 /\ cRequests <= spent + cAttempt - 1
     /\ cPc \in {"streaming", "validating"} => cAttempt > 0 /\ cRequests <= spent + cAttempt

CloudTold ==
  /\ cTold \in {<<>>, <<"failed">>, <<"cancelled">>, <<"completed">>}
  /\ cPc # "settled" => cTold = <<>>
  /\ cAnswer = "chapter" <=> cTold = <<"completed">>
  /\ cTold = <<"cancelled">> => cAborted

CloudInv == CloudTyped /\ CloudPlaced /\ CloudCounted /\ CloudTold

LEMMA CloudInit == Cloud!Init => CloudInv
<1> SUFFICES ASSUME Cloud!Init PROVE CloudInv
  OBVIOUS
<1>1. Len(cSize) \in 1..MaxPassages
  BY ChapterLength DEF Cloud!Init
<1>2. cSent \in Seq([start : Nat, end : Nat]) /\ cSent = <<>> /\ Len(cSent) = 0 /\ Cloud!Done = 0
  BY DEF Cloud!Init, Cloud!Done
<1>3. CloudTyped
  <2>1. cWindow \in [start : 0..Len(cSize), end : 0..Len(cSize)] /\ cAttempt \in 0..CloudAttempts
    BY <1>1, CallsAssumption DEF Cloud!Init
  <2> QED BY <1>1, <1>2, <2>1 DEF Cloud!Init, CloudTyped
<1>4. CloudPlaced
  <2>1. \A k \in 1..Len(cSent) : FALSE
    BY <1>2
  <2> QED BY <1>1, <1>2, <2>1 DEF Cloud!Init, CloudPlaced, Sending
<1>5. CloudCounted
  <2>1. CloudAttempts * 0 = 0 /\ CloudAttempts * (0 + 1) >= 0
    BY CallsAssumption
  <2> QED BY <1>2, <2>1 DEF Cloud!Init, CloudCounted
<1>6. CloudTold
  BY DEF Cloud!Init, CloudTold
<1> QED BY <1>3, <1>4, <1>5, <1>6 DEF CloudInv

\* The call rejects, and may have said so
LEMMA CloudEnds ==
  ASSUME CloudInv, cPc # "settled", cPc' = "settled", cAnswer' = "failed",
         cTold' = cTold \/ \E unfaithful \in BOOLEAN : Cloud!Fails(unfaithful),
         cWindow' \in [start : 0..Len(cSize), end : 0..Len(cSize)], cAttempt' \in 0..CloudAttempts,
         UNCHANGED <<cSize, cSent, cRequests, Cloud!Env>>
  PROVE  CloudInv'
<1>1. UNCHANGED <<cSize, cSent, cRequests, cLate, cAborted>>
  BY DEF Cloud!Env
<1>2. cTold = <<>>
  BY DEF CloudInv, CloudTold
<1>3. cTold' \in {<<>>, <<"failed">>} \/ (cTold' = <<"cancelled">> /\ cAborted)
  BY <1>2 DEF Cloud!Fails
<1>4. Cloud!Done' = Cloud!Done
  BY <1>1 DEF Cloud!Done
<1>5. CloudTyped'
  BY <1>1 DEF CloudInv, CloudTyped
<1>6. CloudPlaced'
  BY <1>1, <1>4 DEF CloudInv, CloudPlaced, Sending
<1>7. CloudCounted'
  BY <1>1 DEF CloudInv, CloudCounted
<1>8. CloudTold'
  <2>1. <<>> # <<"completed">> /\ <<"failed">> # <<"completed">> /\ <<"cancelled">> # <<"completed">>
        /\ <<>> # <<"cancelled">> /\ <<"failed">> # <<"cancelled">>
    OBVIOUS
  <2> QED BY <1>1, <1>3, <2>1 DEF CloudTold
<1> QED BY <1>5, <1>6, <1>7, <1>8 DEF CloudInv

\* The call goes on with what it has accepted
LEMMA CloudGoes ==
  ASSUME CloudInv, cPc # "settled", UNCHANGED <<cSize, cSent, cTold, cAnswer>>,
         cPc' \in {"opening", "loading", "planning", "telling", "sending", "streaming", "validating"},
         cLate' \in BOOLEAN, cAborted' \in BOOLEAN,
         cWindow' \in [start : 0..Len(cSize), end : 0..Len(cSize)],
         cAttempt' \in 0..CloudAttempts, cRequests' \in Nat,
         cPc' \in Sending => cWindow'.start = Cloud!Done /\ cWindow'.start < cWindow'.end,
         CloudCounted'
  PROVE  CloudInv'
<1>1. cAnswer = "none" /\ cTold = <<>>
  BY DEF CloudInv, CloudTyped, CloudTold
<1>2. CloudTyped'
  BY <1>1 DEF CloudInv, CloudTyped
<1>3. Cloud!Done' = Cloud!Done
  BY DEF Cloud!Done
<1>4. CloudPlaced'
  BY <1>1, <1>3 DEF CloudInv, CloudPlaced
<1>5. CloudTold'
  BY <1>1 DEF CloudTold
<1> QED BY <1>2, <1>4, <1>5 DEF CloudInv

\* What is not accepted yet begins a window
LEMMA CloudNextWindow ==
  ASSUME CloudInv, Cloud!Done < Len(cSize), NEW b
  PROVE  LET w == Cloud!PlanWindow(cSize, Cloud!Done, b)
         IN /\ w \in [start : 0..Len(cSize), end : 0..Len(cSize)]
            /\ w.start = Cloud!Done /\ w.start < w.end
<1>1. Len(cSize) \in Nat /\ Cloud!Done \in 0..(Len(cSize) - 1)
  BY DEF CloudInv, CloudTyped, CloudPlaced
<1> DEFINE w == Cloud!PlanWindow(cSize, Cloud!Done, b)
<1>2. w.start = Cloud!Done /\ w.end \in (Cloud!Done + 1)..Len(cSize)
  BY <1>1, CloudWindow
<1>3. w = [start |-> w.start, end |-> w.end]
  BY DEF Cloud!PlanWindow
<1> HIDE DEF w
<1>4. w \in [start : 0..Len(cSize), end : 0..Len(cSize)]
  BY <1>1, <1>2, <1>3
<1> QED BY <1>1, <1>2, <1>4 DEF w

\* The requests for the windows accepted, and for one more
LEMMA CloudBudget ==
  ASSUME CloudInv
  PROVE  /\ CloudAttempts * Len(cSent) \in Nat
         /\ CloudAttempts * (Len(cSent) + 1) = CloudAttempts * Len(cSent) + CloudAttempts
<1>1. Len(cSent) \in Nat
  BY DEF CloudInv, CloudTyped
<1> DEFINE n == Len(cSent)
<1> HIDE DEF n
<1>2. n \in Nat
  BY <1>1 DEF n
<1>3. CloudAttempts * n \in Nat /\ CloudAttempts * (n + 1) = CloudAttempts * n + CloudAttempts
  BY <1>2, CallsAssumption
<1> QED BY <1>3 DEF n
LEMMA CloudBegins ==
  ASSUME CloudInv, Cloud!Open \/ Cloud!Load \/ Cloud!Plan \/ Cloud!Tell \/ Cloud!Send
  PROVE  CloudInv'
<1>1. CloudTyped /\ CloudPlaced /\ CloudCounted
  BY DEF CloudInv
<1>2. CASE Cloud!Open
  <2>1. CASE Cloud!Goes("loading")
    <3>1. CloudCounted'
      BY <1>1, <1>2, <2>1 DEF Cloud!Open, Cloud!Goes, Cloud!call, CloudCounted
    <3> QED BY <1>1, <1>2, <2>1, <3>1, CloudGoes
        DEF Cloud!Open, Cloud!Goes, Cloud!call, Cloud!Env, CloudTyped, Sending
  <2>2. CASE cPc' = "settled" /\ cAnswer' = "failed" /\ UNCHANGED cTold
    BY <1>1, <1>2, <2>2, CloudEnds DEF Cloud!Open, Cloud!call, CloudTyped
  <2> QED BY <1>2, <2>1, <2>2 DEF Cloud!Open
<1>3. CASE Cloud!Load
  <2>1. CASE Cloud!Goes("planning")
    <3>1. CloudCounted'
      BY <1>1, <1>3, <2>1 DEF Cloud!Load, Cloud!Goes, Cloud!call, CloudCounted
    <3> QED BY <1>1, <1>3, <2>1, <3>1, CloudGoes
        DEF Cloud!Load, Cloud!Goes, Cloud!call, Cloud!Env, CloudTyped, Sending
  <2>2. CASE Cloud!Fails(FALSE)
    BY <1>1, <1>3, <2>2, CloudEnds DEF Cloud!Load, Cloud!Fails, Cloud!call, CloudTyped
  <2> QED BY <1>3, <2>1, <2>2 DEF Cloud!Load
<1>4. CASE Cloud!Plan
  <2>1. cPc = "planning" /\ Cloud!Done < Len(cSize) /\ UNCHANGED <<cSize, cSent, cRequests, cLate, cAborted>>
        /\ cWindow' = Cloud!PlanWindow(cSize, Cloud!Done, CloudChunking)
    BY <1>4 DEF Cloud!Plan, Cloud!Total, Cloud!Env
  <2>2. cWindow' \in [start : 0..Len(cSize), end : 0..Len(cSize)]
        /\ cWindow'.start = Cloud!Done /\ cWindow'.start < cWindow'.end
    BY <2>1, CloudNextWindow
  <2>3. CASE Cloud!Goes("telling") /\ cAttempt' = 1
    <3>1. CloudCounted'
      <4>1. cRequests <= CloudAttempts * Len(cSent) + 1 - 1
        BY <1>1, <2>1, CloudBudget DEF CloudCounted, CloudTyped
      <4> QED BY <1>1, <2>1, <2>3, <4>1 DEF Cloud!Goes, CloudCounted
    <3> QED BY <1>1, <2>1, <2>2, <2>3, <3>1, CloudGoes, CallsAssumption DEF Cloud!Goes, CloudTyped
  <2>4. CASE Cloud!Fails(FALSE) /\ UNCHANGED cAttempt
    BY <1>1, <1>4, <2>1, <2>2, <2>4, CloudEnds DEF Cloud!Plan, Cloud!Fails, CloudTyped
  <2> QED BY <1>4, <2>3, <2>4 DEF Cloud!Plan
<1>5. CASE Cloud!Tell
  <2>1. CASE Cloud!Goes("sending")
    <3>1. CloudCounted' /\ cPc = "telling"
      BY <1>1, <1>5, <2>1 DEF Cloud!Tell, Cloud!Goes, Cloud!call, CloudCounted
    <3> QED BY <1>1, <1>5, <2>1, <3>1, CloudGoes
        DEF Cloud!Tell, Cloud!Goes, Cloud!call, Cloud!Env, CloudTyped, CloudPlaced, Sending
  <2>2. CASE Cloud!Fails(FALSE)
    BY <1>1, <1>5, <2>2, CloudEnds DEF Cloud!Tell, Cloud!Fails, Cloud!call, CloudTyped
  <2> QED BY <1>5, <2>1, <2>2 DEF Cloud!Tell
<1>6. CASE Cloud!Send
  <2>1. cPc = "sending" /\ UNCHANGED <<cSize, cWindow, cAttempt, cSent, cLate, cAborted>>
    BY <1>6 DEF Cloud!Send, Cloud!Env
  <2>2. CASE cRequests' = cRequests + 1 /\ Cloud!Goes("streaming")
    <3>1. cAttempt > 0 /\ cRequests <= CloudAttempts * Len(cSent) + cAttempt - 1
      BY <1>1, <2>1 DEF CloudCounted
    <3>2. cRequests + 1 <= CloudAttempts * Len(cSent) + cAttempt
          /\ cRequests + 1 <= CloudAttempts * (Len(cSent) + 1)
      BY <1>1, <3>1, CloudBudget, CallsAssumption DEF CloudTyped
    <3>3. CloudCounted'
      BY <2>1, <2>2, <3>1, <3>2 DEF Cloud!Goes, CloudCounted
    <3> QED BY <1>1, <2>1, <2>2, <3>3, CloudGoes DEF Cloud!Goes, CloudTyped, CloudPlaced, Sending
  <2>3. CASE Cloud!Fails(FALSE) /\ UNCHANGED cRequests
    BY <1>1, <1>6, <2>1, <2>3, CloudEnds DEF Cloud!Send, Cloud!Fails, CloudTyped
  <2> QED BY <1>6, <2>2, <2>3 DEF Cloud!Send
<1> QED BY <1>2, <1>3, <1>4, <1>5, <1>6

LEMMA CloudReplies ==
  ASSUME CloudInv, Cloud!ReplyBroken \/ Cloud!ReplyRejected \/ Cloud!ReplyWhole
  PROVE  CloudInv'
<1>1. CloudTyped /\ CloudPlaced /\ CloudCounted
  BY DEF CloudInv
<1>2. CASE Cloud!ReplyBroken
  BY <1>1, <1>2, CloudEnds DEF Cloud!ReplyBroken, Cloud!Fails, Cloud!call, CloudTyped
<1>3. CASE Cloud!ReplyWhole
  <2>1. CloudCounted' /\ cPc = "streaming"
    BY <1>1, <1>3 DEF Cloud!ReplyWhole, Cloud!Goes, Cloud!call, CloudCounted
  <2> QED BY <1>1, <1>3, <2>1, CloudGoes
      DEF Cloud!ReplyWhole, Cloud!Goes, Cloud!call, Cloud!Env, CloudTyped, CloudPlaced, Sending
<1>4. CASE Cloud!ReplyRejected
  <2>1. PICK unfaithful \in BOOLEAN : Cloud!Retry(unfaithful)
    BY <1>4 DEF Cloud!ReplyRejected
  <2>2. cPc = "streaming" /\ UNCHANGED <<cSize, cWindow, cSent, cRequests, cLate, cAborted>>
    BY <1>4 DEF Cloud!ReplyRejected, Cloud!Env
  <2>3. CASE cAttempt < CloudAttempts /\ cAttempt' = cAttempt + 1 /\ Cloud!Goes("telling")
    <3>1. CloudCounted'
      <4>1. cRequests <= CloudAttempts * Len(cSent) + (cAttempt + 1) - 1 /\ cAttempt + 1 > 0
        BY <1>1, <2>2, CloudBudget DEF CloudCounted, CloudTyped
      <4> QED BY <1>1, <2>2, <2>3, <4>1 DEF Cloud!Goes, CloudCounted
    <3>2. cAttempt + 1 \in 0..CloudAttempts
      BY <1>1, <2>3, CallsAssumption DEF CloudTyped
    <3> QED BY <1>1, <2>2, <2>3, <3>1, <3>2, CloudGoes DEF Cloud!Goes, CloudTyped, CloudPlaced, Sending
  <2>4. CASE Cloud!Fails(unfaithful) /\ UNCHANGED cAttempt
    BY <1>1, <1>4, <2>2, <2>4, CloudEnds DEF Cloud!ReplyRejected, Cloud!Fails, CloudTyped
  <2> QED BY <2>1, <2>3, <2>4 DEF Cloud!Retry
<1> QED BY <1>2, <1>3, <1>4

LEMMA CloudAccepts ==
  ASSUME CloudInv, Cloud!Accept
  PROVE  /\ CloudInv'
         /\ \/ Cloud!Done' \in (Cloud!Done + 1)..Len(cSize) /\ UNCHANGED cAnswer
            \/ cAnswer' = "failed" /\ UNCHANGED cSent
<1>1. CloudTyped /\ CloudPlaced /\ CloudCounted /\ CloudTold
  BY DEF CloudInv
<1>2. cPc = "validating" /\ UNCHANGED <<cSize, cWindow, cAttempt, cRequests, cLate, cAborted>>
  BY DEF Cloud!Accept, Cloud!Env
<1>3. CASE Cloud!Fails(FALSE) /\ UNCHANGED cSent
  <2>1. CloudInv'
    BY <1>1, <1>2, <1>3, CloudEnds DEF Cloud!Accept, Cloud!Fails, CloudTyped
  <2> QED BY <1>3, <2>1 DEF Cloud!Fails
<1>4. CASE cSent' = Append(cSent, cWindow) /\ Cloud!Goes("planning")
  <2> DEFINE n == Len(cSent)
  <2>1. /\ n \in Nat /\ cWindow.start = Cloud!Done /\ cWindow.start < cWindow.end
        /\ cWindow.end \in 0..Len(cSize) /\ Cloud!Done \in Nat /\ Len(cSize) \in Nat
    BY <1>1, <1>2 DEF CloudTyped, CloudPlaced, Sending
  <2>2. cWindow \in [start : Nat, end : Nat]
    BY <1>1, <2>1 DEF CloudTyped
  <2>3. /\ cSent' \in Seq([start : Nat, end : Nat]) /\ Len(cSent') = n + 1
        /\ \A k \in 1..n : cSent'[k] = cSent[k]
        /\ cSent'[n + 1] = cWindow
    BY <1>1, <1>4, <2>2 DEF CloudTyped
  <2>4. cSent' # <<>> /\ Cloud!Done' = cWindow.end
    <3>1. cSent' # <<>>
      BY <2>1, <2>3
    <3> QED BY <2>3, <3>1 DEF Cloud!Done
  <2>5. cAnswer = "none" /\ cAnswer' = "none" /\ cTold' = cTold /\ cTold = <<>> /\ cPc' = "planning"
    BY <1>1, <1>2, <1>4 DEF CloudTyped, CloudTold, Cloud!Goes
  <2>6. CloudTyped'
    BY <1>1, <1>2, <2>3, <2>5 DEF CloudTyped
  <2>7. CloudPlaced'
    <3>1. ASSUME NEW k \in 1..Len(cSent')
          PROVE  /\ cSent'[k].start < cSent'[k].end
                 /\ k < Len(cSent') => cSent'[k].end = cSent'[k + 1].start
      <4>1. CASE k < n
        <5>1. k \in 1..n /\ k + 1 \in 1..n
          BY <2>1, <4>1
        <5> QED BY <1>1, <2>1, <2>3, <4>1, <5>1 DEF CloudPlaced
      <4>2. CASE k = n
        <5>1. k \in 1..n /\ cSent # <<>>
          BY <2>1, <4>2
        <5>2. cSent[n].end = Cloud!Done
          BY <5>1 DEF Cloud!Done
        <5> QED BY <1>1, <2>1, <2>3, <4>2, <5>1, <5>2 DEF CloudPlaced
      <4>3. CASE k = n + 1
        BY <2>1, <2>3, <4>3
      <4> QED BY <2>1, <2>3, <4>1, <4>2, <4>3
    <3>2. cSent'[1].start = 0
      <4>1. CASE cSent = <<>>
        <5>1. n = 0 /\ Cloud!Done = 0
          BY <4>1 DEF Cloud!Done
        <5> QED BY <2>1, <2>3, <5>1
      <4>2. CASE cSent # <<>>
        <5>1. 1 \in 1..n
          BY <1>1, <2>1, <4>2 DEF CloudTyped
        <5> QED BY <1>1, <2>3, <4>2, <5>1 DEF CloudPlaced
      <4> QED BY <4>1, <4>2
    <3>3. Cloud!Done' \in Nat /\ Cloud!Done' <= Len(cSize')
      BY <1>2, <2>1, <2>4
    <3> HIDE DEF n
    <3> QED BY <2>5, <3>1, <3>2, <3>3 DEF CloudPlaced, Sending
  <2>8. CloudCounted'
    <3>1. CloudAttempts * (n + 1) \in Nat
          /\ CloudAttempts * ((n + 1) + 1) = CloudAttempts * (n + 1) + CloudAttempts
      <4> HIDE DEF n
      <4> QED BY <2>1, CallsAssumption
    <3>2. cRequests <= CloudAttempts * n + cAttempt /\ cRequests <= CloudAttempts * (n + 1)
      BY <1>1, <1>2 DEF CloudCounted
    <3>3. cRequests <= CloudAttempts * ((n + 1) + 1)
      BY <1>1, <3>1, <3>2, CallsAssumption DEF CloudTyped
    <3> QED BY <1>2, <2>3, <2>5, <3>2, <3>3 DEF CloudCounted
  <2>9. CloudTold'
    BY <1>2, <2>5 DEF CloudTold
  <2> QED BY <1>4, <2>1, <2>4, <2>5, <2>6, <2>7, <2>8, <2>9 DEF CloudInv
<1> QED BY <1>3, <1>4 DEF Cloud!Accept

LEMMA CloudCompletes ==
  ASSUME CloudInv, Cloud!Complete
  PROVE  CloudInv'
<1>1. CloudTyped /\ CloudPlaced /\ CloudCounted /\ CloudTold
  BY DEF CloudInv
<1>2. CASE Cloud!Fails(FALSE)
  BY <1>1, <1>2, CloudEnds DEF Cloud!Complete, Cloud!Fails, Cloud!call, CloudTyped
<1>3. CASE cTold' = Append(cTold, "completed") /\ cPc' = "settled" /\ cAnswer' = "chapter"
  <2>1. Cloud!Done = Len(cSize) /\ cPc = "planning" /\ UNCHANGED <<Cloud!call, cLate, cAborted>>
    BY DEF Cloud!Complete, Cloud!Total, Cloud!Env
  <2>2. UNCHANGED <<cSize, cWindow, cAttempt, cSent, cRequests, cLate, cAborted>>
    BY <2>1 DEF Cloud!call
  <2>3. cTold' = <<"completed">>
    BY <1>1, <1>3, <2>1 DEF CloudTold
  <2>4. CloudTyped'
    BY <1>1, <1>3, <2>2 DEF CloudTyped
  <2>5. Cloud!Done' = Cloud!Done
    BY <2>2 DEF Cloud!Done
  <2>6. CloudPlaced'
    BY <1>1, <1>3, <2>1, <2>2, <2>5 DEF CloudPlaced, Sending
  <2>7. CloudCounted'
    BY <1>1, <1>3, <2>2 DEF CloudCounted
  <2>8. CloudTold'
    <3>1. <<"completed">> # <<"cancelled">>
      OBVIOUS
    <3> QED BY <1>3, <2>3, <3>1 DEF CloudTold
  <2> QED BY <2>4, <2>6, <2>7, <2>8 DEF CloudInv
<1> QED BY <1>2, <1>3 DEF Cloud!Complete

LEMMA CloudTime ==
  ASSUME CloudInv, Cloud!Expire \/ Cloud!Abort
  PROVE  CloudInv'
<1>1. cPc # "settled" /\ cLate' \in BOOLEAN /\ cAborted' \in BOOLEAN
      /\ UNCHANGED <<cSize, cWindow, cAttempt, cSent, cRequests, cTold, cPc, cAnswer>>
  BY DEF Cloud!Expire, Cloud!Abort, Cloud!call, CloudInv, CloudTyped
<1>2. CloudCounted'
  BY <1>1 DEF CloudInv, CloudCounted
<1> QED BY <1>1, <1>2, CloudGoes DEF CloudInv, CloudTyped, CloudPlaced

LEMMA CloudStep ==
  ASSUME CloudInv, [Cloud!Next]_cloudVars
  PROVE  CloudInv'
<1>1. CASE UNCHANGED cloudVars
  <2>1. UNCHANGED <<cSize, cWindow, cAttempt, cSent, cRequests, cTold, cLate, cAborted, cPc, cAnswer>>
    BY <1>1 DEF cloudVars
  <2>2. CloudTyped'
    BY <2>1 DEF CloudInv, CloudTyped
  <2>3. CloudPlaced'
    BY <2>1 DEF CloudInv, CloudPlaced, Cloud!Done
  <2>4. CloudCounted' /\ CloudTold'
    BY <2>1 DEF CloudInv, CloudCounted, CloudTold
  <2> QED BY <2>2, <2>3, <2>4 DEF CloudInv
<1>2. CASE Cloud!Next
  BY <1>2, CloudBegins, CloudReplies, CloudAccepts, CloudCompletes, CloudTime
  DEF Cloud!Next, Cloud!Own, Cloud!CutOff
<1> QED BY <1>1, <1>2

LEMMA CloudRefines ==
  ASSUME CloudInv, [Cloud!Next]_cloudVars
  PROVE  [Cloud!Whole!Next]_(Cloud!Whole!vars)
<1>1. CloudTyped
  BY DEF CloudInv
<1>2. CASE UNCHANGED <<cSize, cSent, cAnswer>>
  BY <1>2 DEF Cloud!Whole!vars, Cloud!Total, Cloud!Done
<1>3. CASE /\ UNCHANGED <<cSize, cSent>> /\ cPc # "settled"
           /\ cAnswer' = "failed" \/ (cAnswer' = "chapter" /\ Cloud!Done = Cloud!Total)
  BY <1>1, <1>3 DEF Cloud!Whole!Next, Cloud!Whole!Answer, CloudTyped, Cloud!Total, Cloud!Done
<1>4. CASE Cloud!Accept
  <2>1. CASE Cloud!Done' \in (Cloud!Done + 1)..Len(cSize) /\ UNCHANGED cAnswer
    BY <1>1, <1>4, <2>1 DEF Cloud!Whole!Next, Cloud!Whole!Direct, Cloud!Total, CloudTyped, Cloud!Accept
  <2>2. CASE cAnswer' = "failed" /\ UNCHANGED cSent
    BY <1>3, <1>4, <2>2 DEF Cloud!Accept
  <2> QED BY <1>4, <2>1, <2>2, CloudAccepts
<1>5. CASE Cloud!Next
  <2>1. CASE Cloud!Open \/ Cloud!Load \/ Cloud!Plan \/ Cloud!Tell \/ Cloud!Send
    BY <2>1, <1>2, <1>3 DEF Cloud!Open, Cloud!Load, Cloud!Plan, Cloud!Tell, Cloud!Send, Cloud!Fails, Cloud!Goes,
       Cloud!call
  <2>2. CASE Cloud!ReplyBroken \/ Cloud!ReplyRejected \/ Cloud!ReplyWhole \/ Cloud!CutOff
    BY <2>2, <1>2, <1>3 DEF Cloud!ReplyBroken, Cloud!ReplyRejected, Cloud!ReplyWhole, Cloud!CutOff, Cloud!Retry,
       Cloud!Fails, Cloud!Goes, Cloud!call
  <2>3. CASE Cloud!Complete
    BY <2>3, <1>3 DEF Cloud!Complete, Cloud!Fails, Cloud!call
  <2>4. CASE Cloud!Expire \/ Cloud!Abort
    BY <2>4, <1>2 DEF Cloud!Expire, Cloud!Abort, Cloud!call
  <2> QED BY <1>4, <1>5, <2>1, <2>2, <2>3, <2>4 DEF Cloud!Next, Cloud!Own
<1>6. CASE UNCHANGED cloudVars
  BY <1>2, <1>6 DEF cloudVars
<1> QED BY <1>5, <1>6

LEMMA CloudBeginsWhole == Cloud!Init => Cloud!Whole!Init
<1> SUFFICES ASSUME Cloud!Init PROVE Cloud!Whole!Init
  OBVIOUS
<1>1. Len(cSize) \in 1..MaxPassages
  BY CloudInit DEF CloudInv, CloudTyped
<1> QED BY <1>1 DEF Cloud!Init, Cloud!Whole!Init, Cloud!Total, Cloud!Done

LEMMA CloudAccounted ==
  ASSUME CloudInv
  PROVE  Cloud!RequestsBounded /\ Cloud!ToldTruthful
<1>1. CloudCounted /\ CloudTold
  BY DEF CloudInv
<1>2. Len(cTold) <= 1
  <2>1. CASE cTold = <<>>
    BY <2>1
  <2>2. CASE cTold = <<"failed">>
    BY <2>2
  <2>3. CASE cTold = <<"cancelled">>
    BY <2>3
  <2>4. CASE cTold = <<"completed">>
    BY <2>4
  <2> QED BY <1>1, <2>1, <2>2, <2>3, <2>4 DEF CloudTold
<1> QED BY <1>1, <1>2 DEF CloudCounted, CloudTold, Cloud!RequestsBounded, Cloud!ToldTruthful

-----------------------------------------------------------------------------
(* The batches of the speech engine                                        *)

Doings == {"dead", "loading", "waiting", "speaking", "written", "ending"}

BatchStages ==
  {"idle", "starting", "loading", "ready", "send", "hearing", "recording", "ending", "stopping"}

Recorded == Speech!Takes \cup {Speech!None}

Processes ==
  [doing : Doings, by : Speech!Engines \cup {Speech!Voiced(t) : t \in Toolchains} \cup {Speech!Nobody},
   segment : Segments \cup {"none"}, take : Recorded, mail : {"none", "rendered", "gate"},
   told : BOOLEAN]

Batches ==
  [pc : BatchStages, current : Speech!WorkerIds, wanted : [Segments -> Identities \cup {"none"}],
   segment : Segments \cup {"none"}, attempt : 1..SeedAttempts, heard : Recorded,
   then : {"end", "retry"}]

SpeechTyped ==
  /\ sWav \in [Segments -> Recorded]
  /\ sManifest \in [Segments -> [names : Recorded, hash : Recorded]]
  /\ sInstalled \in Toolchains /\ sEngine \in Speech!Engines \cup {Speech!Nobody}
  /\ sLeased \in BOOLEAN /\ sAborted \in BOOLEAN
  /\ sWorker \in [Speech!WorkerIds -> Processes]
  /\ sBatch \in Batches
  /\ sReturned \in [Segments -> Recorded]

\* A batch is asked of an engine, under the lease, and its worker is the one that lives
BatchHeld ==
  /\ sBatch.pc = "idle" <=> ~sLeased
  /\ sBatch.pc = "idle" => sBatch = Speech!NoBatch /\ sReturned = Speech!Nothing
  /\ sBatch.pc # "idle" => sEngine \in Speech!Engines /\ sBatch.wanted \in Orders
  /\ \A k \in Speech!WorkerIds : Speech!Alive(k) =>
       k = sBatch.current /\ sBatch.pc \notin {"idle", "starting"}

\* What the worker may be at while the engine is where it is
AtWork ==
  [ready |-> {"waiting"}, send |-> {"waiting"}, loading |-> {"loading"},
   hearing |-> {"speaking", "written", "waiting"}, recording |-> {"waiting"},
   ending |-> {"ending"}, stopping |-> Doings]

\* What is on its way to the speaker's segment is what the engine asked for
WorkerHeeds ==
  LET w == Speech!Current
  IN /\ sBatch.pc \in DOMAIN AtWork => w.doing \in AtWork[sBatch.pc] \cup {"dead"}
     /\ w.doing \in {"waiting", "speaking", "written", "ending"} => w.by = sEngine
     /\ w.doing = "loading" => sBatch.pc \in {"loading", "stopping"}
     /\ w.doing \in {"speaking", "written"} =>
          /\ sBatch.pc \in {"hearing", "stopping"}
          /\ w.segment = sBatch.segment /\ w.take = Speech!Wanted /\ w.mail = "none"
     /\ sBatch.pc = "hearing" /\ w.mail = "rendered" => w.take = Speech!Wanted
     /\ w.mail = "gate" => w.doing = "dead"
     /\ sBatch.pc = "recording" => sBatch.heard = Speech!Wanted

\* Where the engine has a segment it is one the caller has no take of yet
InHand ==
  /\ sBatch.pc \in {"send", "hearing", "recording"} => sBatch.segment \in Segments
  /\ sBatch.pc \in {"ready", "ending"} => sBatch.segment = "none"
  /\ Speech!Current.doing \in {"speaking", "written"} => sBatch.segment \in Segments
  /\ sBatch.segment # "none" => sReturned[sBatch.segment] = Speech!None

\* It is spoken, or will be, for the want of a take that could be reused
Needed ==
  \/ sBatch.pc \in {"starting", "loading"} /\ sBatch.segment # "none"
  \/ sBatch.pc = "send"
  \/ sBatch.pc = "hearing" /\ Speech!Current.mail = "gate"
  \/ sBatch.pc = "stopping" /\ sBatch.then = "retry"
  \/ Speech!Current.doing = "speaking"

OnlyNeeded ==
  /\ Needed => sBatch.segment # "none" /\ ~Speech!Reusable(sBatch.segment)
  /\ sBatch.pc = "stopping" /\ sBatch.then = "retry" =>
       ~Speech!Alive(sBatch.current) /\ sBatch.attempt < SeedAttempts

\* A manifest is about one take, and about the one that was returned
ManifestsStand ==
  /\ \A s \in Segments : sManifest[s].names = sManifest[s].hash
  /\ Speech!ReturnedStands

SpeechInv == SpeechTyped /\ BatchHeld /\ WorkerHeeds /\ InHand /\ OnlyNeeded /\ ManifestsStand

-----------------------------------------------------------------------------

LEMMA NoneIsNoTake == Speech!None \notin Speech!Takes
  BY BatchesAssumption DEF Speech!None, Speech!Takes

LEMMA NoneRecorded == Speech!None \in Recorded
  BY DEF Recorded

LEMMA WantedIsTake ==
  ASSUME SpeechTyped, sEngine \in Speech!Engines, sBatch.wanted \in Orders, sBatch.segment \in Segments
  PROVE  Speech!Wanted \in Speech!Takes
<1>1. sBatch.wanted[sBatch.segment] \in Identities
  BY BatchesAssumption
<1>2. sBatch.attempt \in 1..SeedAttempts
  BY DEF SpeechTyped, Batches
<1> QED BY <1>1, <1>2 DEF Speech!Wanted, Speech!Takes

LEMMA DeadProcess ==
  /\ Speech!Dead \in Processes
  /\ \A m \in {"none", "rendered", "gate"} : [Speech!Dead EXCEPT !.mail = m] \in Processes
  BY NoneRecorded DEF Speech!Dead, Processes, Doings

LEMMA EndedProcess ==
  ASSUME NEW k \in Speech!WorkerIds, sWorker[k] \in Processes
  PROVE  /\ Speech!Ended(k) \in Processes
         /\ Speech!Ended(k).doing = "dead" /\ Speech!Ended(k).mail = sWorker[k].mail
         /\ sWorker[k].mail = "rendered" => Speech!Ended(k).take = sWorker[k].take
  BY NoneRecorded DEF Speech!Ended, Speech!Dead, Processes, Doings

LEMMA SpeechBegins == Speech!Init => SpeechInv
<1> SUFFICES ASSUME Speech!Init PROVE SpeechInv
  OBVIOUS
<1> USE DEF Speech!Init
<1>1. 1 \in Speech!WorkerIds /\ Speech!Current = Speech!Dead
  BY DEF Speech!WorkerIds, Speech!Current, Speech!NoBatch
<1>2. \A k \in Speech!WorkerIds : ~Speech!Alive(k)
  BY DEF Speech!Alive, Speech!Dead
<1>3. SpeechTyped
  <2>1. Speech!NoBatch \in Batches
    BY <1>1, NoneRecorded, BatchesAssumption DEF Speech!NoBatch, Batches, BatchStages
  <2> QED BY <2>1, NoneRecorded, DeadProcess DEF SpeechTyped, Speech!Nothing
<1>4. BatchHeld
  BY <1>2 DEF BatchHeld, Speech!NoBatch
<1>5. WorkerHeeds /\ InHand /\ OnlyNeeded
  BY <1>1, <1>2 DEF WorkerHeeds, InHand, OnlyNeeded, Needed, AtWork, Speech!NoBatch, Speech!Dead
<1>6. ManifestsStand
  BY DEF ManifestsStand, Speech!ReturnedStands, Speech!At, Speech!NoBatch
<1> QED BY <1>3, <1>4, <1>5, <1>6 DEF SpeechInv

-----------------------------------------------------------------------------

\* Whoever is alive is the worker the engine talks to
LEMMA OneLives ==
  ASSUME SpeechInv
  PROVE  /\ \A k \in Speech!WorkerIds : k # sBatch.current => sWorker[k].doing = "dead"
         /\ sBatch.current \in Speech!WorkerIds /\ Speech!Current \in Processes
         /\ sBatch.pc \in {"idle", "starting"} => Speech!Current.doing = "dead"
<1>1. sBatch.current \in Speech!WorkerIds /\ Speech!Current \in Processes
  BY DEF SpeechInv, SpeechTyped, Batches, Speech!Current
<1> QED BY <1>1 DEF SpeechInv, BatchHeld, Speech!Alive, Speech!Current

\* A worker goes, whatever it was doing, and what it wrote can still be read
LEMMA WorkerGoes ==
  ASSUME SpeechInv, NEW k \in Speech!WorkerIds, Speech!Alive(k), Speech!Works(k, Speech!Ended(k)),
         sWav' = sWav
  PROVE  SpeechInv'
<1>1. /\ sWorker' = [sWorker EXCEPT ![k] = Speech!Ended(k)]
      /\ UNCHANGED <<sWav, sManifest, sInstalled, sEngine, sLeased, sBatch, sAborted, sReturned>>
  BY DEF Speech!Works, Speech!Tools
<1>2. SpeechTyped /\ BatchHeld /\ WorkerHeeds /\ InHand /\ OnlyNeeded /\ ManifestsStand
  BY DEF SpeechInv
<1>3. k = sBatch.current /\ sWorker[k] \in Processes
  BY <1>2 DEF BatchHeld, SpeechTyped
<1> DEFINE e == Speech!Ended(k)
<1>4. e \in Processes /\ e.doing = "dead" /\ e.mail = sWorker[k].mail
      /\ (sWorker[k].mail = "rendered" => e.take = sWorker[k].take)
  BY <1>3, EndedProcess
<1>5. sWorker[k] = Speech!Current /\ Speech!Current' = e
  BY <1>1, <1>2, <1>3 DEF Speech!Current, SpeechTyped
<1> HIDE DEF e
<1>6. SpeechTyped'
  BY <1>1, <1>2, <1>4 DEF SpeechTyped, e
<1>7. \A j \in Speech!WorkerIds : ~Speech!Alive(j)'
  BY <1>1, <1>2, <1>3, <1>4, OneLives DEF Speech!Alive, SpeechTyped, e
<1>8. BatchHeld'
  BY <1>1, <1>2, <1>7 DEF BatchHeld
<1>9. WorkerHeeds'
  BY <1>1, <1>2, <1>4, <1>5 DEF WorkerHeeds, Speech!Wanted
<1>10. InHand'
  BY <1>1, <1>2, <1>4, <1>5 DEF InHand
<1>11. OnlyNeeded'
  <2>1. Needed' => Needed
    BY <1>1, <1>4, <1>5 DEF Needed
  <2>2. \A s \in Segments : Speech!Reusable(s)' = Speech!Reusable(s)
    BY <1>1 DEF Speech!Reusable
  <2>3. sBatch.segment \in Segments \cup {"none"}
    BY <1>2 DEF SpeechTyped, Batches
  <2>4. sBatch.current \in Speech!WorkerIds
    BY <1>2 DEF SpeechTyped, Batches
  <2> QED BY <1>1, <1>2, <1>7, <2>1, <2>2, <2>3, <2>4 DEF OnlyNeeded
<1>12. ManifestsStand'
  BY <1>1, <1>2 DEF ManifestsStand, Speech!ReturnedStands, Speech!At
<1> QED BY <1>6, <1>8, <1>9, <1>10, <1>11, <1>12 DEF SpeechInv

\* The engine gives up on the worker, or on this one
LEMMA BatchStops ==
  ASSUME SpeechInv, NEW then \in {"end", "retry"}, sBatch.pc \notin {"idle", "starting"},
         Speech!Stops(then),
         UNCHANGED <<sWav, sManifest, sInstalled, sEngine, sLeased, sReturned>>, sAborted' \in BOOLEAN,
         then = "retry" => Needed /\ ~Speech!Alive(sBatch.current) /\ sBatch.attempt < SeedAttempts
  PROVE  SpeechInv'
<1>1. /\ sWorker' = [Speech!Terminated EXCEPT ![sBatch.current].mail = "none"]
      /\ sBatch' = [sBatch EXCEPT !.pc = "stopping", !.then = then]
  BY DEF Speech!Stops
<1>2. SpeechTyped /\ BatchHeld /\ WorkerHeeds /\ InHand /\ OnlyNeeded /\ ManifestsStand
  BY DEF SpeechInv
<1>3. /\ sBatch'.pc = "stopping" /\ sBatch'.then = then /\ sBatch' \in Batches
      /\ sBatch'.current = sBatch.current /\ sBatch'.wanted = sBatch.wanted
      /\ sBatch'.segment = sBatch.segment /\ sBatch'.attempt = sBatch.attempt
  BY <1>1, <1>2 DEF SpeechTyped, Batches, BatchStages
<1> DEFINE c == sBatch.current
<1>4. c \in Speech!WorkerIds /\ sWorker[c] = Speech!Current /\ Speech!Current' = sWorker'[c]
  BY <1>2, <1>3 DEF SpeechTyped, Batches, Speech!Current
<1> HIDE DEF c
<1>5. sWorker' = [sWorker EXCEPT ![c] = [sWorker[c] EXCEPT !.told = Speech!Alive(c), !.mail = "none"]]
  BY <1>1, <1>2, <1>4 DEF Speech!Terminated, SpeechTyped, Processes, c
<1>6. sWorker' \in [Speech!WorkerIds -> Processes]
  <2>1. [sWorker[c] EXCEPT !.told = Speech!Alive(c), !.mail = "none"] \in Processes
    BY <1>2, <1>4 DEF SpeechTyped, Processes, Speech!Alive
  <2> QED BY <1>2, <1>5, <2>1 DEF SpeechTyped
<1>7. \A k \in Speech!WorkerIds : sWorker'[k].doing = sWorker[k].doing
  BY <1>2, <1>4, <1>5 DEF SpeechTyped, Processes
<1>8. /\ sWorker'[c].by = sWorker[c].by /\ sWorker'[c].segment = sWorker[c].segment
      /\ sWorker'[c].take = sWorker[c].take /\ sWorker'[c].mail = "none"
  BY <1>2, <1>4, <1>5 DEF SpeechTyped, Processes
<1>9. sWorker'[c].doing = sWorker[c].doing /\ sWorker[c].doing \in Doings
  BY <1>2, <1>4, <1>7 DEF SpeechTyped, Processes
<1>10. SpeechTyped'
  BY <1>2, <1>3, <1>6 DEF SpeechTyped
<1>11. BatchHeld'
  BY <1>2, <1>3, <1>7 DEF BatchHeld, Speech!Alive, Speech!NoBatch
<1>12. Speech!Wanted' = Speech!Wanted
  BY <1>3 DEF Speech!Wanted
<1>13. WorkerHeeds'
  BY <1>2, <1>3, <1>4, <1>8, <1>9, <1>12 DEF WorkerHeeds, AtWork
<1>14. InHand'
  BY <1>2, <1>3, <1>4, <1>9 DEF InHand
<1>15. OnlyNeeded'
  <2>1. Needed' => Needed
    BY <1>3, <1>4, <1>9 DEF Needed
  <2>2. \A s \in Segments : Speech!Reusable(s)' = Speech!Reusable(s)
    BY <1>3 DEF Speech!Reusable
  <2>3. sBatch.segment \in Segments \cup {"none"}
    BY <1>2 DEF SpeechTyped, Batches
  <2>4. Speech!Alive(sBatch.current)' = Speech!Alive(sBatch.current)
    BY <1>3, <1>4, <1>7 DEF Speech!Alive, c
  <2> QED BY <1>2, <1>3, <2>1, <2>2, <2>3, <2>4 DEF OnlyNeeded
<1>16. ManifestsStand'
  BY <1>2, <1>3 DEF ManifestsStand, Speech!ReturnedStands, Speech!At
<1> QED BY <1>10, <1>11, <1>13, <1>14, <1>15, <1>16 DEF SpeechInv

\* Nobody but the worker of a batch changes what it has
LEMMA BatchFrame ==
  ASSUME SpeechInv, UNCHANGED <<sWav, sManifest, sEngine, sLeased, sReturned, sWorker, sBatch>>,
         sInstalled' \in Toolchains, sAborted' \in BOOLEAN
  PROVE  SpeechInv'
<1>1. SpeechTyped /\ BatchHeld /\ WorkerHeeds /\ InHand /\ OnlyNeeded /\ ManifestsStand
  BY DEF SpeechInv
<1>2. Speech!Current' = Speech!Current /\ Speech!Wanted' = Speech!Wanted
      /\ (\A k : Speech!Alive(k)' = Speech!Alive(k))
      /\ (\A s : Speech!Reusable(s)' = Speech!Reusable(s))
  BY DEF Speech!Current, Speech!Wanted, Speech!Alive, Speech!Reusable
<1>3. SpeechTyped'
  BY <1>1 DEF SpeechTyped
<1>4. BatchHeld'
  BY <1>1, <1>2 DEF BatchHeld
<1>5. WorkerHeeds' /\ InHand'
  BY <1>1, <1>2 DEF WorkerHeeds, InHand
<1>6. OnlyNeeded'
  <2>1. Needed' = Needed
    BY <1>2 DEF Needed
  <2> QED BY <1>1, <1>2, <2>1 DEF OnlyNeeded
<1>7. ManifestsStand'
  BY <1>1 DEF ManifestsStand, Speech!ReturnedStands, Speech!At
<1> QED BY <1>3, <1>4, <1>5, <1>6, <1>7 DEF SpeechInv

LEMMA WorkerEnds ==
  ASSUME SpeechInv, NEW k \in Speech!WorkerIds,
         Speech!Refuse(k) \/ Speech!Exit(k) \/ Speech!Killed(k) \/ Speech!Dies(k)
  PROVE  SpeechInv'
<1>1. CASE Speech!Refuse(k)
  BY <1>1, WorkerGoes DEF Speech!Refuse, Speech!Alive
<1>2. CASE Speech!Exit(k)
  BY <1>2, WorkerGoes DEF Speech!Exit, Speech!Alive
<1>3. CASE Speech!Killed(k)
  BY <1>3, WorkerGoes DEF Speech!Killed
<1>4. CASE Speech!Dies(k)
  BY <1>4, WorkerGoes DEF Speech!Dies
<1> QED BY <1>1, <1>2, <1>3, <1>4

\* The worker is at something else, alive or dead, and nothing but its segment's audio is new
LEMMA WorkerTurns ==
  ASSUME SpeechInv, NEW w \in Processes, Speech!Works(sBatch.current, w), Speech!Current.doing \in {"speaking", "written"},
         sWav' = sWav \/ (w.doing = "written" /\ sWav' = [sWav EXCEPT ![sBatch.segment] = Speech!Wanted]),
         w.doing \in {"dead", "written", "waiting"}, w.doing # "dead" => w.by = sEngine,
         w.doing = "written" => w.segment = sBatch.segment /\ w.take = Speech!Wanted /\ w.mail = "none",
         w.mail = "rendered" => w.take = Speech!Wanted /\ w.doing = "waiting",
         w.mail = "gate" => w.doing = "dead" /\ Speech!Current.doing = "speaking"
  PROVE  SpeechInv'
<1> DEFINE c == sBatch.current
<1>1. /\ sWorker' = [sWorker EXCEPT ![c] = w]
      /\ UNCHANGED <<sManifest, sInstalled, sEngine, sLeased, sBatch, sAborted, sReturned>>
  BY DEF Speech!Works, Speech!Tools
<1>2. SpeechTyped /\ BatchHeld /\ WorkerHeeds /\ InHand /\ OnlyNeeded /\ ManifestsStand
  BY DEF SpeechInv
<1>3. c \in Speech!WorkerIds /\ Speech!Current = sWorker[c] /\ Speech!Current' = w
  BY <1>1, <1>2 DEF Speech!Current, SpeechTyped, Batches
<1>4. /\ sBatch.pc \in {"hearing", "stopping"} /\ sBatch.segment \in Segments
      /\ sReturned[sBatch.segment] = Speech!None /\ sBatch.pc # "idle" /\ sBatch.segment # "none"
  BY <1>2, BatchesAssumption DEF WorkerHeeds, InHand
<1>5. Speech!Wanted' = Speech!Wanted /\ Speech!Wanted \in Speech!Takes
  BY <1>1, <1>2, <1>4, WantedIsTake DEF Speech!Wanted, BatchHeld
<1>6. SpeechTyped'
  BY <1>1, <1>2, <1>3, <1>5 DEF SpeechTyped, Recorded
<1>7. BatchHeld'
  BY <1>1, <1>2, <1>3, <1>4 DEF BatchHeld, Speech!Alive, SpeechTyped
<1>8. WorkerHeeds'
  BY <1>1, <1>2, <1>3, <1>4, <1>5 DEF WorkerHeeds, AtWork, Doings
<1>9. InHand'
  BY <1>1, <1>2, <1>3, <1>4 DEF InHand
<1>10. OnlyNeeded'
  <2>1. ASSUME Needed' PROVE Needed /\ w.doing = "dead"
    <3>1. \/ sBatch.pc = "hearing" /\ w.mail = "gate"
          \/ sBatch.pc = "stopping" /\ sBatch.then = "retry"
      BY <1>1, <1>3, <1>4, <2>1 DEF Needed
    <3>2. CASE w.mail = "gate"
      BY <1>3, <3>2 DEF Needed
    <3>3. CASE sBatch.pc = "stopping" /\ sBatch.then = "retry"
      BY <1>2, <1>3, <3>3 DEF OnlyNeeded, Speech!Alive, Speech!Current
    <3> QED BY <3>1, <3>2, <3>3
  <2>2. ~(sBatch.pc = "stopping" /\ sBatch.then = "retry")
    BY <1>2, <1>3 DEF OnlyNeeded, Speech!Alive
  <2>3. ASSUME Needed' PROVE ~Speech!Reusable(sBatch.segment)'
    <3>1. sWav' = sWav
      BY <2>1, <2>3
    <3> QED BY <1>1, <1>2, <2>1, <2>3, <3>1 DEF OnlyNeeded, Speech!Reusable
  <2> QED BY <1>1, <1>4, <2>2, <2>3 DEF OnlyNeeded
<1>11. ManifestsStand'
  <2>1. ASSUME NEW s \in Segments, sReturned[s] # Speech!None PROVE sWav'[s] = sWav[s]
    BY <1>2, <1>4, <2>1 DEF SpeechTyped
  <2> QED BY <1>1, <1>2, <1>4, <2>1 DEF ManifestsStand, Speech!ReturnedStands, Speech!At
<1> QED BY <1>6, <1>7, <1>8, <1>9, <1>10, <1>11 DEF SpeechInv

LEMMA WorkerSpeaks ==
  ASSUME SpeechInv, NEW k \in Speech!WorkerIds, Speech!Speak(k) \/ Speech!Report(k)
  PROVE  SpeechInv'
<1>1. k = sBatch.current /\ Speech!Current = sWorker[k] /\ sWorker[k] \in Processes
      /\ sWorker[k].doing \in {"speaking", "written"}
  BY OneLives DEF Speech!Speak, Speech!Report, Speech!Current, Speech!Alive
<1>2. /\ sWorker[k].by = sEngine /\ sWorker[k].segment = sBatch.segment
      /\ sWorker[k].take = Speech!Wanted /\ sWorker[k].mail = "none"
  BY <1>1 DEF SpeechInv, WorkerHeeds
<1>3. CASE Speech!Speak(k)
  <2>1. CASE /\ sWav' = [sWav EXCEPT ![sWorker[k].segment] = sWorker[k].take]
             /\ Speech!Works(k, [sWorker[k] EXCEPT !.doing = "written"])
    <3> DEFINE w == [sWorker[k] EXCEPT !.doing = "written"]
    <3>1. w \in Processes /\ w.doing = "written" /\ w.by = sEngine /\ w.segment = sBatch.segment
          /\ w.take = Speech!Wanted /\ w.mail = "none"
      BY <1>1, <1>2 DEF Processes, Doings
    <3> HIDE DEF w
    <3> QED BY <1>1, <1>2, <2>1, <3>1, WorkerTurns DEF w
  <2>2. CASE Speech!Works(k, [Speech!Dead EXCEPT !.mail = "gate"]) /\ sWav' = sWav
    <3> DEFINE w == [Speech!Dead EXCEPT !.mail = "gate"]
    <3>1. w \in Processes /\ w.doing = "dead" /\ w.mail = "gate"
      BY DeadProcess DEF Speech!Dead
    <3>2. sWorker[k].doing = "speaking"
      BY <1>3 DEF Speech!Speak
    <3> HIDE DEF w
    <3> QED BY <1>1, <2>2, <3>1, <3>2, WorkerTurns DEF w
  <2> QED BY <1>3, <2>1, <2>2 DEF Speech!Speak
<1>4. CASE Speech!Report(k)
  <2> DEFINE w == [sWorker[k] EXCEPT !.doing = "waiting", !.mail = "rendered"]
  <2>1. w \in Processes /\ w.doing = "waiting" /\ w.by = sEngine /\ w.mail = "rendered"
        /\ w.take = Speech!Wanted
    BY <1>1, <1>2 DEF Processes, Doings
  <2>2. Speech!Works(k, w) /\ sWav' = sWav
    BY <1>4 DEF Speech!Report
  <2> HIDE DEF w
  <2> QED BY <1>1, <2>1, <2>2, WorkerTurns
<1> QED BY <1>3, <1>4

-----------------------------------------------------------------------------

\* The engine goes on with the worker it has, as the two of them are
LEMMA BatchGoes ==
  ASSUME SpeechInv, sBatch.pc \notin {"idle", "starting"},
         UNCHANGED <<sWav, sManifest, sInstalled, sEngine, sLeased, sReturned, sAborted>>,
         NEW w \in Processes, sWorker' = [sWorker EXCEPT ![sBatch.current] = w],
         sBatch' \in Batches, sBatch'.pc \notin {"idle", "starting", "stopping"},
         sBatch'.current = sBatch.current, sBatch'.wanted = sBatch.wanted,
         sBatch'.segment # "none" => sReturned[sBatch'.segment] = Speech!None,
         WorkerHeeds', InHand', Needed' => sBatch'.segment # "none" /\ ~Speech!Reusable(sBatch'.segment)
  PROVE  SpeechInv'
<1>1. SpeechTyped /\ BatchHeld /\ OnlyNeeded /\ ManifestsStand
  BY DEF SpeechInv
<1>2. SpeechTyped'
  BY <1>1 DEF SpeechTyped
<1>3. BatchHeld'
  <2>1. \A k \in Speech!WorkerIds : k # sBatch.current => ~Speech!Alive(k)'
    BY <1>1, OneLives DEF Speech!Alive, SpeechTyped
  <2> QED BY <1>1, <2>1 DEF BatchHeld
<1>4. OnlyNeeded'
  <2>1. \A s \in Segments : Speech!Reusable(s)' = Speech!Reusable(s)
    BY DEF Speech!Reusable
  <2>2. sBatch'.segment \in Segments \cup {"none"}
    BY DEF Batches
  <2> QED BY <1>1, <2>1, <2>2 DEF OnlyNeeded
<1>5. ManifestsStand'
  BY <1>1 DEF ManifestsStand, Speech!ReturnedStands, Speech!At
<1> QED BY <1>2, <1>3, <1>4, <1>5 DEF SpeechInv

LEMMA BatchLoads ==
  ASSUME SpeechInv, Speech!Loaded
  PROVE  SpeechInv'
<1> DEFINE w == [Speech!Current EXCEPT !.doing = "waiting", !.by = Speech!Voiced(sInstalled)]
           to == IF sBatch.segment = "none" THEN "ready" ELSE "send"
<1>1. SpeechTyped /\ BatchHeld /\ WorkerHeeds /\ InHand /\ OnlyNeeded
  BY DEF SpeechInv
<1>2. sBatch.pc = "loading" /\ Speech!Current.doing = "loading"
  BY DEF Speech!Loaded, Speech!At
<1>3. Speech!Voiced(sInstalled) = sEngine
  BY DEF Speech!Loaded, Speech!Vetted, Speech!SameLocks, Speech!Fits, Speech!Intact, Speech!Named, Speech!Voiced
<1>4. w \in Processes /\ w.doing = "waiting" /\ w.by = sEngine /\ w.mail = Speech!Current.mail
  BY <1>1, <1>3, OneLives DEF Processes, Doings, SpeechTyped
<1>5. /\ sWorker' = [sWorker EXCEPT ![sBatch.current] = w]
      /\ UNCHANGED <<sWav, sManifest, sInstalled, sEngine, sLeased, sReturned, sAborted>>
      /\ sBatch' = [sBatch EXCEPT !.pc = to]
  BY <1>1, OneLives DEF Speech!Loaded, Speech!Current, Speech!Engine, Speech!Files, Speech!Tools, Speech!Goes, SpeechTyped
<1>6. /\ sBatch' \in Batches /\ sBatch'.pc = to /\ sBatch'.current = sBatch.current
      /\ sBatch'.wanted = sBatch.wanted /\ sBatch'.segment = sBatch.segment
  BY <1>1, <1>5 DEF SpeechTyped, Batches, BatchStages
<1>7. Speech!Current' = w
  BY <1>1, <1>5, <1>6, OneLives DEF Speech!Current, SpeechTyped
<1> HIDE DEF w
<1>8. sBatch'.segment # "none" => sReturned[sBatch'.segment] = Speech!None
  BY <1>1, <1>6 DEF InHand
<1>9. sBatch.segment # "none" => sBatch.segment \in Segments
  BY <1>1 DEF SpeechTyped, Batches
<1>10. to \in {"ready", "send"} /\ (to = "ready" <=> sBatch.segment = "none")
  OBVIOUS
<1> HIDE DEF to
<1>11. WorkerHeeds'
  BY <1>1, <1>2, <1>4, <1>5, <1>6, <1>7, <1>10 DEF WorkerHeeds, AtWork
<1>12. InHand'
  BY <1>4, <1>5, <1>6, <1>7, <1>8, <1>9, <1>10 DEF InHand
<1>13. Needed' => sBatch'.segment # "none" /\ ~Speech!Reusable(sBatch'.segment)
  <2>1. Needed' => sBatch.segment # "none"
    BY <1>4, <1>6, <1>7, <1>10, <1>1, <1>2 DEF Needed, WorkerHeeds
  <2>2. sBatch.segment # "none" => ~Speech!Reusable(sBatch.segment)
    BY <1>1, <1>2 DEF OnlyNeeded, Needed
  <2> QED BY <1>6, <2>1, <2>2
<1> QED BY <1>2, <1>4, <1>5, <1>6, <1>8, <1>10, <1>11, <1>12, <1>13, BatchGoes

\* Nothing is asked of the worker that it is not told
LEMMA SameProcess ==
  ASSUME SpeechInv
  PROVE  sWorker = [sWorker EXCEPT ![sBatch.current] = Speech!Current]
  BY OneLives DEF SpeechInv, SpeechTyped, Speech!Current

LEMMA BatchSends ==
  ASSUME SpeechInv, Speech!Send
  PROVE  SpeechInv'
<1>1. SpeechTyped /\ BatchHeld /\ WorkerHeeds /\ InHand /\ OnlyNeeded
  BY DEF SpeechInv
<1>2. sBatch.pc = "send" /\ UNCHANGED <<sWav, sManifest, sInstalled, sEngine, sLeased, sReturned, sAborted>>
  BY DEF Speech!Send, Speech!At, Speech!Engine, Speech!Files, Speech!Tools
<1>3. CASE Speech!Stops("end")
  BY <1>1, <1>2, <1>3, BatchStops DEF SpeechTyped
<1>4. CASE ~(sAborted \/ ~Speech!Alive(sBatch.current))
  <2> DEFINE w == [Speech!Current EXCEPT !.doing = "speaking", !.segment = sBatch.segment,
                     !.take = [Speech!Wanted EXCEPT !.by = Speech!Current.by], !.mail = "none"]
  <2>1. sBatch.segment \in Segments /\ sBatch.segment # "none" /\ ~Speech!Reusable(sBatch.segment)
    BY <1>1, <1>2, BatchesAssumption DEF InHand, OnlyNeeded, Needed
  <2>2. Speech!Current \in Processes /\ Speech!Current.doing = "waiting" /\ Speech!Current.by = sEngine
    BY <1>1, <1>2, <1>4, OneLives DEF WorkerHeeds, AtWork, Speech!Alive, Speech!Current
  <2>3. Speech!Wanted \in Speech!Takes /\ [Speech!Wanted EXCEPT !.by = Speech!Current.by] = Speech!Wanted
    <3>1. Speech!Wanted \in Speech!Takes
      BY <1>1, <1>2, <2>1, WantedIsTake DEF BatchHeld
    <3>2. Speech!Wanted.by = Speech!Current.by
      BY <2>2 DEF Speech!Wanted
    <3> QED BY <3>1, <3>2 DEF Speech!Wanted
  <2>4. /\ w \in Processes /\ w.doing = "speaking" /\ w.by = sEngine /\ w.mail = "none"
        /\ w.segment = sBatch.segment /\ w.take = Speech!Wanted
    BY <2>1, <2>2, <2>3 DEF Processes, Doings, Recorded
  <2>5. sWorker' = [sWorker EXCEPT ![sBatch.current] = w] /\ sBatch' = [sBatch EXCEPT !.pc = "hearing"]
    <3>1. sWorker' = [sWorker EXCEPT ![sBatch.current] =
                        [@ EXCEPT !.doing = "speaking", !.segment = sBatch.segment,
                                  !.take = [Speech!Wanted EXCEPT !.by = Speech!Current.by], !.mail = "none"]]
      BY <1>4 DEF Speech!Send
    <3>2. sBatch' = [sBatch EXCEPT !.pc = "hearing"]
      BY <1>4 DEF Speech!Send, Speech!Goes
    <3> QED BY <3>1, <3>2 DEF Speech!Current
  <2>6. /\ sBatch' \in Batches /\ sBatch'.pc = "hearing" /\ sBatch'.current = sBatch.current
        /\ sBatch'.wanted = sBatch.wanted /\ sBatch'.segment = sBatch.segment
        /\ sBatch'.attempt = sBatch.attempt
    BY <1>1, <2>5 DEF SpeechTyped, Batches, BatchStages
  <2>7. Speech!Current' = w /\ Speech!Wanted' = Speech!Wanted
    BY <1>1, <1>2, <2>5, <2>6, OneLives DEF Speech!Current, Speech!Wanted, SpeechTyped
  <2> HIDE DEF w
  <2>8. sReturned[sBatch.segment] = Speech!None
    BY <1>1, <2>1 DEF InHand
  <2>9. WorkerHeeds'
    BY <1>2, <2>4, <2>6, <2>7 DEF WorkerHeeds, AtWork
  <2>10. InHand'
    BY <1>2, <2>1, <2>6, <2>8 DEF InHand
  <2> QED BY <1>2, <2>1, <2>4, <2>5, <2>6, <2>8, <2>9, <2>10, BatchGoes
<1> QED BY <1>3, <1>4 DEF Speech!Send

LEMMA BatchHears ==
  ASSUME SpeechInv, Speech!HearRendered
  PROVE  SpeechInv'
<1>1. SpeechTyped /\ BatchHeld /\ WorkerHeeds /\ InHand /\ OnlyNeeded
  BY DEF SpeechInv
<1>2. /\ sBatch.pc = "hearing" /\ Speech!Current.mail = "rendered"
      /\ UNCHANGED <<sWav, sManifest, sInstalled, sEngine, sLeased, sReturned, sAborted, sWorker>>
      /\ sBatch' = [sBatch EXCEPT !.pc = "recording", !.heard = Speech!Current.take]
  BY DEF Speech!HearRendered, Speech!At, Speech!Engine, Speech!Files, Speech!Tools
<1>3. Speech!Current \in Processes /\ Speech!Current.take = Speech!Wanted
  BY <1>1, <1>2, OneLives DEF WorkerHeeds
<1>4. /\ sBatch' \in Batches /\ sBatch'.pc = "recording" /\ sBatch'.current = sBatch.current
      /\ sBatch'.wanted = sBatch.wanted /\ sBatch'.segment = sBatch.segment
      /\ sBatch'.attempt = sBatch.attempt /\ sBatch'.heard = Speech!Current.take
  BY <1>1, <1>2, <1>3 DEF SpeechTyped, Batches, BatchStages, Processes
<1>5. Speech!Current' = Speech!Current /\ Speech!Wanted' = Speech!Wanted
  BY <1>2, <1>4 DEF Speech!Current, Speech!Wanted
<1>6. Speech!Current.doing \in {"waiting", "dead"}
  <2>1. Speech!Current.doing \in {"speaking", "written", "waiting", "dead"}
    BY <1>1, <1>2 DEF WorkerHeeds, AtWork
  <2> QED BY <1>1, <1>2, <2>1 DEF WorkerHeeds
<1>7. sBatch.segment # "none" => sReturned[sBatch.segment] = Speech!None
  BY <1>1 DEF InHand
<1>8. WorkerHeeds'
  BY <1>1, <1>2, <1>3, <1>4, <1>5, <1>6 DEF WorkerHeeds, AtWork
<1>9. InHand'
  BY <1>1, <1>2, <1>4, <1>5, <1>6 DEF InHand
<1>10. ~Needed'
  BY <1>4, <1>5, <1>6 DEF Needed
<1> QED BY <1>2, <1>3, <1>4, <1>7, <1>8, <1>9, <1>10, BatchGoes, SameProcess

LEMMA BatchEnds ==
  ASSUME SpeechInv, Speech!End
  PROVE  SpeechInv'
<1>1. SpeechTyped /\ BatchHeld /\ WorkerHeeds /\ InHand /\ OnlyNeeded
  BY DEF SpeechInv
<1>2. sBatch.pc = "ready" /\ UNCHANGED <<sWav, sManifest, sInstalled, sEngine, sLeased, sReturned, sAborted>>
  BY DEF Speech!End, Speech!At, Speech!Engine, Speech!Files, Speech!Tools
<1>3. CASE Speech!Stops("end")
  BY <1>1, <1>2, <1>3, BatchStops DEF SpeechTyped
<1>4. CASE ~(sAborted \/ ~Speech!Alive(sBatch.current))
  <2> DEFINE w == [Speech!Current EXCEPT !.doing = "ending"]
  <2>1. Speech!Current \in Processes /\ Speech!Current.doing = "waiting" /\ Speech!Current.by = sEngine
    BY <1>1, <1>2, <1>4, OneLives DEF WorkerHeeds, AtWork, Speech!Alive, Speech!Current
  <2>2. w \in Processes /\ w.doing = "ending" /\ w.by = sEngine /\ w.mail = Speech!Current.mail
    BY <2>1 DEF Processes, Doings
  <2>3. sWorker' = [sWorker EXCEPT ![sBatch.current] = w] /\ sBatch' = [sBatch EXCEPT !.pc = "ending"]
    BY <1>4 DEF Speech!End, Speech!Goes, Speech!Current
  <2>4. /\ sBatch' \in Batches /\ sBatch'.pc = "ending" /\ sBatch'.current = sBatch.current
        /\ sBatch'.wanted = sBatch.wanted /\ sBatch'.segment = sBatch.segment
    BY <1>1, <2>3 DEF SpeechTyped, Batches, BatchStages
  <2>5. Speech!Current' = w
    BY <1>1, <2>3, <2>4, OneLives DEF Speech!Current, SpeechTyped
  <2>6. Speech!Current.mail # "gate" /\ sBatch.segment = "none"
    BY <1>1, <1>2, <2>1 DEF WorkerHeeds, InHand
  <2> HIDE DEF w
  <2>7. WorkerHeeds' /\ InHand' /\ ~Needed'
    BY <1>2, <2>2, <2>4, <2>5, <2>6 DEF WorkerHeeds, AtWork, InHand, Needed
  <2> QED BY <1>2, <2>2, <2>3, <2>4, <2>6, <2>7, BatchGoes
<1> QED BY <1>3, <1>4 DEF Speech!End

LEMMA BatchGivesUp ==
  ASSUME SpeechInv, Speech!HearGate \/ Speech!HearEnd \/ Speech!Throws
  PROVE  SpeechInv'
<1>1. SpeechTyped /\ BatchHeld /\ WorkerHeeds /\ InHand /\ OnlyNeeded
  BY DEF SpeechInv
<1>2. CASE Speech!HearGate
  <2>1. sBatch.pc = "hearing" /\ UNCHANGED <<sWav, sManifest, sInstalled, sEngine, sLeased, sReturned, sAborted>>
        /\ Speech!Current.mail = "gate"
    BY <1>2 DEF Speech!HearGate, Speech!At, Speech!Engine, Speech!Files, Speech!Tools
  <2>2. PICK then \in {"end", "retry"} :
          Speech!Stops(then) /\ (then = "retry" => sBatch.attempt < SeedAttempts)
    BY <1>2 DEF Speech!HearGate
  <2>3. Needed /\ ~Speech!Alive(sBatch.current)
    BY <1>1, <2>1 DEF Needed, WorkerHeeds, Speech!Alive, Speech!Current
  <2> QED BY <1>1, <2>1, <2>2, <2>3, BatchStops DEF SpeechTyped
<1>3. CASE Speech!HearEnd \/ Speech!Throws
  <2>1. /\ sBatch.pc \notin {"idle", "starting"} /\ Speech!Stops("end")
        /\ UNCHANGED <<sWav, sManifest, sInstalled, sEngine, sLeased, sReturned, sAborted>>
    BY <1>3 DEF Speech!HearEnd, Speech!Throws, Speech!Engine, Speech!Files, Speech!Tools
  <2> QED BY <1>1, <2>1, BatchStops DEF SpeechTyped
<1> QED BY <1>2, <1>3

LEMMA BatchRenders ==
  ASSUME SpeechInv, NEW s \in Segments, Speech!Render(s)
  PROVE  SpeechInv'
<1>1. SpeechTyped /\ BatchHeld /\ WorkerHeeds /\ InHand /\ OnlyNeeded /\ ManifestsStand
  BY DEF SpeechInv
<1>2. /\ sBatch.pc = "ready" /\ sReturned[s] = Speech!None
      /\ UNCHANGED <<sWav, sManifest, sInstalled, sEngine, sLeased, sAborted, sWorker>>
  BY DEF Speech!Render, Speech!At, Speech!Files, Speech!Tools
<1>3. Speech!Current \in Processes /\ Speech!Current.doing \in {"waiting", "dead"}
  BY <1>1, <1>2, OneLives DEF WorkerHeeds, AtWork
<1>4. CASE Speech!Reusable(s) /\ sReturned' = [sReturned EXCEPT ![s] = sWav[s]] /\ sBatch' = sBatch
  <2>1. Speech!Current' = Speech!Current /\ Speech!Wanted' = Speech!Wanted
        /\ (\A k : Speech!Alive(k)' = Speech!Alive(k))
    BY <1>2, <1>4 DEF Speech!Current, Speech!Wanted, Speech!Alive
  <2>2. SpeechTyped'
    BY <1>1, <1>2, <1>4 DEF SpeechTyped
  <2>3. BatchHeld' /\ WorkerHeeds'
    BY <1>1, <1>2, <1>4, <2>1 DEF BatchHeld, WorkerHeeds
  <2>4. sBatch.segment = "none" /\ InHand' /\ OnlyNeeded'
    BY <1>1, <1>2, <1>3, <1>4, <2>1 DEF InHand, OnlyNeeded, Needed
  <2>5. ManifestsStand'
    <3>1. ASSUME NEW r \in Segments, sReturned'[r] # Speech!None
          PROVE  /\ sWav[r] = sReturned'[r] /\ sReturned'[r].of = sBatch.wanted[r]
                 /\ sReturned'[r].by = sEngine
                 /\ sManifest[r] = [names |-> sWav[r], hash |-> sWav[r]]
      <4>1. CASE r = s
        <5>1. sReturned'[r] = sWav[r] /\ sManifest[r].names = sManifest[r].hash
              /\ sManifest[r] \in [names : Recorded, hash : Recorded]
          BY <1>1, <1>4, <4>1 DEF SpeechTyped, ManifestsStand
        <5> QED BY <1>4, <4>1, <5>1 DEF Speech!Reusable
      <4>2. CASE r # s
        <5>1. sReturned'[r] = sReturned[r]
          BY <1>1, <1>4, <4>2 DEF SpeechTyped
        <5> QED BY <1>1, <1>2, <3>1, <5>1 DEF ManifestsStand, Speech!ReturnedStands, Speech!At
      <4> QED BY <4>1, <4>2
    <3> QED BY <1>1, <1>2, <1>4, <3>1 DEF ManifestsStand, Speech!ReturnedStands
  <2> QED BY <2>2, <2>3, <2>4, <2>5 DEF SpeechInv
<1>5. CASE /\ ~Speech!Reusable(s) /\ sReturned' = sReturned
           /\ sBatch' = [sBatch EXCEPT !.pc = "send", !.segment = s, !.attempt = 1]
  <2>1. /\ sBatch' \in Batches /\ sBatch'.pc = "send" /\ sBatch'.current = sBatch.current
        /\ sBatch'.wanted = sBatch.wanted /\ sBatch'.segment = s
    <3>1. 1 \in 1..SeedAttempts
      BY BatchesAssumption
    <3> QED BY <1>1, <1>5, <3>1 DEF SpeechTyped, Batches, BatchStages
  <2>2. Speech!Current' = Speech!Current
    BY <1>2, <2>1 DEF Speech!Current
  <2>3. WorkerHeeds' /\ InHand'
    BY <1>1, <1>2, <1>3, <1>5, <2>1, <2>2 DEF WorkerHeeds, AtWork, InHand
  <2>4. sBatch'.segment # "none" /\ ~Speech!Reusable(sBatch'.segment)
    BY <1>5, <2>1, BatchesAssumption
  <2>5. sReturned[sBatch'.segment] = Speech!None
    BY <1>2, <2>1
  <2> QED BY <1>2, <1>3, <1>5, <2>1, <2>3, <2>4, <2>5, BatchGoes, SameProcess
<1> QED BY <1>4, <1>5 DEF Speech!Render

LEMMA BatchRecords ==
  ASSUME SpeechInv, Speech!Record
  PROVE  SpeechInv'
<1>1. SpeechTyped /\ BatchHeld /\ WorkerHeeds /\ InHand /\ OnlyNeeded /\ ManifestsStand
  BY DEF SpeechInv
<1>2. sBatch.pc = "recording" /\ UNCHANGED <<sWav, sInstalled, sEngine, sLeased, sAborted>>
  BY DEF Speech!Record, Speech!At, Speech!Tools
<1>3. CASE Speech!Stops("end") /\ UNCHANGED <<sManifest, sReturned>>
  BY <1>1, <1>2, <1>3, BatchStops DEF SpeechTyped
<1>4. CASE /\ sWav[sBatch.segment] = sBatch.heard /\ sWorker' = sWorker
           /\ sManifest' = [sManifest EXCEPT ![sBatch.segment] = [names |-> Speech!Wanted, hash |-> sWav[sBatch.segment]]]
           /\ sReturned' = [sReturned EXCEPT ![sBatch.segment] = sWav[sBatch.segment]]
           /\ sBatch' = [sBatch EXCEPT !.pc = "ready", !.segment = "none", !.heard = Speech!None]
  <2> DEFINE s == sBatch.segment
  <2>1. s \in Segments /\ sBatch.heard = Speech!Wanted /\ sWav[s] = Speech!Wanted
    BY <1>1, <1>2, <1>4 DEF InHand, WorkerHeeds
  <2>2. Speech!Wanted \in Speech!Takes /\ Speech!Wanted \in Recorded
        /\ Speech!Wanted.of = sBatch.wanted[s] /\ Speech!Wanted.by = sEngine
    BY <1>1, <1>2, <2>1, WantedIsTake DEF BatchHeld, Recorded, Speech!Wanted
  <2>3. /\ sBatch' \in Batches /\ sBatch'.pc = "ready" /\ sBatch'.current = sBatch.current
        /\ sBatch'.wanted = sBatch.wanted /\ sBatch'.segment = "none"
    BY <1>1, <1>4, NoneRecorded DEF SpeechTyped, Batches, BatchStages
  <2>4. Speech!Current' = Speech!Current
    BY <1>4, <2>3 DEF Speech!Current
  <2>5. Speech!Current.doing \in {"waiting", "dead"}
    BY <1>1, <1>2 DEF WorkerHeeds, AtWork
  <2>6. SpeechTyped'
    BY <1>1, <1>2, <1>4, <2>1, <2>2, <2>3 DEF SpeechTyped
  <2>7. BatchHeld'
    BY <1>1, <1>2, <1>4, <2>3 DEF BatchHeld, Speech!Alive
  <2>8. WorkerHeeds' /\ InHand' /\ OnlyNeeded'
    BY <1>1, <1>2, <1>4, <2>3, <2>4, <2>5 DEF WorkerHeeds, AtWork, InHand, OnlyNeeded, Needed
  <2>9. ManifestsStand'
    <3>1. ASSUME NEW r \in Segments, r # s
          PROVE  sManifest'[r] = sManifest[r] /\ sReturned'[r] = sReturned[r]
      BY <1>1, <1>4, <3>1 DEF SpeechTyped
    <3>2. /\ sManifest'[s] = [names |-> Speech!Wanted, hash |-> Speech!Wanted]
          /\ sReturned'[s] = Speech!Wanted
      BY <1>1, <1>4, <2>1 DEF SpeechTyped
    <3> QED
      BY <1>1, <1>2, <2>1, <2>2, <2>3, <3>1, <3>2 DEF ManifestsStand, Speech!ReturnedStands, Speech!At
  <2> QED BY <2>6, <2>7, <2>8, <2>9 DEF SpeechInv
<1> QED BY <1>3, <1>4 DEF Speech!Record

\* Nobody speaks, and a segment in hand waits for another worker
LEMMA BatchRests ==
  ASSUME SpeechTyped', BatchHeld', ManifestsStand', \A k \in Speech!WorkerIds : sWorker'[k].doing = "dead",
         sBatch'.pc \in {"idle", "starting"},
         sBatch'.segment # "none" =>
           sReturned'[sBatch'.segment] = Speech!None /\ ~Speech!Reusable(sBatch.segment)'
  PROVE  SpeechInv'
<1>1. Speech!Current'.doing = "dead"
  BY DEF SpeechTyped, Batches, Speech!Current
<1>2. WorkerHeeds' /\ InHand' /\ OnlyNeeded'
  BY <1>1 DEF WorkerHeeds, AtWork, InHand, OnlyNeeded, Needed
<1> QED BY <1>2 DEF SpeechInv

LEMMA BatchOver ==
  ASSUME SpeechInv, sLeased' = FALSE, sBatch' = Speech!NoBatch, sAborted' = FALSE,
         sReturned' = Speech!Nothing, sWav' \in [Segments -> Recorded],
         sManifest' \in [Segments -> [names : Recorded, hash : Recorded]],
         \A s \in Segments : sManifest'[s].names = sManifest'[s].hash,
         sInstalled' = sInstalled, sEngine' \in {sEngine, Speech!Nobody},
         sWorker' \in [Speech!WorkerIds -> Processes], \A k \in Speech!WorkerIds : sWorker'[k].doing = "dead"
  PROVE  SpeechInv'
<1>1. Speech!NoBatch \in Batches /\ Speech!NoBatch.pc = "idle" /\ Speech!NoBatch.segment = "none"
  BY NoneRecorded, BatchesAssumption DEF Speech!NoBatch, Batches, BatchStages, Speech!WorkerIds
<1>2. SpeechTyped'
  BY <1>1, NoneRecorded DEF SpeechInv, SpeechTyped, Speech!Nothing
<1>3. BatchHeld'
  BY <1>1 DEF BatchHeld, Speech!Alive
<1>4. ManifestsStand'
  BY <1>1 DEF ManifestsStand, Speech!ReturnedStands, Speech!At
<1> QED BY <1>1, <1>2, <1>3, <1>4, BatchRests

LEMMA BatchFrees ==
  ASSUME SpeechInv, Speech!Free \/ Speech!Crash
  PROVE  SpeechInv'
<1>1. SpeechTyped /\ ManifestsStand
  BY DEF SpeechInv
<1>2. sWorker' \in [Speech!WorkerIds -> Processes]
      /\ \A k \in Speech!WorkerIds : sWorker'[k].doing = "dead"
  <2>1. CASE Speech!Free
    <3>1. sWorker' = sWorker /\ Speech!Current.doing = "dead"
      BY <2>1 DEF Speech!Free, Speech!Alive, Speech!Current
    <3> QED BY <1>1, <3>1, OneLives DEF SpeechTyped, Speech!Current
  <2>2. CASE Speech!Crash
    BY <2>2, DeadProcess DEF Speech!Crash, Speech!Dead
  <2> QED BY <2>1, <2>2
<1> QED
  BY <1>1, <1>2, BatchOver
     DEF Speech!Free, Speech!Crash, Speech!Files, Speech!Tools, SpeechTyped, ManifestsStand

LEMMA BatchDamaged ==
  ASSUME SpeechInv, NEW s \in Segments, Speech!Damage(s)
  PROVE  SpeechInv'
<1>1. SpeechTyped /\ BatchHeld /\ ManifestsStand
  BY DEF SpeechInv
<1>2. /\ sBatch.pc = "idle" /\ UNCHANGED <<sInstalled, sEngine, sLeased, sWorker, sBatch, sAborted, sReturned>>
      /\ sWav' \in {sWav, [sWav EXCEPT ![s] = Speech!None]}
      /\ sManifest' \in {sManifest, [sManifest EXCEPT ![s] = [names |-> Speech!None, hash |-> Speech!None]]}
  BY DEF Speech!Damage, Speech!At, Speech!Tools
<1>3. \A k \in Speech!WorkerIds : sWorker'[k].doing = "dead"
  BY <1>1, <1>2, OneLives DEF Speech!Current
<1>4. SpeechTyped'
  BY <1>1, <1>2, NoneRecorded DEF SpeechTyped
<1>5. BatchHeld'
  BY <1>1, <1>2 DEF BatchHeld, Speech!Alive
<1>6. ManifestsStand'
  BY <1>1, <1>2 DEF ManifestsStand, SpeechTyped, Speech!ReturnedStands, Speech!At
<1>7. sBatch'.pc = "idle" /\ sBatch'.segment = "none"
  BY <1>1, <1>2 DEF BatchHeld, Speech!NoBatch
<1> QED BY <1>3, <1>4, <1>5, <1>6, <1>7, BatchRests

LEMMA BatchBegins ==
  ASSUME SpeechInv, NEW wanted \in Orders, Speech!Begin(wanted)
  PROVE  SpeechInv'
<1>1. SpeechTyped /\ BatchHeld /\ ManifestsStand
  BY DEF SpeechInv
<1>2. /\ sBatch.pc = "idle" /\ sEngine # Speech!Nobody /\ sLeased' = TRUE
      /\ sBatch' = [Speech!NoBatch EXCEPT !.pc = "starting", !.wanted = wanted]
      /\ UNCHANGED <<sWav, sManifest, sInstalled, sEngine, sWorker, sAborted, sReturned>>
  BY DEF Speech!Begin, Speech!At, Speech!Files, Speech!Tools
<1>3. sBatch' \in Batches /\ sBatch'.pc = "starting" /\ sBatch'.segment = "none" /\ sBatch'.wanted = wanted
  <2>1. 1 \in 1..SeedAttempts /\ wanted \in [Segments -> Identities \cup {"none"}]
    BY BatchesAssumption
  <2> QED BY <1>2, <2>1, NoneRecorded DEF Speech!NoBatch, Batches, BatchStages, Speech!WorkerIds
<1>4. \A k \in Speech!WorkerIds : sWorker'[k].doing = "dead"
  BY <1>1, <1>2, OneLives DEF Speech!Current
<1>5. SpeechTyped'
  BY <1>1, <1>2, <1>3 DEF SpeechTyped
<1>6. BatchHeld'
  BY <1>1, <1>2, <1>3, <1>4 DEF BatchHeld, SpeechTyped, Speech!Alive
<1>7. sReturned' = Speech!Nothing
  BY <1>1, <1>2 DEF BatchHeld
<1>8. ManifestsStand'
  BY <1>1, <1>2, <1>7 DEF ManifestsStand, Speech!ReturnedStands, Speech!Nothing
<1> QED BY <1>3, <1>4, <1>5, <1>6, <1>8, BatchRests

LEMMA BatchRetries ==
  ASSUME SpeechInv, Speech!Retry
  PROVE  SpeechInv'
<1>1. SpeechTyped /\ BatchHeld /\ InHand /\ OnlyNeeded /\ ManifestsStand
  BY DEF SpeechInv
<1>2. /\ sBatch.pc = "stopping" /\ sBatch.then = "retry" /\ Speech!Current.doing = "dead"
      /\ UNCHANGED <<sWav, sManifest, sInstalled, sEngine, sLeased, sAborted, sReturned>>
  BY DEF Speech!Retry, Speech!At, Speech!Engine, Speech!Files, Speech!Tools, Speech!Alive, Speech!Current
<1>3. CASE Speech!Stops("end")
  BY <1>1, <1>2, <1>3, BatchStops DEF SpeechTyped
<1>4. CASE sBatch' = [sBatch EXCEPT !.pc = "starting", !.attempt = sBatch.attempt + 1] /\ sWorker' = sWorker
  <2>1. sBatch.segment # "none" /\ ~Speech!Reusable(sBatch.segment) /\ sBatch.attempt < SeedAttempts
        /\ sReturned[sBatch.segment] = Speech!None
    BY <1>1, <1>2 DEF OnlyNeeded, Needed, InHand
  <2>2. /\ sBatch' \in Batches /\ sBatch'.pc = "starting" /\ sBatch'.segment = sBatch.segment
        /\ sBatch'.wanted = sBatch.wanted
    <3>1. sBatch \in Batches /\ sBatch.attempt + 1 \in 1..SeedAttempts
      BY <1>1, <2>1, BatchesAssumption DEF SpeechTyped, Batches
    <3> QED BY <1>4, <3>1 DEF Batches, BatchStages
  <2>3. \A k \in Speech!WorkerIds : sWorker'[k].doing = "dead"
    BY <1>2, <1>4, OneLives DEF Speech!Current
  <2>4. SpeechTyped'
    BY <1>1, <1>2, <1>4, <2>2 DEF SpeechTyped
  <2>5. BatchHeld'
    BY <1>1, <1>2, <2>2, <2>3 DEF BatchHeld, Speech!Alive
  <2>6. ManifestsStand'
    BY <1>1, <1>2, <2>2 DEF ManifestsStand, Speech!ReturnedStands, Speech!At
  <2>7. ~Speech!Reusable(sBatch.segment)'
    BY <1>2, <2>1, <2>2 DEF Speech!Reusable
  <2> QED BY <1>2, <2>1, <2>2, <2>3, <2>4, <2>5, <2>6, <2>7, BatchRests
<1> QED BY <1>3, <1>4 DEF Speech!Retry

LEMMA BatchStarts ==
  ASSUME SpeechInv, Speech!Start
  PROVE  SpeechInv'
<1>1. SpeechTyped /\ BatchHeld /\ InHand /\ OnlyNeeded /\ ManifestsStand
  BY DEF SpeechInv
<1>2. sBatch.pc = "starting" /\ UNCHANGED <<sWav, sManifest, sInstalled, sEngine, sLeased, sAborted, sReturned>>
  BY DEF Speech!Start, Speech!At, Speech!Engine, Speech!Files, Speech!Tools
<1> DEFINE w == [Speech!Dead EXCEPT !.doing = "loading", !.told = sAborted]
<1>3. PICK k \in Speech!WorkerIds :
        /\ sWorker' = [sWorker EXCEPT ![k] = w]
        /\ sBatch' = [sBatch EXCEPT !.pc = "loading", !.current = k]
  BY DEF Speech!Start
<1>4. w \in Processes /\ w.doing = "loading" /\ w.mail = "none"
  BY <1>1, NoneRecorded DEF SpeechTyped, Speech!Dead, Processes, Doings
<1>5. /\ sBatch' \in Batches /\ sBatch'.pc = "loading" /\ sBatch'.current = k
      /\ sBatch'.wanted = sBatch.wanted /\ sBatch'.segment = sBatch.segment
  BY <1>1, <1>3 DEF SpeechTyped, Batches, BatchStages
<1> HIDE DEF w
<1>6. Speech!Current' = w /\ \A j \in Speech!WorkerIds : j # k => sWorker'[j].doing = "dead"
  <2>1. \A j \in Speech!WorkerIds : sWorker[j].doing = "dead"
    BY <1>2, OneLives DEF Speech!Current
  <2> QED BY <1>1, <1>3, <1>5, <2>1 DEF SpeechTyped, Speech!Current
<1>7. SpeechTyped'
  BY <1>1, <1>2, <1>3, <1>4, <1>5 DEF SpeechTyped
<1>8. BatchHeld'
  BY <1>1, <1>2, <1>5, <1>6 DEF BatchHeld, Speech!Alive
<1>9. WorkerHeeds' /\ InHand'
  BY <1>1, <1>2, <1>4, <1>5, <1>6 DEF WorkerHeeds, AtWork, InHand
<1>10. OnlyNeeded'
  <2>1. Needed' => sBatch.segment # "none"
    BY <1>4, <1>5, <1>6 DEF Needed
  <2>2. sBatch.segment # "none" => ~Speech!Reusable(sBatch.segment)
    BY <1>1, <1>2 DEF OnlyNeeded, Needed
  <2>3. Speech!Reusable(sBatch.segment)' = Speech!Reusable(sBatch.segment)
    BY <1>2, <1>5 DEF Speech!Reusable
  <2> QED BY <1>5, <2>1, <2>2, <2>3 DEF OnlyNeeded
<1>11. ManifestsStand'
  BY <1>1, <1>2, <1>5 DEF ManifestsStand, Speech!ReturnedStands, Speech!At
<1> QED BY <1>7, <1>8, <1>9, <1>10, <1>11 DEF SpeechInv

LEMMA BatchCancelled ==
  ASSUME SpeechInv, Speech!Cancel
  PROVE  SpeechInv'
<1> DEFINE c == sBatch.current
           w == [sWorker[c] EXCEPT !.told = Speech!Alive(c)]
<1>1. SpeechTyped /\ BatchHeld /\ WorkerHeeds /\ InHand /\ OnlyNeeded /\ ManifestsStand
  BY DEF SpeechInv
<1>2. /\ sWorker' = Speech!Terminated /\ sAborted' = TRUE
      /\ UNCHANGED <<sWav, sManifest, sInstalled, sEngine, sLeased, sBatch, sReturned>>
  BY DEF Speech!Cancel, Speech!Files, Speech!Tools
<1>3. c \in Speech!WorkerIds /\ sWorker[c] \in Processes /\ Speech!Current = sWorker[c]
  BY <1>1, OneLives DEF SpeechTyped, Speech!Current
<1>4. sWorker' = [sWorker EXCEPT ![c] = w]
  BY <1>1, <1>2, <1>3 DEF Speech!Terminated, SpeechTyped
<1>5. /\ w \in Processes /\ w.doing = sWorker[c].doing /\ w.by = sWorker[c].by /\ w.mail = sWorker[c].mail
      /\ w.segment = sWorker[c].segment /\ w.take = sWorker[c].take
  BY <1>3 DEF Processes, Speech!Alive
<1> HIDE DEF w
<1>6. Speech!Current' = w /\ Speech!Wanted' = Speech!Wanted
      /\ \A k \in Speech!WorkerIds : sWorker'[k].doing = sWorker[k].doing
  BY <1>1, <1>2, <1>3, <1>4, <1>5 DEF Speech!Current, Speech!Wanted, SpeechTyped
<1> HIDE DEF c
<1>7. SpeechTyped'
  BY <1>1, <1>2, <1>4, <1>5 DEF SpeechTyped
<1>8. BatchHeld'
  BY <1>1, <1>2, <1>6 DEF BatchHeld, Speech!Alive
<1>9. WorkerHeeds' /\ InHand'
  BY <1>1, <1>2, <1>3, <1>5, <1>6 DEF WorkerHeeds, InHand
<1>10. OnlyNeeded'
  <2>1. Needed' => Needed
    BY <1>2, <1>3, <1>5, <1>6 DEF Needed
  <2>2. \A s : Speech!Reusable(s)' = Speech!Reusable(s)
    BY <1>2 DEF Speech!Reusable
  <2>3. Speech!Alive(sBatch.current)' = Speech!Alive(sBatch.current)
    BY <1>2, <1>3, <1>6 DEF Speech!Alive, c
  <2> QED BY <1>1, <1>2, <2>1, <2>2, <2>3 DEF OnlyNeeded
<1>11. ManifestsStand'
  BY <1>1, <1>2 DEF ManifestsStand, Speech!ReturnedStands, Speech!At
<1> QED BY <1>7, <1>8, <1>9, <1>10, <1>11 DEF SpeechInv

\* The process starts and ends between batches, and what is installed changes under it
LEMMA ToolsChange ==
  ASSUME SpeechInv, Speech!Create \/ Speech!Leave \/ \E t \in Toolchains : Speech!Install(t)
  PROVE  SpeechInv'
<1>1. SpeechTyped /\ BatchHeld /\ ManifestsStand
  BY DEF SpeechInv
<1>2. CASE \E t \in Toolchains : Speech!Install(t)
  BY <1>1, <1>2, BatchFrame DEF Speech!Install, Speech!Files, SpeechTyped
<1>3. CASE Speech!Create \/ Speech!Leave
  <2>1. /\ sBatch.pc = "idle"
        /\ UNCHANGED <<sWav, sManifest, sInstalled, sLeased, sWorker, sBatch, sAborted, sReturned>>
    BY <1>3 DEF Speech!Create, Speech!Leave, Speech!At, Speech!Files
  <2>2. sEngine' \in Speech!Engines \cup {Speech!Nobody}
    BY <1>1, <1>3 DEF Speech!Create, Speech!Leave, Speech!Engines, SpeechTyped
  <2>3. \A k \in Speech!WorkerIds : sWorker'[k].doing = "dead"
    BY <2>1, OneLives DEF Speech!Current
  <2>4. SpeechTyped' /\ BatchHeld'
    BY <1>1, <2>1, <2>2 DEF SpeechTyped, BatchHeld, Speech!Alive
  <2>5. ManifestsStand'
    BY <1>1, <2>1 DEF ManifestsStand, Speech!ReturnedStands, Speech!At
  <2>6. sBatch'.segment = "none"
    BY <1>1, <2>1 DEF BatchHeld, Speech!NoBatch
  <2> QED BY <2>1, <2>3, <2>4, <2>5, <2>6, BatchRests
<1> QED BY <1>2, <1>3

(* Whatever the engine, its workers and those who install and damage do    *)
(* keeps the invariant.                                                    *)
LEMMA SpeechStep ==
  ASSUME SpeechInv, [Speech!Next]_speechVars
  PROVE  SpeechInv'
<1>1. CASE UNCHANGED speechVars
  BY <1>1, BatchFrame DEF speechVars, SpeechInv, SpeechTyped
<1>2. CASE Speech!Next
  <2>1. CASE Speech!Create \/ Speech!Leave \/ \E t \in Toolchains : Speech!Install(t)
    BY <2>1, ToolsChange
  <2>2. CASE Speech!Own
    BY <2>2, BatchStarts, BatchSends, BatchHears, BatchRecords, BatchGivesUp, BatchRetries, BatchEnds, BatchFrees
       DEF Speech!Own
  <2>3. CASE Speech!Loaded \/ Speech!Throws \/ Speech!Cancel \/ Speech!Crash
    BY <2>3, BatchLoads, BatchGivesUp, BatchCancelled, BatchFrees
  <2>4. CASE \E wanted \in Orders : Speech!Begin(wanted)
    BY <2>4, BatchBegins
  <2>5. CASE \E s \in Segments : Speech!Render(s) \/ Speech!Damage(s)
    BY <2>5, BatchRenders, BatchDamaged
  <2>6. CASE \E k \in Speech!WorkerIds :
               \/ Speech!Refuse(k) \/ Speech!Speak(k) \/ Speech!Report(k)
               \/ Speech!Exit(k) \/ Speech!Killed(k) \/ Speech!Dies(k)
    BY <2>6, WorkerEnds, WorkerSpeaks
  <2> QED BY <1>2, <2>1, <2>2, <2>3, <2>4, <2>5, <2>6 DEF Speech!Next
<1> QED BY <1>1, <1>2

LEMMA AudioFollows == SpeechInv => AudioStands
<1> SUFFICES ASSUME SpeechInv PROVE AudioStands
  OBVIOUS
<1>1. SpeechTyped /\ BatchHeld /\ ManifestsStand
  BY DEF SpeechInv
<1>2. Speech!TypeOK
  BY <1>1 DEF Speech!TypeOK, SpeechTyped, Processes, Batches, Recorded
<1>3. Speech!OneWorker
  <2> DEFINE lives == {k \in Speech!WorkerIds : Speech!Alive(k)}
  <2>1. lives \subseteq {sBatch.current}
    BY <1>1 DEF BatchHeld
  <2>2. Speech!Cardinality(lives) <= 1
    <3>1. Speech!Cardinality(lives) = Cardinality(lives)
      BY DEF Speech!Cardinality, Cardinality
    <3>2. IsFiniteSet({sBatch.current}) /\ Cardinality({sBatch.current}) = 1
      BY FS_Singleton
    <3> HIDE DEF lives
    <3>3. IsFiniteSet(lives) /\ Cardinality(lives) <= Cardinality({sBatch.current})
      BY <2>1, <3>2, FS_Subset
    <3> QED BY <3>1, <3>2, <3>3
  <2>3. ~sLeased => \A k \in Speech!WorkerIds : ~Speech!Alive(k)
    BY <1>1 DEF BatchHeld
  <2> QED BY <2>2, <2>3 DEF Speech!OneWorker
<1> QED BY <1>1, <1>2, <1>3 DEF ManifestsStand, AudioStands

\* Only a worker that speaks what is needed replaces audio while a batch is on
LEMMA SpokenOnceStep ==
  ASSUME SpeechInv, [Speech!Next]_speechVars, NEW s \in Segments, sWav'[s] # sWav[s], sBatch.pc # "idle"
  PROVE  \/ sManifest[s].names.of # sBatch.wanted[s] \/ sManifest[s].names.by # sEngine
         \/ sManifest[s].hash # sWav[s] \/ sWav[s] = Speech!None
<1>1. PICK k \in Speech!WorkerIds :
        sWorker[k].doing = "speaking" /\ sWav' = [sWav EXCEPT ![sWorker[k].segment] = sWorker[k].take]
  BY DEF Speech!Next, speechVars, Speech!Own, Speech!Create, Speech!Leave, Speech!Install, Speech!Start,
         Speech!Send, Speech!HearRendered, Speech!Record, Speech!HearGate, Speech!HearEnd, Speech!Retry,
         Speech!End, Speech!Free, Speech!Loaded, Speech!Throws, Speech!Cancel, Speech!Crash, Speech!Begin,
         Speech!Render, Speech!Damage, Speech!Refuse, Speech!Speak, Speech!Report, Speech!Exit, Speech!Killed,
         Speech!Dies, Speech!Engine, Speech!Files, Speech!At
<1>2. k = sBatch.current /\ Speech!Current = sWorker[k]
  BY <1>1, OneLives DEF Speech!Current
<1>3. sWorker[k].segment = sBatch.segment /\ Needed
  BY <1>1, <1>2 DEF SpeechInv, WorkerHeeds, Needed
<1>4. s = sBatch.segment
  BY <1>1, <1>3 DEF SpeechInv, SpeechTyped
<1> QED BY <1>3, <1>4 DEF SpeechInv, OnlyNeeded, Speech!Reusable

-----------------------------------------------------------------------------
(* What the calls and the batches come to                                  *)

(* Each adapter keeps its invariant while the others work.                 *)
LEMMA CallsInvariant == CallsSpec => [](LocalInv /\ CloudInv /\ SpeechInv)
<1>1. CallsInit => LocalInv /\ CloudInv /\ SpeechInv
  BY LocalInit, CloudInit, SpeechBegins DEF CallsInit
<1>2. LocalInv /\ CloudInv /\ SpeechInv /\ [CallsNext]_adapterVars => (LocalInv /\ CloudInv /\ SpeechInv)'
  <2> SUFFICES ASSUME LocalInv, CloudInv, SpeechInv, [CallsNext]_adapterVars
               PROVE  LocalInv' /\ CloudInv' /\ SpeechInv'
    OBVIOUS
  <2>1. [Local!Next]_localVars /\ [Cloud!Next]_cloudVars /\ [Speech!Next]_speechVars
    BY DEF CallsNext, adapterVars
  <2> QED BY <2>1, LocalStep, CloudStep, SpeechStep
<1> QED BY <1>1, <1>2, PTL DEF CallsSpec

(* What a call of a director says of itself is true, for chapters of any   *)
(* length and whatever the budgets: the local director (gemma-director-    *)
(* model.ts, directChapter) names its windows without a gap, asks for a    *)
(* bounded number of them and its ledger tells one end, the one the call   *)
(* had; the cloud director (cloud-director-model.ts) likewise.             *)
THEOREM CallsAreAccounted == CallsSpec => []CallsAccounted
<1>1. LocalInv /\ CloudInv => CallsAccounted
  BY LocalAccounted, CloudAccounted DEF CallsAccounted
<1> QED BY <1>1, CallsInvariant, PTL

(* Both directors implement WholeChapter: every step of a call is one of   *)
(* the abstract promise, or none, so directChapter gives every passage of  *)
(* the chapter, in order, or an error, and never a part.                   *)
THEOREM ChaptersAreWhole == CallsSpec => ChaptersWhole
<1>1. CallsInit => Local!Whole!Init /\ Cloud!Whole!Init
  BY LocalBeginsWhole, CloudBeginsWhole DEF CallsInit
<1>2. LocalInv /\ CloudInv /\ [CallsNext]_adapterVars
      => [Local!Whole!Next]_(Local!Whole!vars) /\ [Cloud!Whole!Next]_(Cloud!Whole!vars)
  <2> SUFFICES ASSUME LocalInv, CloudInv, [CallsNext]_adapterVars
               PROVE  /\ [Local!Whole!Next]_(Local!Whole!vars)
                      /\ [Cloud!Whole!Next]_(Cloud!Whole!vars)
    OBVIOUS
  <2>1. [Local!Next]_localVars /\ [Cloud!Next]_cloudVars
    BY DEF CallsNext, adapterVars
  <2> QED BY <2>1, LocalRefines, CloudRefines
<1> QED
  BY <1>1, <1>2, CallsInvariant, PTL
     DEF CallsSpec, ChaptersWhole, Local!ImplementsWholeChapter, Local!Whole!Spec,
         Cloud!ImplementsWholeChapter, Cloud!Whole!Spec

(* Nobody who is given a chapter finds a passage missing, twice or out of  *)
(* place in it: the check of the windows the local director makes after    *)
(* its loop ("planWindow guarantees this by construction") never fails,    *)
(* and the chapter the cloud director returns would pass it too, though    *)
(* that one checks nothing.                                                *)
WindowsTile ==
  /\ Local!NextIndex = Local!Total => Local!Tiles(lSent, Local!Total)
  /\ cAnswer = "chapter" => Cloud!Tiles(cSent, Cloud!Total)

THEOREM ChaptersAreTiled == CallsSpec => []WindowsTile
<1>1. LocalInv /\ CloudInv => WindowsTile
  <2> SUFFICES ASSUME LocalInv, CloudInv PROVE WindowsTile
    OBVIOUS
  <2>1. Local!NextIndex = Local!Total => Local!Tiles(lSent, Local!Total)
    BY LocalCovers
  <2>2. cAnswer = "chapter" => Cloud!Tiles(cSent, Cloud!Total)
    <3>1. SUFFICES ASSUME cAnswer = "chapter" PROVE Cloud!Tiles(cSent, Cloud!Total)
      OBVIOUS
    <3>2. CloudTyped /\ CloudPlaced /\ Cloud!Done = Cloud!Total
      BY <3>1 DEF CloudInv, CloudPlaced, Cloud!Total
    <3>3. Cloud!Total \in 1..MaxPassages
      BY <3>2 DEF CloudTyped, Cloud!Total
    <3>4. cSent # <<>> /\ cSent[Len(cSent)].end = Cloud!Total
      BY <3>2, <3>3 DEF Cloud!Done
    <3>5. \A k \in 1..(Len(cSent) - 1) : cSent[k].end = cSent[k + 1].start
      <4>1. Len(cSent) \in Nat
        BY <3>2 DEF CloudTyped
      <4>2. \A k \in 1..Len(cSent) : k < Len(cSent) => cSent[k].end = cSent[k + 1].start
        BY <3>2 DEF CloudPlaced
      <4> QED BY <4>1, <4>2
    <3> QED BY <3>2, <3>4, <3>5 DEF CloudPlaced, Cloud!Tiles
  <2> QED BY <2>1, <2>2 DEF WindowsTile
<1> QED BY <1>1, CallsInvariant, PTL

(* Stated of the speech engine (packages/qwen-tts, a batch and its Python  *)
(* worker), for any segments, orders, toolchains and any number of faults: *)
(* never do two Python workers live, nor one outside the GPU lease, though *)
(* workers crash, are killed late or answer a batch that is over; and no   *)
(* take that a caller was given is overwritten, however later batches, cut *)
(* off anywhere, reuse or replace what lies on the disk.                   *)
THEOREM AudioAlwaysStands == CallsSpec => []AudioStands
<1>1. SpeechInv => AudioStands
  BY AudioFollows
<1> QED BY <1>1, CallsInvariant, PTL

(* No work is done in vain.  However often a window is cut, at whatever    *)
(* stage it proved too large, the budgets that are left plan a shorter one *)
(* (shrinkSettings and the loop around it, gemma-director-model.ts): one   *)
(* halving may plan the same window again, so the loop goes on until the   *)
(* plan moves, and at the floor a window has one passage.  And audio that  *)
(* can be reused is not spoken again.  Hypothesis: the configured budget   *)
(* is not below the floor it is cut to; below it a cut would raise it.     *)
THEOREM NoWorkIsTwice ==
  ASSUME FairChunking
  PROVE  CallsSpec => NoWorkTwice
<1>1. CallsInit => LocalPlanned
  BY DEF CallsInit, Local!Init, LocalPlanned, FairChunking, Placing
<1>2. LocalInv /\ LocalPlanned /\ [CallsNext]_adapterVars
      => LocalPlanned' /\ [lShrinks' > lShrinks
           => Local!PlanWindow(lSize, Local!NextIndex, lBudget').end < lWindow.end]_(Local!vars)
  <2> SUFFICES ASSUME LocalInv, LocalPlanned, [CallsNext]_adapterVars PROVE LocalPlanned' /\ Shortens
    BY DEF Shortens
  <2>1. [Local!Next]_localVars
    BY DEF CallsNext, adapterVars
  <2> QED BY <2>1, PlannedStep
<1>3. SpeechInv /\ [CallsNext]_adapterVars
      => [\A s \in Segments : sWav'[s] # sWav[s] /\ ~Speech!At("idle") =>
            \/ sManifest[s].names.of # sBatch.wanted[s] \/ sManifest[s].names.by # sEngine
            \/ sManifest[s].hash # sWav[s] \/ sWav[s] = Speech!None]_(Speech!vars)
  <2> SUFFICES ASSUME SpeechInv, [CallsNext]_adapterVars, NEW s \in Segments,
                      sWav'[s] # sWav[s], ~Speech!At("idle")
               PROVE  \/ sManifest[s].names.of # sBatch.wanted[s] \/ sManifest[s].names.by # sEngine
                      \/ sManifest[s].hash # sWav[s] \/ sWav[s] = Speech!None
    OBVIOUS
  <2>1. [Speech!Next]_speechVars
    BY DEF CallsNext, adapterVars
  <2> QED BY <2>1, SpokenOnceStep DEF Speech!At
<1> QED
  BY <1>1, <1>2, <1>3, CallsInvariant, PTL
     DEF CallsSpec, NoWorkTwice, Local!ShrinksCut, Speech!SpokenOnce
=============================================================================
