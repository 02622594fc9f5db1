-------------------------- MODULE OutputReservation --------------------------
(***************************************************************************)
(* From a rendered book to its numbered export: several processes on one   *)
(* workspace open the database, reserve the next output version, have the  *)
(* assembler place the files, and commit the completed output.             *)
(*                                                                         *)
(* A transaction takes SQLite's write lock with BEGIN IMMEDIATE; a process *)
(* that finds it taken retries until its deadline.  What a transaction     *)
(* uses of the disk, or of an earlier read, was seen before it began.      *)
(***************************************************************************)
EXTENDS Naturals, FiniteSets

CONSTANTS
  Renders,      \* runs at a time, each in a process of its own
  Books,
  Title,        \* of each book, as outputBaseName folds it
  Nobody,
  Target,       \* the schema version of this build
  MaxVersion,   \* bound on version numbers
  MaxFaults     \* bound on failures, crashes and files copied in by hand

\* The numbers are bounds; there is a book, and no run is called as the lock is when it is free
ASSUME NumbersAssumption == Target \in Nat /\ MaxVersion \in Nat /\ MaxFaults \in Nat

ASSUME BooksAssumption == Books # {}

ASSUME RendersAssumption == Nobody \notin Renders

VARIABLES
  schema,       \* the stamped schema version
  bodies,       \* ghost: how often each migration's statements took effect
  reserved,     \* output_reservations
  completed,    \* completed_outputs: the version a book's job names, 0 for none
  disk,         \* the files under output/ and chapters/, with the export they belong to
  writer,       \* who holds the write lock
  render,       \* each run
  faults

vars == <<schema, bodies, reserved, completed, disk, writer, render, faults>>

Versions == 1..MaxVersion

Idle == [pc |-> "idle", book |-> CHOOSE b \in Books : TRUE, version |-> 0, placed |-> {}]

Init ==
  /\ schema = 0 /\ bodies = [v \in 1..Target |-> 0]
  /\ reserved = {} /\ completed = [b \in Books |-> 0] /\ disk = {}
  /\ writer = Nobody /\ render = [r \in Renders |-> Idle] /\ faults = 0

At(r, pc) == render[r].pc = pc

Goes(r, pc) == render' = [render EXCEPT ![r].pc = pc]

Ends(r) == render' = [render EXCEPT ![r] = Idle]

Fault == faults < MaxFaults /\ faults' = faults + 1

Export(b, v) == [book |-> b, version |-> v]

Mine(r) == Export(render[r].book, render[r].version)

-----------------------------------------------------------------------------
(* Paths of an export: they carry the title or the chapter's ID            *)

M4b(e) == <<"m4b", Title[e.book], e.version>>

Manifest(e) == <<"manifest", Title[e.book], e.version>>

Master(e) == <<"chapter", e.book, e.version>>

Reserves(e) == {M4b(e), Master(e)}

Places(e) == Reserves(e) \cup {Manifest(e)}

Order(e) == <<Master(e), M4b(e), Manifest(e)>>

First(e, paths) ==
  CHOOSE p \in paths : \E k \in 1..3 :
    p = Order(e)[k] /\ \A j \in 1..(k - 1) : Order(e)[j] \notin paths

Occupied == {f.path : f \in disk}

-----------------------------------------------------------------------------
(* Transactions                                                            *)

Database == <<schema, bodies, reserved, completed>>

Begin(r, next) ==
  /\ writer = Nobody /\ writer' = r
  /\ Goes(r, next)
  /\ UNCHANGED <<Database, disk, faults>>

\* The write lock stayed taken past the deadline: what was placed stays where it is
GiveUp(r) ==
  /\ render[r].pc \in {"migrate", "begin", "complete"} /\ writer # Nobody
  /\ Ends(r)
  /\ UNCHANGED <<Database, disk, writer, faults>>

Commits(r) == writer = r /\ writer' = Nobody

\* openWorkspace: the fast path takes no lock
Open(r, b) ==
  /\ At(r, "idle")
  /\ render' = [render EXCEPT ![r] = [Idle EXCEPT !.pc = IF schema = Target THEN "read" ELSE "migrate",
                                                  !.book = b]]
  /\ UNCHANGED <<Database, disk, writer, faults>>

BeginMigration(r) == At(r, "migrate") /\ Begin(r, "migrating")

\* Every missing migration and its stamp in one transaction, from the version read inside it
Migrate(r) ==
  /\ At(r, "migrating") /\ Commits(r)
  /\ schema' = Target
  /\ bodies' = [v \in 1..Target |-> IF v > schema THEN bodies[v] + 1 ELSE bodies[v]]
  /\ Goes(r, "read")
  /\ UNCHANGED <<reserved, completed, disk, faults>>

-----------------------------------------------------------------------------
(* reserveNextOutput                                                       *)

Highest(b) ==
  CHOOSE v \in 0..MaxVersion :
    /\ v = 0 \/ Export(b, v) \in reserved
    /\ \A e \in reserved : e.book = b => e.version <= v

\* MaxVersion bounds the numbers here and in NextCandidate
ReadHighest(r) ==
  /\ At(r, "read")
  /\ IF Highest(render[r].book) = MaxVersion THEN Ends(r)
     ELSE render' = [render EXCEPT ![r].pc = "probe", ![r].version = Highest(render[r].book) + 1]
  /\ UNCHANGED <<Database, disk, writer, faults>>

NextCandidate(r) ==
  IF render[r].version < MaxVersion
  THEN render' = [render EXCEPT ![r].pc = "probe", ![r].version = @ + 1]
  ELSE Ends(r)

\* lstat of the m4b and the chapter masters, not of the manifest
Probe(r) ==
  /\ At(r, "probe")
  /\ IF Reserves(Mine(r)) \cap Occupied = {} THEN Goes(r, "begin") ELSE NextCandidate(r)
  /\ UNCHANGED <<Database, disk, writer, faults>>

BeginReservation(r) == At(r, "begin") /\ Begin(r, "insert")

\* Mutant: only the version of the same book is looked for
ConflictsByBook(e) == e \in reserved

\* PRIMARY KEY(book_id, version) and UNIQUE(m4b_path)
Conflicts(e) == \E f \in reserved : f = e \/ M4b(f) = M4b(e)

Insert(r) ==
  /\ At(r, "insert") /\ Commits(r)
  /\ IF Conflicts(Mine(r)) THEN NextCandidate(r) /\ UNCHANGED reserved
     ELSE reserved' = reserved \cup {Mine(r)} /\ Goes(r, "check")
  /\ UNCHANGED <<schema, bodies, completed, disk, faults>>

-----------------------------------------------------------------------------
(* FfmpegAudioAssembler.assemble, and the commit of what it placed         *)

\* assertOutputAbsent on every path, before anything is encoded
CheckAbsent(r) ==
  /\ At(r, "check")
  /\ IF Places(Mine(r)) \cap Occupied = {} THEN Goes(r, "claim") ELSE Ends(r)
  /\ UNCHANGED <<Database, disk, writer, faults>>

Claims(r) == First(Mine(r), Places(Mine(r)) \ render[r].placed)

\* Mutant: a file that has appeared is taken for the one this run places
ClaimTrusting(r) ==
  /\ At(r, "claim") /\ render[r].placed # Places(Mine(r))
  /\ disk' = IF Claims(r) \in Occupied THEN disk ELSE disk \cup {[path |-> Claims(r), by |-> Mine(r)]}
  /\ render' = [render EXCEPT ![r].placed = @ \cup {Claims(r)}]
  /\ UNCHANGED <<Database, writer, faults>>

\* claimOutputPath: a link fails on a path that has appeared meanwhile
Claim(r) ==
  /\ At(r, "claim") /\ render[r].placed # Places(Mine(r))
  /\ IF Claims(r) \in Occupied THEN Goes(r, "rollback") /\ UNCHANGED disk
     ELSE /\ disk' = disk \cup {[path |-> Claims(r), by |-> Mine(r)]}
          /\ render' = [render EXCEPT ![r].placed = @ \cup {Claims(r)}]
  /\ UNCHANGED <<Database, writer, faults>>

\* The assembler is stopped or a link fails for another reason
ClaimFails(r) ==
  /\ At(r, "claim") /\ render[r].placed # Places(Mine(r)) /\ Fault
  /\ Goes(r, "rollback")
  /\ UNCHANGED <<Database, disk, writer>>

\* rollbackClaimedOutputs: in the order of the claims, best effort
Rollback(r) ==
  LET path == First(Mine(r), render[r].placed)
  IN
  /\ At(r, "rollback")
  /\ IF render[r].placed = {} THEN Ends(r) /\ UNCHANGED <<disk, faults>>
     ELSE /\ render' = [render EXCEPT ![r].placed = @ \ {path}]
          /\ \/ disk' = {f \in disk : f.path # path} /\ UNCHANGED faults
             \/ Fault /\ UNCHANGED disk
  /\ UNCHANGED <<Database, writer>>

\* The catalog is looked at again after assembly; a refusal leaves the files where they are
Regate(r) ==
  /\ At(r, "claim") /\ render[r].placed = Places(Mine(r))
  /\ \/ Goes(r, "complete") /\ UNCHANGED faults
     \/ Fault /\ Ends(r)
  /\ UNCHANGED <<Database, disk, writer>>

BeginCompletion(r) == At(r, "complete") /\ Begin(r, "completing")

\* saveCompletedJob
SaveCompleted(r) ==
  /\ At(r, "completing") /\ Commits(r)
  /\ completed' = [completed EXCEPT ![render[r].book] = render[r].version]
  /\ Ends(r)
  /\ UNCHANGED <<schema, bodies, reserved, disk, faults>>

-----------------------------------------------------------------------------

\* The process dies: an open transaction is rolled back, files stay
Crash(r) ==
  /\ ~At(r, "idle") /\ Fault
  /\ writer' = IF writer = r THEN Nobody ELSE writer
  /\ Ends(r)
  /\ UNCHANGED <<Database, disk>>

\* Someone copies a file to where an export would go
CopiedIn ==
  /\ Fault
  /\ \E b \in Books, v \in Versions : \E path \in Places(Export(b, v)) \ Occupied :
       disk' = disk \cup {[path |-> path, by |-> Export(b, 0)]}
  /\ UNCHANGED <<Database, writer, render>>

Step(r) ==
  \/ BeginMigration(r) \/ Migrate(r) \/ ReadHighest(r) \/ Probe(r) \/ BeginReservation(r)
  \/ Insert(r) \/ CheckAbsent(r) \/ Claim(r) \/ Rollback(r) \/ Regate(r) \/ BeginCompletion(r)
  \/ SaveCompleted(r) \/ GiveUp(r)

Next ==
  \/ \E r \in Renders :
       Step(r) \/ (\E b \in Books : Open(r, b)) \/ ClaimFails(r) \/ Crash(r)
  \/ CopiedIn

Fairness == \A r \in Renders : WF_vars(Step(r))

Spec == Init /\ [][Next]_vars /\ Fairness

-----------------------------------------------------------------------------

TypeOK ==
  /\ schema \in 0..Target /\ bodies \in [1..Target -> Nat]
  /\ reserved \subseteq [book : Books, version : Versions]
  /\ completed \in [Books -> 0..MaxVersion]
  /\ \A f, g \in disk : f.path = g.path => f = g
  /\ writer \in Renders \cup {Nobody}
  /\ \A r \in Renders : (writer = r) <=> (render[r].pc \in {"migrating", "insert", "completing"})

(* However many processes open a fresh workspace and whichever of them     *)
(* die, each migration takes effect once, and nobody goes on without it.   *)
MigratedOnce ==
  /\ \A v \in 1..Target : bodies[v] = IF v <= schema THEN 1 ELSE 0
  /\ \A r \in Renders : render[r].pc \notin {"idle", "migrate", "migrating"} => schema = Target

Owns(r) == render[r].pc \in {"check", "claim", "rollback", "complete", "completing"}

(* No two runs hold exports that share a file: not two runs of one book,   *)
(* not two books of one title, whatever each saw before its transaction.   *)
SoleOwner ==
  \A r, s \in Renders :
    r # s /\ Owns(r) /\ Owns(s) => Places(Mine(r)) \cap Places(Mine(s)) = {}

(* A completed output is whole: every file of it is there, and is the one  *)
(* its own run made, whoever else failed, rolled back or copied files.     *)
CompletedIsWhole ==
  \A b \in Books : completed[b] # 0 =>
    \A path \in Places(Export(b, completed[b])) :
      [path |-> path, by |-> Export(b, completed[b])] \in disk

(* The workspace is migrated once, and what it says is completed is there. *)
OutputsSound == TypeOK /\ MigratedOnce /\ CompletedIsWhole

(* A file is removed only by the run that placed it.                       *)
OthersStand ==
  [][\A f \in disk \ disk' : \E r \in Renders : At(r, "rollback") /\ f.by = Mine(r)]_vars

(* Every run ends: losing races for the write lock, for a version number   *)
(* or for a path never keeps it going round.                               *)
EveryRunEnds == \A r \in Renders : ~At(r, "idle") ~> At(r, "idle")
=============================================================================
