---------------------------- MODULE BookFilesProofs ----------------------------
(***************************************************************************)
(* Proofs about OutputReservation, for any number of processes, books,     *)
(* titles, versions, migrations and faults; about EpubIngestion, for any   *)
(* number of uploads and of things to upload; and about both together.     *)
(***************************************************************************)
EXTENDS BookFiles, TLAPS

-----------------------------------------------------------------------------
(* The exports                                                             *)

Exports == [book : Books, version : 0..MaxVersion]

Points ==
  {"idle", "migrate", "migrating", "read", "probe", "begin", "insert", "check", "claim",
   "rollback", "complete", "completing"}

Runs == [pc : Points, book : Books, version : 0..MaxVersion,
         placed : SUBSET UNION {Places(e) : e \in Exports}]

Typed ==
  /\ schema \in 0..Target /\ bodies \in [1..Target -> Nat]
  /\ reserved \subseteq [book : Books, version : Versions]
  /\ completed \in [Books -> 0..MaxVersion]
  /\ writer \in Renders \cup {Nobody}
  /\ render \in [Renders -> Runs]
  /\ \A r \in Renders :
       /\ (writer = r) <=> (render[r].pc \in {"migrating", "insert", "completing"})
       /\ render[r].pc \notin {"idle", "migrate", "migrating", "read"} => render[r].version # 0

\* A reservation belongs to one run at most, and no two of them name one file
ReservedApart ==
  /\ \A e, f \in reserved : M4b(e) = M4b(f) => e = f
  /\ \A r \in Renders : Owns(r) => Mine(r) \in reserved
  /\ \A r, s \in Renders : Owns(r) /\ Owns(s) /\ Mine(r) = Mine(s) => r = s

\* What CHOOSE in Highest rests on
HighestExists ==
  \A b \in Books : \E v \in 0..MaxVersion :
    /\ v = 0 \/ Export(b, v) \in reserved
    /\ \A e \in reserved : e.book = b => e.version <= v

\* A run counts as placed what is on disk in its name
PlacedIsThere ==
  /\ \A f, g \in disk : f.path = g.path => f = g
  /\ \A r \in Renders : Owns(r) =>
       \A p \in render[r].placed : p \in Places(Mine(r)) /\ [path |-> p, by |-> Mine(r)] \in disk
  /\ \A r \in Renders : render[r].pc \in {"complete", "completing"} =>
       render[r].placed = Places(Mine(r))
  /\ \A r \in Renders : ~Owns(r) => render[r].placed = {}

\* Nobody works any more on an export that is completed
CompletedIsLeft ==
  /\ \A b \in Books : completed[b] # 0 => Export(b, completed[b]) \in reserved
  /\ \A r \in Renders : Owns(r) => completed[render[r].book] # render[r].version

Inv ==
  /\ Typed /\ ReservedApart /\ HighestExists /\ PlacedIsThere
  /\ CompletedIsLeft /\ CompletedIsWhole /\ MigratedOnce

-----------------------------------------------------------------------------

(* Exports with different m4b files share no file: the manifest carries    *)
(* the same title and version as the m4b, a master the book.               *)
LEMMA PlacesApart ==
  ASSUME NEW e, NEW f, M4b(e) # M4b(f)
  PROVE  Places(e) \cap Places(f) = {}
  BY DEF Places, Reserves, M4b, Manifest, Master

(* In the invariant two exports that are reserved share a file only if     *)
(* they are one.                                                           *)
LEMMA ReservedPlacesApart ==
  ASSUME ReservedApart, NEW e \in reserved, NEW f \in reserved, e # f
  PROVE  Places(e) \cap Places(f) = {}
  BY PlacesApart DEF ReservedApart

(* What First picks is one of the paths.                                   *)
LEMMA FirstIsOne ==
  ASSUME NEW e, NEW paths, paths # {}, paths \subseteq Places(e)
  PROVE  First(e, paths) \in paths
<1> DEFINE Ok(p) == \E k \in 1..3 : p = Order(e)[k] /\ \A j \in 1..(k - 1) : Order(e)[j] \notin paths
<1>1. /\ Order(e)[1] = Master(e) /\ Order(e)[2] = M4b(e) /\ Order(e)[3] = Manifest(e)
  BY DEF Order
<1>2. Master(e) \in paths \/ M4b(e) \in paths \/ Manifest(e) \in paths
  BY DEF Places, Reserves
<1>3. \E p \in paths : Ok(p)
  <2>1. CASE Master(e) \in paths
    <3>1. \A j \in 1..(1 - 1) : Order(e)[j] \notin paths
      OBVIOUS
    <3> QED
      BY <2>1, <3>1, <1>1
  <2>2. CASE Master(e) \notin paths /\ M4b(e) \in paths
    <3>1. \A j \in 1..(2 - 1) : j = 1
      OBVIOUS
    <3> QED
      BY <2>2, <3>1, <1>1
  <2>3. CASE Master(e) \notin paths /\ M4b(e) \notin paths /\ Manifest(e) \in paths
    <3>1. \A j \in 1..(3 - 1) : j = 1 \/ j = 2
      OBVIOUS
    <3> QED
      BY <2>3, <3>1, <1>1
  <2> QED
    BY <1>2, <2>1, <2>2, <2>3
<1> HIDE DEF Ok
<1>4. (CHOOSE p \in paths : Ok(p)) \in paths
  BY <1>3
<1> QED
  BY <1>4 DEF First, Ok

-----------------------------------------------------------------------------

(* The invariant holds in an empty workspace.                              *)
LEMMA InvInit == Init => Inv
<1> SUFFICES ASSUME Init PROVE Inv
  OBVIOUS
<1> USE NumbersAssumption, BooksAssumption, RendersAssumption DEF Init
<1>1. Idle \in Runs /\ Idle.pc = "idle" /\ Idle.placed = {}
  BY DEF Idle, Runs, Points
<1>2. \A r \in Renders : render[r] = Idle /\ ~Owns(r)
  BY <1>1 DEF Owns
<1>3. Typed
  BY <1>1, <1>2 DEF Typed, Versions
<1>4. ReservedApart /\ PlacedIsThere /\ CompletedIsLeft
  BY <1>1, <1>2 DEF ReservedApart, PlacedIsThere, CompletedIsLeft
<1>5. HighestExists
  BY DEF HighestExists
<1>6. CompletedIsWhole /\ MigratedOnce
  BY <1>1, <1>2 DEF CompletedIsWhole, MigratedOnce
<1> QED
  BY <1>3, <1>4, <1>5, <1>6 DEF Inv

-----------------------------------------------------------------------------
(* A run that moves                                                        *)

\* What a step leaves alone when it changes one run, which holds no reservation afterwards
\* or the one it held before
Moves(r) ==
  /\ \A s \in Renders \ {r} : render'[s] = render[s]
  /\ UNCHANGED <<reserved, completed, disk>>
  /\ Owns(r)' => Owns(r) /\ Mine(r)' = Mine(r)
  /\ render'[r].placed = IF Owns(r)' THEN render[r].placed ELSE {}

(* A step that changes one run only, and gives it nothing it did not hold, *)
(* leaves reservations, files and completed outputs as they should be.     *)
LEMMA MoveKeeps ==
  ASSUME Inv, NEW r \in Renders, Moves(r),
         render'[r].pc \in {"complete", "completing"} =>
           render'[r].placed = Places(Mine(r))'
  PROVE  /\ ReservedApart' /\ HighestExists' /\ PlacedIsThere'
         /\ CompletedIsLeft' /\ CompletedIsWhole'
<1> USE DEF Inv, Moves
<1>1. \A s \in Renders \ {r} : (Owns(s)' <=> Owns(s)) /\ Mine(s)' = Mine(s)
  BY DEF Owns, Mine
<1>2. \A s \in Renders : Owns(s)' => Owns(s) /\ Mine(s)' = Mine(s) /\ render'[s].placed = render[s].placed
  BY <1>1
<1>3. ReservedApart'
  BY <1>2 DEF ReservedApart, M4b
<1>4. HighestExists'
  BY DEF HighestExists
<1>5. PlacedIsThere'
  <2>1. \A s \in Renders : Places(Mine(s))' = Places(Mine(s)')
    BY DEF Places, Reserves, M4b, Manifest, Master, Mine
  <2>2. \A s \in Renders : Owns(s)' => \A p \in render'[s].placed :
          p \in Places(Mine(s))' /\ [path |-> p, by |-> Mine(s)'] \in disk
    BY <1>2, <2>1 DEF PlacedIsThere
  <2>3. \A s \in Renders \ {r} : render'[s].pc \in {"complete", "completing"} =>
          render'[s].placed = Places(Mine(s))'
    BY <1>1, <2>1 DEF PlacedIsThere
  <2>4. \A s \in Renders : ~Owns(s)' => render'[s].placed = {}
    BY <1>1 DEF PlacedIsThere
  <2> QED
    BY <2>2, <2>3, <2>4 DEF PlacedIsThere
<1>6. CompletedIsLeft'
  <2>1. \A s \in Renders : Owns(s)' => render'[s].book = render[s].book /\ render'[s].version = render[s].version
    BY <1>2 DEF Mine, Export
  <2> QED
    BY <1>2, <2>1 DEF CompletedIsLeft, Export
<1>7. CompletedIsWhole'
  BY DEF CompletedIsWhole, Places, Reserves, M4b, Manifest, Master, Export
<1> QED
  BY <1>3, <1>4, <1>5, <1>6, <1>7

\* Everything of a run but its program counter stays
PcOnly(r, pc) ==
  /\ render' \in [Renders -> Runs]
  /\ \A s \in Renders \ {r} : render'[s] = render[s]
  /\ render'[r].pc = pc /\ render'[r].book = render[r].book
  /\ render'[r].version = render[r].version /\ render'[r].placed = render[r].placed

(* What Goes changes.                                                      *)
LEMMA GoesOn ==
  ASSUME Typed, NEW r \in Renders, NEW pc \in Points, Goes(r, pc)
  PROVE  PcOnly(r, pc)
  BY DEF Typed, Goes, Runs, PcOnly

(* What Ends changes.                                                      *)
LEMMA EndsIdle ==
  ASSUME Typed, NEW r \in Renders, Ends(r)
  PROVE  /\ render' \in [Renders -> Runs]
         /\ \A s \in Renders \ {r} : render'[s] = render[s]
         /\ render'[r].pc = "idle" /\ ~Owns(r)' /\ render'[r].placed = {}
<1>1. Idle \in Runs /\ Idle.pc = "idle" /\ Idle.placed = {}
  BY NumbersAssumption, BooksAssumption DEF Idle, Runs, Points
<1> QED
  BY <1>1 DEF Typed, Ends, Owns

(* What NextCandidate changes.                                             *)
LEMMA CandidateTyped ==
  ASSUME Typed, NEW r \in Renders, NextCandidate(r), render[r].placed = {}
  PROVE  /\ render' \in [Renders -> Runs]
         /\ \A s \in Renders \ {r} : render'[s] = render[s]
         /\ render'[r].pc \in {"probe", "idle"} /\ ~Owns(r)' /\ render'[r].placed = {}
         /\ render'[r].pc = "probe" => render'[r].version # 0
<1>1. CASE render[r].version < MaxVersion
  <2>1. render[r].version + 1 \in 0..MaxVersion /\ render[r].version + 1 # 0
    BY <1>1, NumbersAssumption DEF Typed, Runs
  <2>2. render' = [render EXCEPT ![r] = [render[r] EXCEPT !.pc = "probe", !.version = render[r].version + 1]]
    BY <1>1 DEF NextCandidate
  <2> DEFINE next == [render[r] EXCEPT !.pc = "probe", !.version = render[r].version + 1]
  <2>3. /\ next \in Runs /\ next.pc = "probe" /\ next.placed = {}
        /\ next.version = render[r].version + 1
    BY <2>1 DEF Typed, Runs, Points
  <2> HIDE DEF next
  <2>4. /\ render' \in [Renders -> Runs] /\ render'[r] = next
        /\ \A s \in Renders \ {r} : render'[s] = render[s]
    BY <2>2, <2>3 DEF Typed, next
  <2> QED
    BY <2>1, <2>3, <2>4 DEF Owns
<1>2. CASE ~(render[r].version < MaxVersion)
  BY <1>2, EndsIdle DEF NextCandidate
<1> QED
  BY <1>1, <1>2

\* A step of one run outside the database and the disk, as the invariant sees it
Quietly(r) ==
  /\ Moves(r)
  /\ render' \in [Renders -> Runs] /\ UNCHANGED <<schema, bodies>>
  /\ writer' \in Renders \cup {Nobody}
  /\ \A s \in Renders : (writer' = s) <=> (render'[s].pc \in {"migrating", "insert", "completing"})
  /\ render'[r].pc \in {"complete", "completing"} => render'[r].placed = Places(Mine(r))'
  /\ render'[r].pc \notin {"idle", "migrate", "migrating"} => schema = Target
  /\ render'[r].pc \notin {"idle", "migrate", "migrating", "read"} => render'[r].version # 0

(* Such a step keeps the invariant.                                        *)
LEMMA QuietKeeps ==
  ASSUME Inv, NEW r \in Renders, Quietly(r)
  PROVE  Inv'
<1>1. Typed'
  BY DEF Inv, Quietly, Moves, Typed
<1>2. MigratedOnce'
  BY DEF Inv, Quietly, Moves, MigratedOnce, Typed
<1> QED
  BY <1>1, <1>2, MoveKeeps DEF Inv, Quietly

(* Taking the write lock is such a step.                                   *)
LEMMA BeginQuiet ==
  ASSUME Inv, NEW r \in Renders, NEW now, NEW next,
         <<now, next>> \in {<<"migrate", "migrating">>, <<"begin", "insert">>, <<"complete", "completing">>},
         At(r, now), Begin(r, next)
  PROVE  Inv'
<1>1. next \in Points /\ PcOnly(r, next)
  BY GoesOn DEF Inv, Begin, Points
<1>2. Mine(r)' = Mine(r) /\ Places(Mine(r))' = Places(Mine(r))
  BY <1>1 DEF PcOnly, Mine, Export, Places, Reserves, M4b, Manifest, Master
<1>3. Moves(r)
  BY <1>1, <1>2 DEF Begin, PcOnly, Moves, Owns, At, Database, Inv, PlacedIsThere
<1>4. \A s \in Renders : (writer' = s) <=> (render'[s].pc \in {"migrating", "insert", "completing"})
  BY <1>1, RendersAssumption DEF Begin, PcOnly, Inv, Typed, At
<1>5. render'[r].pc \in {"complete", "completing"} => render'[r].placed = Places(Mine(r))'
  BY <1>1, <1>2 DEF PcOnly, Inv, PlacedIsThere, At
<1>7. render'[r].pc \notin {"idle", "migrate", "migrating", "read"} => render'[r].version # 0
  BY <1>1 DEF PcOnly, Inv, Typed, At
<1>6. render'[r].pc \notin {"idle", "migrate", "migrating"} => schema = Target
  BY <1>1 DEF PcOnly, Inv, MigratedOnce, At
<1> QED
  BY <1>1, <1>3, <1>4, <1>5, <1>6, <1>7, QuietKeeps DEF Quietly, PcOnly, Begin, Database

(* A run that ends, whatever it held, leaves everything as it should be:   *)
(* its files stay, and its reservation is nobody's.                        *)
LEMMA EndKeeps ==
  ASSUME Inv, NEW r \in Renders, Ends(r), UNCHANGED <<Database, disk>>,
         writer' = IF writer = r THEN Nobody ELSE writer
  PROVE  Inv'
<1>1. /\ render' \in [Renders -> Runs] /\ render'[r].pc = "idle" /\ ~Owns(r)'
      /\ render'[r].placed = {}
      /\ \A s \in Renders \ {r} : render'[s] = render[s]
  BY EndsIdle DEF Inv
<1>2. \A s \in Renders : (writer' = s) <=> (render'[s].pc \in {"migrating", "insert", "completing"})
  BY <1>1, RendersAssumption DEF Inv, Typed
<1> QED
  BY <1>1, <1>2, QuietKeeps DEF Quietly, Moves, Database, Inv, Typed

(* A run goes on, without the write lock and within what it holds.         *)
LEMMA GoKeeps ==
  ASSUME Inv, NEW r \in Renders, UNCHANGED <<Database, disk, writer>>,
         writer # r, NEW pc \in Points, Goes(r, pc),
         pc \notin {"migrating", "insert", "completing", "idle", "migrate"},
         pc \in {"check", "claim", "rollback", "complete"} <=> Owns(r),
         pc = "complete" => render[r].placed = Places(Mine(r)),
         ~At(r, "idle"), ~At(r, "migrate"), ~At(r, "read")
  PROVE  Inv'
<1>1. PcOnly(r, pc)
  BY GoesOn DEF Inv
<1>2. Mine(r)' = Mine(r) /\ Places(Mine(r))' = Places(Mine(r))
  BY <1>1 DEF PcOnly, Mine, Export, Places, Reserves, M4b, Manifest, Master
<1>3. Moves(r)
  BY <1>1, <1>2 DEF PcOnly, Moves, Owns, Database, Inv, PlacedIsThere
<1>4. \A s \in Renders : (writer' = s) <=> (render'[s].pc \in {"migrating", "insert", "completing"})
  BY <1>1 DEF PcOnly, Inv, Typed
<1>5. render[r].pc \notin {"idle", "migrate", "migrating"}
  BY DEF At, Inv, Typed
<1>6. schema = Target
  BY <1>5 DEF Inv, MigratedOnce
<1>7. render[r].version # 0
  BY <1>5 DEF At, Inv, Typed
<1> QED
  BY <1>1, <1>2, <1>3, <1>4, <1>6, <1>7, QuietKeeps DEF Quietly, PcOnly, Database, Inv, Typed

-----------------------------------------------------------------------------
(* The actions                                                             *)

(* Opening the workspace, and migrating it if that is due, keep the        *)
(* invariant: what each migration has done is told by the version stamped. *)
LEMMA OpenKeeps ==
  ASSUME Inv, NEW r \in Renders, NEW b \in Books, Open(r, b)
  PROVE  Inv'
<1>0. Idle \in Runs /\ Idle.placed = {}
  BY NumbersAssumption, BooksAssumption DEF Idle, Runs, Points
<1>1. /\ render' \in [Renders -> Runs] /\ ~Owns(r)' /\ render'[r].placed = {}
      /\ \A s \in Renders \ {r} : render'[s] = render[s]
      /\ render'[r].pc = IF schema = Target THEN "read" ELSE "migrate"
  <2> DEFINE at == IF schema = Target THEN "read" ELSE "migrate"
  <2> DEFINE opened == [Idle EXCEPT !.pc = at, !.book = b]
  <2>1. at \in Points /\ at \in {"read", "migrate"}
    BY DEF Points
  <2> HIDE DEF at
  <2>2. opened \in Runs /\ opened.pc = at /\ opened.placed = {}
    BY <1>0, <2>1 DEF Runs
  <2>3. render' = [render EXCEPT ![r] = opened]
    BY DEF Open, at
  <2> HIDE DEF opened
  <2>4. render' \in [Renders -> Runs] /\ render'[r] = opened /\ \A s \in Renders \ {r} : render'[s] = render[s]
    BY <2>2, <2>3 DEF Inv, Typed
  <2>5. ~Owns(r)'
    BY <2>1, <2>2, <2>4 DEF Owns
  <2> QED
    BY <2>2, <2>4, <2>5 DEF at
<1>2. \A s \in Renders : (writer' = s) <=> (render'[s].pc \in {"migrating", "insert", "completing"})
  BY <1>1, RendersAssumption DEF Open, At, Inv, Typed
<1>3. Moves(r)
  BY <1>1 DEF Moves, Open, Database
<1>4. /\ render'[r].pc \notin {"complete", "completing"}
      /\ render'[r].pc \notin {"idle", "migrate", "migrating"} => schema = Target
      /\ render'[r].pc \in {"idle", "migrate", "migrating", "read"}
  BY <1>1
<1>5. UNCHANGED <<schema, bodies>> /\ writer' \in Renders \cup {Nobody}
  BY DEF Open, Database, Inv, Typed
<1> QED
  BY <1>1, <1>2, <1>3, <1>4, <1>5, QuietKeeps DEF Quietly

(* Migrating once more is harmless: nothing is left for it to do.          *)
LEMMA MigrateKeeps ==
  ASSUME Inv, NEW r \in Renders, Migrate(r)
  PROVE  Inv'
<1> USE NumbersAssumption, RendersAssumption
<1>1. PcOnly(r, "read")
  BY GoesOn DEF Inv, Migrate, Points
<1>2. Moves(r)
  BY <1>1 DEF Migrate, PcOnly, Moves, Owns, At, Inv, PlacedIsThere
<1>3. \A s \in Renders : (writer' = s) <=> (render'[s].pc \in {"migrating", "insert", "completing"})
  BY <1>1 DEF Migrate, Commits, PcOnly, Inv, Typed, At
<1>4. Typed'
  <2>1. schema' \in 0..Target /\ bodies' \in [1..Target -> Nat]
    BY DEF Migrate, Inv, Typed
  <2>2. render' \in [Renders -> Runs] /\ writer' \in Renders \cup {Nobody}
    BY <1>1 DEF Migrate, Commits, PcOnly
  <2>3. \A s \in Renders :
          render'[s].pc \notin {"idle", "migrate", "migrating", "read"} => render'[s].version # 0
    BY <1>1 DEF PcOnly, Inv, Typed
  <2> QED
    BY <1>2, <1>3, <2>1, <2>2, <2>3 DEF Moves, Inv, Typed
<1>5. MigratedOnce'
  <2>1. \A v \in 1..Target : bodies'[v] = 1
    BY DEF Migrate, Inv, MigratedOnce, Typed
  <2> QED
    BY <2>1 DEF Migrate, MigratedOnce
<1>6. render'[r].pc \notin {"complete", "completing"}
  BY <1>1 DEF PcOnly
<1> QED
  BY <1>2, <1>4, <1>5, <1>6, MoveKeeps DEF Inv

(* A version that is looked for is a version.                              *)
LEMMA HighestTyped ==
  ASSUME Inv, NEW b \in Books
  PROVE  /\ Highest(b) \in 0..MaxVersion
         /\ \A e \in reserved : e.book = b => e.version <= Highest(b)
  BY DEF Inv, HighestExists, Highest

(* A run starts from the version after the highest it sees.                *)
LEMMA ReadHighestKeeps ==
  ASSUME Inv, NEW r \in Renders, ReadHighest(r)
  PROVE  Inv'
<1> DEFINE h == Highest(render[r].book)
<1>1. h \in 0..MaxVersion
  BY HighestTyped DEF Inv, Typed, Runs
<1> HIDE DEF h
<1>2. CASE h = MaxVersion
  BY <1>2, EndKeeps DEF ReadHighest, h, Database, At, Inv, Typed
<1>3. CASE h # MaxVersion
  <2>1. h + 1 \in 0..MaxVersion /\ h + 1 # 0
    BY <1>1, <1>3, NumbersAssumption
  <2>2. render' = [render EXCEPT ![r].pc = "probe", ![r].version = h + 1]
    BY <1>3 DEF ReadHighest, h
  <2>3. /\ render' \in [Renders -> Runs] /\ render'[r].pc = "probe" /\ ~Owns(r)'
        /\ render'[r].version # 0 /\ render'[r].placed = render[r].placed
        /\ \A s \in Renders \ {r} : render'[s] = render[s]
    BY <2>1, <2>2 DEF Inv, Typed, Runs, Points, Owns
  <2>6. render'[r].placed = {}
    BY <2>3 DEF ReadHighest, At, Owns, Inv, PlacedIsThere
  <2>4. \A s \in Renders : (writer' = s) <=> (render'[s].pc \in {"migrating", "insert", "completing"})
    BY <2>3 DEF ReadHighest, At, Inv, Typed
  <2>5. schema = Target
    BY DEF ReadHighest, At, Inv, MigratedOnce
  <2> QED
    BY <2>3, <2>4, <2>5, <2>6, QuietKeeps DEF Quietly, Moves, ReadHighest, Database, Inv, Typed
<1> QED
  BY <1>2, <1>3

(* The next version is looked at, or the versions are exhausted.           *)
LEMMA CandidateKeeps ==
  ASSUME Inv, NEW r \in Renders, NextCandidate(r), UNCHANGED <<Database, disk>>,
         render[r].pc \in {"probe", "insert"},
         writer' = IF writer = r THEN Nobody ELSE writer
  PROVE  Inv'
<1>1. /\ render' \in [Renders -> Runs] /\ render'[r].pc \in {"probe", "idle"} /\ ~Owns(r)'
      /\ \A s \in Renders \ {r} : render'[s] = render[s]
      /\ render'[r].pc = "probe" => render'[r].version # 0
      /\ render'[r].placed = {}
  <2>1. render[r].placed = {}
    BY DEF Inv, PlacedIsThere, Owns
  <2> QED
    BY <2>1, CandidateTyped DEF Inv
<1>2. \A s \in Renders : (writer' = s) <=> (render'[s].pc \in {"migrating", "insert", "completing"})
  BY <1>1, RendersAssumption DEF Inv, Typed
<1>3. schema = Target
  BY DEF Inv, MigratedOnce
<1> QED
  BY <1>1, <1>2, <1>3, QuietKeeps DEF Quietly, Moves, Database, Inv, Typed

(* Looking at the disk changes nothing.                                    *)
LEMMA ProbeKeeps ==
  ASSUME Inv, NEW r \in Renders, Probe(r)
  PROVE  Inv'
<1>1. writer # r /\ ~Owns(r)
  BY DEF Probe, At, Inv, Typed, Owns
<1>2. CASE Reserves(Mine(r)) \cap Occupied = {}
  BY <1>1, <1>2, GoKeeps DEF Probe, At, Points, Database
<1>3. CASE Reserves(Mine(r)) \cap Occupied # {}
  BY <1>1, <1>3, CandidateKeeps DEF Probe, At, Database
<1> QED
  BY <1>2, <1>3

(* A reservation that is entered is nobody else's, whatever its run saw    *)
(* before the transaction: the table itself refuses a second one.          *)
LEMMA InsertKeeps ==
  ASSUME Inv, NEW r \in Renders, Insert(r)
  PROVE  Inv'
<1> USE NumbersAssumption, RendersAssumption
<1>1. CASE Conflicts(Mine(r))
  BY <1>1, CandidateKeeps DEF Insert, Commits, Database, At
<1>2. CASE ~Conflicts(Mine(r))
  <2>1. /\ reserved' = reserved \cup {Mine(r)} /\ Goes(r, "check")
        /\ UNCHANGED <<schema, bodies, completed, disk>> /\ writer' = Nobody /\ writer = r
    BY <1>2 DEF Insert, Commits
  <2>2. PcOnly(r, "check")
    BY <2>1, GoesOn DEF Inv, Points
  <2>3. \A s \in Renders : Mine(s)' = Mine(s)
    BY <2>2 DEF PcOnly, Mine, Export
  <2>4. \A s \in Renders \ {r} : Owns(s)' <=> Owns(s)
    BY <2>2 DEF PcOnly, Owns
  <2>5. Mine(r) \in Exports
    BY DEF Mine, Export, Exports, Inv, Typed, Runs
  <2>6. Mine(r) \in [book : Books, version : Versions] /\ Mine(r).version = render[r].version
    <3>1. render[r].version # 0
      BY DEF Insert, At, Inv, Typed
    <3> QED
      BY <2>5, <3>1 DEF Exports, Versions, Mine, Export
  <2>7. Typed'
    BY ZenonT(40), <2>1, <2>2, <2>6 DEF PcOnly, Inv, Typed, Insert, At
  <2>8. ReservedApart'
    <3>1. Mine(r) \notin reserved /\ \A f \in reserved : M4b(f) # M4b(Mine(r))
      BY <1>2 DEF Conflicts
    <3>2. \A e, f \in reserved' : M4b(e) = M4b(f) => e = f
      BY <2>1, <3>1 DEF Inv, ReservedApart
    <3>3. \A s \in Renders : Owns(s)' => Mine(s)' \in reserved'
      BY <2>1, <2>3, <2>4 DEF Inv, ReservedApart
    <3>4. \A s \in Renders \ {r} : Owns(s)' => Mine(s)' # Mine(r)'
      BY <2>3, <2>4, <3>1 DEF Inv, ReservedApart
    <3>5. \A e : M4b(e)' = M4b(e)
      BY DEF M4b
    <3> QED
      BY <2>3, <2>4, <3>2, <3>3, <3>4, <3>5 DEF Inv, ReservedApart
  <2>9. HighestExists'
    <3> SUFFICES ASSUME NEW b \in Books
                 PROVE  \E v \in 0..MaxVersion :
                          /\ v = 0 \/ Export(b, v) \in reserved'
                          /\ \A e \in reserved' : e.book = b => e.version <= v
      BY DEF HighestExists, Export
    <3>1. PICK v \in 0..MaxVersion :
            /\ v = 0 \/ Export(b, v) \in reserved
            /\ \A e \in reserved : e.book = b => e.version <= v
      BY DEF Inv, HighestExists
    <3>2. Mine(r) = Export(Mine(r).book, Mine(r).version) /\ Mine(r).version \in 0..MaxVersion
      BY <2>5 DEF Mine, Export, Exports
    <3>3. CASE Mine(r).book = b /\ Mine(r).version > v
      <4>1. \A e \in reserved' : e.book = b => e.version <= Mine(r).version
        BY <2>1, <3>1, <3>2, <3>3 DEF Inv, Typed, Versions
      <4> QED
        BY <2>1, <3>2, <3>3, <4>1
    <3>4. CASE ~(Mine(r).book = b /\ Mine(r).version > v)
      <4>1. \A e \in reserved' : e.book = b => e.version <= v
        BY <2>1, <3>1, <3>2, <3>4
      <4> QED
        BY <2>1, <3>1, <4>1
    <3> QED
      BY <3>3, <3>4
  <2>10. \A s \in Renders : Places(Mine(s))' = Places(Mine(s))
    BY <2>3 DEF Places, Reserves, M4b, Manifest, Master
  <2>11. PlacedIsThere'
    <3>1. render'[r].placed = {}
      BY <2>2 DEF PcOnly, Insert, At, Owns, Inv, PlacedIsThere
    <3>2. \A s \in Renders : render'[s].placed = render[s].placed
      BY <2>2 DEF PcOnly
    <3>3. \A s \in Renders \ {r} : render'[s].pc = render[s].pc
      BY <2>2 DEF PcOnly
    <3> QED
      BY <2>1, <2>2, <2>3, <2>4, <2>10, <3>1, <3>2, <3>3 DEF Inv, PlacedIsThere, PcOnly
  <2>12. CompletedIsLeft'
    <3>1. \A s \in Renders : render'[s].book = render[s].book /\ render'[s].version = render[s].version
      BY <2>2 DEF PcOnly
    <3>2. completed[render[r].book] # render[r].version
      <4>1. Mine(r) \notin reserved /\ Mine(r) = Export(render[r].book, render[r].version)
        BY <1>2 DEF Conflicts, Mine
      <4>2. render[r].version # 0 /\ render[r].book \in Books
        BY DEF Insert, At, Inv, Typed, Runs
      <4> QED
        BY <4>1, <4>2 DEF Inv, CompletedIsLeft
    <3> QED
      BY <2>1, <2>4, <3>1, <3>2 DEF Inv, CompletedIsLeft, Export
  <2>13. CompletedIsWhole' /\ MigratedOnce'
    <3>1. \A e : Places(e)' = Places(e)
      BY DEF Places, Reserves, M4b, Manifest, Master
    <3>2. CompletedIsWhole'
      BY <2>1, <3>1 DEF Inv, CompletedIsWhole, Export
    <3>3. schema = Target
      BY DEF Insert, At, Inv, MigratedOnce
    <3> QED
      BY <2>1, <2>2, <3>2, <3>3 DEF Inv, MigratedOnce, PcOnly
  <2> QED
    BY <2>7, <2>8, <2>9, <2>11, <2>12, <2>13 DEF Inv
<1> QED
  BY <1>1, <1>2

(* Nothing that was there is taken for what this run is to place.          *)
LEMMA CheckAbsentKeeps ==
  ASSUME Inv, NEW r \in Renders, CheckAbsent(r)
  PROVE  Inv'
<1>1. writer # r /\ Owns(r)
  BY DEF CheckAbsent, At, Inv, Typed, Owns
<1>2. CASE Places(Mine(r)) \cap Occupied = {}
  BY <1>1, <1>2, GoKeeps DEF CheckAbsent, At, Points, Database
<1>3. CASE Places(Mine(r)) \cap Occupied # {}
  BY <1>1, <1>3, EndKeeps DEF CheckAbsent, Database
<1> QED
  BY <1>2, <1>3

(* An assembler that fails is about to roll back.                          *)
LEMMA ClaimFailsKeeps ==
  ASSUME Inv, NEW r \in Renders, ClaimFails(r)
  PROVE  Inv'
<1>1. writer # r /\ Owns(r)
  BY DEF ClaimFails, At, Inv, Typed, Owns
<1> QED
  BY <1>1, GoKeeps DEF ClaimFails, At, Points, Database

(* A run goes on to the commit with all its files placed.                  *)
LEMMA RegateKeeps ==
  ASSUME Inv, NEW r \in Renders, Regate(r)
  PROVE  Inv'
<1>1. writer # r /\ Owns(r) /\ render[r].placed = Places(Mine(r))
  BY DEF Regate, At, Inv, Typed, Owns
<1>2. CASE Goes(r, "complete")
  BY <1>1, <1>2, GoKeeps DEF Regate, At, Points, Database
<1>3. CASE Ends(r)
  BY <1>1, <1>3, EndKeeps DEF Regate, Database
<1> QED
  BY <1>2, <1>3 DEF Regate

(* A run that waited too long for the write lock does not hold it.         *)
LEMMA GiveUpKeeps ==
  ASSUME Inv, NEW r \in Renders, GiveUp(r)
  PROVE  Inv'
<1>1. writer # r
  BY DEF GiveUp, Inv, Typed
<1> QED
  BY <1>1, EndKeeps DEF GiveUp, Database

(* A crash gives the write lock back and leaves files and tables.          *)
LEMMA CrashKeeps ==
  ASSUME Inv, NEW r \in Renders, Crash(r)
  PROVE  Inv'
  BY EndKeeps DEF Crash, Database

(* The completed output becomes the one its run holds, and the run lets go *)
(* of it: it is whole, and nobody else holds its reservation.              *)
LEMMA SaveCompletedKeeps ==
  ASSUME Inv, NEW r \in Renders, SaveCompleted(r)
  PROVE  Inv'
<1> USE NumbersAssumption, RendersAssumption
<1>1. /\ At(r, "completing") /\ writer = r /\ writer' = Nobody /\ Ends(r)
      /\ completed' = [completed EXCEPT ![render[r].book] = render[r].version]
      /\ UNCHANGED <<schema, bodies, reserved, disk>>
  BY DEF SaveCompleted, Commits
<1>2. /\ render' \in [Renders -> Runs] /\ render'[r].pc = "idle" /\ ~Owns(r)' /\ render'[r].placed = {}
      /\ \A s \in Renders \ {r} : render'[s] = render[s]
  BY <1>1, EndsIdle DEF Inv
<1>3. /\ Owns(r) /\ render[r].book \in Books /\ render[r].version \in 0..MaxVersion
      /\ Mine(r) \in reserved /\ render[r].placed = Places(Mine(r))
  BY <1>1 DEF At, Owns, Inv, Typed, Runs, ReservedApart, PlacedIsThere
<1>4. \A s \in Renders : Owns(s)' => /\ s # r /\ Owns(s) /\ Mine(s)' = Mine(s)
                                     /\ render'[s] = render[s]
  BY <1>2 DEF Owns, Mine
<1>5. \A e : Places(e)' = Places(e) /\ M4b(e)' = M4b(e)
  BY DEF Places, Reserves, M4b, Manifest, Master
<1>6. Typed'
  BY <1>1, <1>2, <1>3 DEF Inv, Typed
<1>7. ReservedApart' /\ HighestExists'
  BY <1>1, <1>4, <1>5 DEF Inv, ReservedApart, HighestExists, Export
<1>8. PlacedIsThere'
  <2>1. \A s \in Renders : s # r => Mine(s)' = Mine(s) /\ render'[s] = render[s] /\ (Owns(s)' <=> Owns(s))
    BY <1>2 DEF Mine, Owns
  <2>2. \A s \in Renders : s # r => Places(Mine(s))' = Places(Mine(s))
    BY <2>1, <1>5 DEF Places, Reserves, M4b, Manifest, Master
  <2>3. \A f, g \in disk' : f.path = g.path => f = g
    BY <1>1 DEF Inv, PlacedIsThere
  <2>4. \A s \in Renders : Owns(s)' =>
          \A p \in render'[s].placed : p \in Places(Mine(s))' /\ [path |-> p, by |-> Mine(s)'] \in disk'
    BY <1>1, <1>4, <2>2 DEF Inv, PlacedIsThere
  <2>5. \A s \in Renders : render'[s].pc \in {"complete", "completing"} =>
          render'[s].placed = Places(Mine(s))'
    BY <1>2, <2>2 DEF Inv, PlacedIsThere
  <2>6. \A s \in Renders : ~Owns(s)' => render'[s].placed = {}
    BY <1>2, <2>1 DEF Inv, PlacedIsThere
  <2> QED
    BY <2>3, <2>4, <2>5, <2>6 DEF PlacedIsThere
<1>9. CompletedIsLeft'
  <2>1. \A b \in Books : completed'[b] # 0 => Export(b, completed'[b]) \in reserved
    BY <1>1, <1>3 DEF Inv, Typed, CompletedIsLeft, Mine
  <2>2. ASSUME NEW s \in Renders, Owns(s)'
        PROVE  completed'[render'[s].book] # render'[s].version
    <3>1. s # r /\ Owns(s) /\ render'[s] = render[s] /\ Mine(s) # Mine(r)
      BY <2>2, <1>3, <1>4 DEF Inv, ReservedApart
    <3>2. render[s].book # render[r].book \/ render[s].version # render[r].version
      BY <3>1 DEF Mine
    <3>3. render[s].book \in Books /\ completed[render[s].book] # render[s].version
      BY <3>1 DEF Inv, Typed, Runs, CompletedIsLeft
    <3> QED
      BY <1>1, <3>1, <3>2, <3>3 DEF Inv, Typed
  <2> QED
    BY <1>1, <2>1, <2>2 DEF CompletedIsLeft, Export
<1>10. CompletedIsWhole'
  <2>1. \A path \in Places(Mine(r)) : [path |-> path, by |-> Mine(r)] \in disk
    BY <1>3 DEF Inv, PlacedIsThere
  <2>2. ASSUME NEW b \in Books, completed'[b] # 0, NEW path \in Places(Export(b, completed'[b]))
        PROVE  [path |-> path, by |-> Export(b, completed'[b])] \in disk
    <3>1. CASE b = render[r].book
      <4>1. Export(b, completed'[b]) = Mine(r)
        BY <1>1, <1>3, <3>1 DEF Inv, Typed, Mine
      <4> QED
        BY <2>1, <2>2, <4>1
    <3>2. CASE b # render[r].book
      <4>1. completed'[b] = completed[b]
        BY <1>1, <3>2 DEF Inv, Typed
      <4> QED
        BY <2>2, <4>1 DEF Inv, CompletedIsWhole
    <3> QED
      BY <3>1, <3>2
  <2>3. \A b \in Books : Places(Export(b, completed[b]))' = Places(Export(b, completed'[b]))
                         /\ Export(b, completed[b])' = Export(b, completed'[b])
    BY DEF Export, Places, Reserves, M4b, Manifest, Master
  <2> QED
    BY <1>1, <2>2, <2>3 DEF CompletedIsWhole, Export
<1>11. MigratedOnce'
  BY <1>1, <1>2 DEF Inv, MigratedOnce
<1> QED
  BY <1>6, <1>7, <1>8, <1>9, <1>10, <1>11 DEF Inv

\* A run of the assembler changes what it has placed, and what that means for every run
Places_(r, placed) ==
  /\ render[r].pc \in {"claim", "rollback"}
  /\ placed \subseteq Places(Mine(r))
  /\ render' = [render EXCEPT ![r].placed = placed]
  /\ UNCHANGED <<Database, writer>>

Placing(r, placed) ==
  \A s \in Renders :
    /\ render'[s].pc = render[s].pc
    /\ render'[s].placed = IF s = r THEN placed ELSE render[s].placed
    /\ (Owns(s)' <=> Owns(s)) /\ Mine(s)' = Mine(s) /\ Places(Mine(s))' = Places(Mine(s))

(* Placing and removing files concerns the disk, and nothing else.         *)
LEMMA PlacingTouches ==
  ASSUME Inv, NEW r \in Renders, NEW placed, Places_(r, placed)
  PROVE  /\ Typed' /\ ReservedApart' /\ HighestExists' /\ CompletedIsLeft' /\ MigratedOnce'
         /\ Placing(r, placed)
<1>1. Mine(r) \in Exports
  BY DEF Inv, Typed, Runs, Mine, Export, Exports
<1>2. placed \in SUBSET UNION {Places(e) : e \in Exports}
  BY <1>1 DEF Places_
<1>3. render' \in [Renders -> Runs]
  BY <1>2 DEF Inv, Typed, Runs, Places_
<1>4. \A s \in Renders : /\ render'[s].pc = render[s].pc /\ render'[s].book = render[s].book
                        /\ render'[s].version = render[s].version
                        /\ render'[s].placed = IF s = r THEN placed ELSE render[s].placed
  BY DEF Inv, Typed, Runs, Places_
<1>5. \A s \in Renders : (Owns(s)' <=> Owns(s)) /\ Mine(s)' = Mine(s)
  BY <1>4 DEF Owns, Mine, Export
<1>6. Typed'
  BY <1>3, <1>4 DEF Inv, Typed, Places_, Database
<1>7. ReservedApart' /\ HighestExists'
  BY <1>5 DEF Inv, ReservedApart, HighestExists, Places_, Database, M4b
<1>8. CompletedIsLeft' /\ MigratedOnce'
  BY <1>4, <1>5 DEF Inv, CompletedIsLeft, MigratedOnce, Places_, Database, Export
<1>9. \A s \in Renders : Places(Mine(s))' = Places(Mine(s))
  BY <1>4 DEF Places, Reserves, M4b, Manifest, Master, Mine, Export
<1>10. Placing(r, placed)
  BY <1>4, <1>5, <1>9 DEF Placing
<1> QED
  BY <1>6, <1>7, <1>8, <1>10

(* A file is placed under a path that was free, so that no path has two.   *)
LEMMA ClaimKeeps ==
  ASSUME Inv, NEW r \in Renders, Claim(r)
  PROVE  Inv'
<1> DEFINE p == Claims(r)
<1>1. writer # r /\ Owns(r) /\ render[r].placed \subseteq Places(Mine(r))
  BY DEF Claim, At, Inv, Typed, Owns, PlacedIsThere
<1>2. p \in Places(Mine(r)) \ render[r].placed
  <2>1. Places(Mine(r)) \ render[r].placed # {}
    BY <1>1 DEF Claim
  <2> QED
    BY <2>1, FirstIsOne DEF Claims
<1> HIDE DEF p
<1>3. CASE p \in Occupied
  BY <1>1, <1>3, GoKeeps DEF Claim, At, Points, Database, p
<1>4. CASE p \notin Occupied
  <2>1. disk' = disk \cup {[path |-> p, by |-> Mine(r)]}
    BY <1>4 DEF Claim, p
  <2>2. Places_(r, render[r].placed \cup {p})
    BY <1>1, <1>2, <1>4 DEF Claim, At, p, Places_
  <2> DEFINE placed == render[r].placed \cup {p}
  <2>3. /\ Typed' /\ ReservedApart' /\ HighestExists' /\ CompletedIsLeft' /\ MigratedOnce'
        /\ Placing(r, placed)
    BY <2>2, PlacingTouches
  <2> HIDE DEF placed
  <2>4. \A s \in Renders : Owns(s)' =>
          \A q \in render'[s].placed : q \in render[s].placed \/ (s = r /\ q = p)
    BY <2>3 DEF Placing, placed
  <2>5. PlacedIsThere'
    <3>1. \A f, g \in disk' : f.path = g.path => f = g
      BY <2>1, <1>4 DEF Occupied, Inv, PlacedIsThere
    <3>2. \A s \in Renders : Owns(s)' =>
            \A q \in render'[s].placed : q \in Places(Mine(s))' /\ [path |-> q, by |-> Mine(s)'] \in disk'
      BY <1>2, <2>1, <2>3, <2>4 DEF Inv, PlacedIsThere, Placing
    <3>3. \A s \in Renders : render'[s].pc \in {"complete", "completing"} =>
            render'[s].placed = Places(Mine(s))'
      BY <2>3 DEF Inv, PlacedIsThere, Claim, At, Placing
    <3>4. \A s \in Renders : ~Owns(s)' => render'[s].placed = {}
      BY <1>1, <2>3 DEF Inv, PlacedIsThere, Placing
    <3> QED
      BY <3>1, <3>2, <3>3, <3>4 DEF PlacedIsThere
  <2>6. CompletedIsWhole'
    BY <2>1 DEF Inv, CompletedIsWhole, Claim, Database, Export, Places, Reserves, M4b, Manifest, Master
  <2> QED
    BY <2>3, <2>5, <2>6 DEF Inv
<1> QED
  BY <1>3, <1>4

(* What is removed is nobody else's: neither a file another run has placed *)
(* nor one of a completed output has the path of this run's.               *)
LEMMA RollbackKeeps ==
  ASSUME Inv, NEW r \in Renders, Rollback(r)
  PROVE  Inv'
<1> DEFINE path == First(Mine(r), render[r].placed)
<1>1. writer # r /\ Owns(r) /\ render[r].placed \subseteq Places(Mine(r)) /\ Mine(r) \in reserved
  BY DEF Rollback, At, Inv, Typed, Owns, PlacedIsThere, ReservedApart
<1>2. CASE render[r].placed = {}
  BY <1>1, <1>2, EndKeeps DEF Rollback, Database
<1>3. CASE render[r].placed # {}
  <2>1. path \in render[r].placed
    BY <1>1, <1>3, FirstIsOne
  <2>2. disk' = {f \in disk : f.path # path} \/ disk' = disk
    BY <1>3 DEF Rollback
  <2>3. Places_(r, render[r].placed \ {path})
    BY <1>1, <1>3 DEF Rollback, At, Places_
  <2> HIDE DEF path
  <2> DEFINE placed == render[r].placed \ {path}
  <2>4. /\ Typed' /\ ReservedApart' /\ HighestExists' /\ CompletedIsLeft' /\ MigratedOnce'
        /\ Placing(r, placed)
    BY <2>3, PlacingTouches
  <2> HIDE DEF placed
  <2>5. path \notin placed /\ placed \subseteq render[r].placed
    BY DEF placed
  <2>6. ASSUME NEW f \in disk, f.path # path
        PROVE  f \in disk'
    BY <2>2, <2>6
  <2>7. ASSUME NEW e \in reserved, e # Mine(r), NEW q \in Places(e)
        PROVE  q # path
    BY <1>1, <2>1, <2>7, ReservedPlacesApart DEF Inv
  <2>8. PlacedIsThere'
    <3>1. \A f, g \in disk' : f.path = g.path => f = g
      BY <2>2 DEF Inv, PlacedIsThere
    <3>2. ASSUME NEW s \in Renders, Owns(s)', NEW q \in render'[s].placed
          PROVE  q \in Places(Mine(s))' /\ [path |-> q, by |-> Mine(s)'] \in disk'
      <4>1. Owns(s) /\ q \in render[s].placed /\ q \in Places(Mine(s)) /\ Mine(s) \in reserved
        BY <3>2, <2>4, <2>5 DEF Inv, PlacedIsThere, ReservedApart, Placing
      <4>2. q # path
        <5>1. CASE s = r
          BY <5>1, <3>2, <2>4, <2>5 DEF Placing
        <5>2. CASE s # r
          BY <5>2, <4>1, <1>1, <2>7 DEF Inv, ReservedApart
        <5> QED
          BY <5>1, <5>2
      <4>3. [path |-> q, by |-> Mine(s)] \in disk
        BY <4>1 DEF Inv, PlacedIsThere
      <4>4. [path |-> q, by |-> Mine(s)] \in disk'
        BY <4>2, <4>3, <2>6
      <4> QED
        BY <4>1, <4>4, <2>4 DEF Placing
    <3>3. \A s \in Renders : render'[s].pc \in {"complete", "completing"} =>
            render'[s].placed = Places(Mine(s))'
      BY <2>4 DEF Inv, PlacedIsThere, Rollback, At, Placing
    <3>4. \A s \in Renders : ~Owns(s)' => render'[s].placed = {}
      BY <1>1, <2>4 DEF Inv, PlacedIsThere, Placing
    <3> QED
      BY <3>1, <3>2, <3>3, <3>4 DEF PlacedIsThere
  <2>9. CompletedIsWhole'
    <3>1. completed' = completed
      BY DEF Rollback, Database
    <3>2. ASSUME NEW b \in Books, completed[b] # 0, NEW q \in Places(Export(b, completed[b]))
          PROVE  [path |-> q, by |-> Export(b, completed[b])] \in disk'
      <4>1. Export(b, completed[b]) \in reserved
        BY <3>2 DEF Inv, CompletedIsLeft
      <4>2. Export(b, completed[b]) # Mine(r)
        BY <1>1 DEF Inv, CompletedIsLeft, Mine, Export
      <4>3. q # path
        BY <4>1, <4>2, <2>7
      <4>4. [path |-> q, by |-> Export(b, completed[b])] \in disk
        BY <3>2 DEF Inv, CompletedIsWhole
      <4> QED
        BY <4>3, <4>4, <2>6
    <3> QED
      BY <3>1, <3>2 DEF CompletedIsWhole, Export, Places, Reserves, M4b, Manifest, Master
  <2> QED
    BY <2>4, <2>8, <2>9 DEF Inv
<1> QED
  BY <1>2, <1>3

(* A file that is copied in goes where none was.                           *)
LEMMA CopiedInKeeps == Inv /\ CopiedIn => Inv'
<1> SUFFICES ASSUME Inv, CopiedIn PROVE Inv'
  OBVIOUS
<1>1. \E b, path : path \notin Occupied /\ disk' = disk \cup {[path |-> path, by |-> Export(b, 0)]}
  BY DEF CopiedIn
<1>2. UNCHANGED <<schema, bodies, reserved, completed, writer, render>>
  BY DEF CopiedIn, Database
<1>3. \A f, g \in disk' : f.path = g.path => f = g
  BY <1>1 DEF Occupied, Inv, PlacedIsThere
<1>4. \A s \in Renders : (Owns(s)' <=> Owns(s)) /\ Mine(s)' = Mine(s) /\ Places(Mine(s))' = Places(Mine(s))
  BY <1>2 DEF Owns, Mine, Export, Places, Reserves, M4b, Manifest, Master
<1>5. PlacedIsThere'
  BY <1>1, <1>2, <1>3, <1>4 DEF Inv, PlacedIsThere
<1>6. CompletedIsWhole'
  BY <1>1, <1>2 DEF Inv, CompletedIsWhole, Export, Places, Reserves, M4b, Manifest, Master
<1>7. Typed' /\ MigratedOnce'
  BY <1>2 DEF Inv, Typed, MigratedOnce
<1>8. ReservedApart' /\ HighestExists' /\ CompletedIsLeft'
  BY <1>2, <1>4 DEF Inv, ReservedApart, HighestExists, CompletedIsLeft, M4b, Export
<1> QED
  BY <1>5, <1>6, <1>7, <1>8 DEF Inv

-----------------------------------------------------------------------------
(* Every step, and the theorems                                            *)

(* Who leaves the exports alone leaves them as they should be.             *)
LEMMA OutputsLeft ==
  ASSUME Inv, UNCHANGED outputVars
  PROVE  Inv'
<1>1. \A r \in Renders : (Owns(r)' <=> Owns(r)) /\ Mine(r)' = Mine(r) /\ Places(Mine(r))' = Places(Mine(r))
  BY DEF outputVars, Owns, Mine, Export, Places, Reserves, M4b, Manifest, Master
<1>2. Typed' /\ MigratedOnce' /\ HighestExists' /\ ReservedApart'
  BY <1>1 DEF outputVars, Inv, Typed, MigratedOnce, HighestExists, ReservedApart, M4b, Export
<1>3. PlacedIsThere' /\ CompletedIsLeft'
  BY <1>1 DEF outputVars, Inv, PlacedIsThere, CompletedIsLeft, Export
<1>4. CompletedIsWhole'
  BY DEF outputVars, Inv, CompletedIsWhole, Export, Places, Reserves, M4b, Manifest, Master
<1> QED
  BY <1>2, <1>3, <1>4 DEF Inv

(* The invariant is inductive.                                             *)
LEMMA InvNext == Inv /\ [Next]_vars => Inv'
<1> SUFFICES ASSUME Inv, [Next]_vars PROVE Inv'
  OBVIOUS
<1>1. ASSUME NEW r \in Renders, Step(r)
      PROVE  Inv'
  <2>1. CASE BeginMigration(r)
    BY <2>1, BeginQuiet DEF BeginMigration
  <2>2. CASE Migrate(r)
    BY <2>2, MigrateKeeps
  <2>3. CASE ReadHighest(r)
    BY <2>3, ReadHighestKeeps
  <2>4. CASE Probe(r)
    BY <2>4, ProbeKeeps
  <2>5. CASE BeginReservation(r)
    BY <2>5, BeginQuiet DEF BeginReservation
  <2>6. CASE Insert(r)
    BY <2>6, InsertKeeps
  <2>7. CASE CheckAbsent(r)
    BY <2>7, CheckAbsentKeeps
  <2>8. CASE Claim(r)
    BY <2>8, ClaimKeeps
  <2>9. CASE Rollback(r)
    BY <2>9, RollbackKeeps
  <2>10. CASE Regate(r)
    BY <2>10, RegateKeeps
  <2>11. CASE BeginCompletion(r)
    BY <2>11, BeginQuiet DEF BeginCompletion
  <2>12. CASE SaveCompleted(r)
    BY <2>12, SaveCompletedKeeps
  <2>13. CASE GiveUp(r)
    BY <2>13, GiveUpKeeps
  <2> QED
    BY <1>1, <2>1, <2>2, <2>3, <2>4, <2>5, <2>6, <2>7, <2>8, <2>9, <2>10, <2>11, <2>12, <2>13 DEF Step
<1>2. ASSUME NEW r \in Renders, NEW b \in Books, Open(r, b)
      PROVE  Inv'
  BY <1>2, OpenKeeps
<1>3. ASSUME NEW r \in Renders, ClaimFails(r)
      PROVE  Inv'
  BY <1>3, ClaimFailsKeeps
<1>4. ASSUME NEW r \in Renders, Crash(r)
      PROVE  Inv'
  BY <1>4, CrashKeeps
<1>5. CASE CopiedIn
  BY <1>5, CopiedInKeeps
<1>6. CASE UNCHANGED vars
  BY <1>6, OutputsLeft DEF vars, outputVars
<1> QED
  BY <1>1, <1>2, <1>3, <1>4, <1>5, <1>6 DEF Next

(* It holds throughout.                                                    *)
LEMMA InvAlways == Spec => []Inv
<1>1. Init => Inv
  BY InvInit
<1>2. Inv /\ [Next]_vars => Inv'
  BY InvNext
<1> QED
  BY <1>1, <1>2, PTL DEF Spec

(* No two runs ever hold exports that share a file, however many processes *)
(* render however many books, and whatever they saw of tables and disk     *)
(* before their transactions.                                              *)
THEOREM SoleOwnership == Spec => []SoleOwner
<1>1. Inv => SoleOwner
  <2> SUFFICES ASSUME Inv, NEW r \in Renders, NEW s \in Renders, r # s, Owns(r), Owns(s)
               PROVE  Places(Mine(r)) \cap Places(Mine(s)) = {}
    BY DEF SoleOwner
  <2>1. Mine(r) \in reserved /\ Mine(s) \in reserved /\ Mine(r) # Mine(s)
    BY DEF Inv, ReservedApart
  <2> QED
    BY <2>1, ReservedPlacesApart DEF Inv
<1> QED
  BY <1>1, InvAlways, PTL

(* The workspace is migrated once, no path has two files, and a completed  *)
(* output stays whole: rollbacks, crashes and copied files do not touch it.*)
THEOREM OutputsAreSound == Spec => []OutputsSound
<1>1. Inv => OutputsSound
  BY DEF Inv, OutputsSound, TypeOK, Typed, PlacedIsThere
<1> QED
  BY <1>1, InvAlways, PTL

(* A file that leaves the disk was placed by a run that is rolling back,   *)
(* and it is that run that removes it.                                     *)
LEMMA RemovedByOwner ==
  ASSUME Inv, Next, NEW f \in disk, f \notin disk'
  PROVE  \E r \in Renders : At(r, "rollback") /\ f.by = Mine(r)
<1>1. PICK r \in Renders : Rollback(r)
  BY DEF Next, Step, BeginMigration, BeginReservation, BeginCompletion, Begin, Migrate, ReadHighest,
         Probe, Insert, CheckAbsent, Claim, Regate, SaveCompleted, GiveUp, Open, ClaimFails, Crash, CopiedIn
<1> DEFINE path == First(Mine(r), render[r].placed)
<1>2. render[r].placed # {} /\ disk' = {g \in disk : g.path # path}
  BY <1>1 DEF Rollback
<1>3. Owns(r) /\ At(r, "rollback") /\ render[r].placed \subseteq Places(Mine(r))
  BY <1>1 DEF Rollback, At, Owns, Inv, PlacedIsThere
<1>4. path \in render[r].placed /\ f.path = path
  BY <1>2, <1>3, FirstIsOne
<1>5. [path |-> path, by |-> Mine(r)] \in disk
  BY <1>3, <1>4 DEF Inv, PlacedIsThere
<1> HIDE DEF path
<1>6. f = [path |-> path, by |-> Mine(r)]
  BY <1>4, <1>5 DEF Inv, PlacedIsThere
<1> QED
  BY <1>3, <1>6

-----------------------------------------------------------------------------
(* The uploads                                                             *)

Working == {"look", "committed", "pending", "verify", "prove", "promote", "proved", "discard",
            "inspect", "quarantine", "clear", "stage", "adopt", "hold", "publish", "settle",
            "release", "failing"}

Calls == [pc : Working \cup {"idle", "acquire"}, record : Records, owns : BOOLEAN]

Stored ==
  [record : Records, name : {"pending", "committed", "none"}, whole : BOOLEAN, handed : BOOLEAN]

Works(i) == call[i].pc \in Working

UploadsTyped ==
  /\ target = {} \/ \E t \in Stored : target = {t}
  /\ lock \in Ingests \cup {Nobody} /\ lapsed \in BOOLEAN
  /\ holder \in [Ingests -> {"none", "held", "wedged", "gone", "orphan"}]
  /\ call \in [Ingests -> Calls]

\* Whoever works has the lock, or has had its holder killed
Locked ==
  /\ \A i \in Ingests : (lock = i) <=> (holder[i] \in {"held", "wedged", "orphan"})
  /\ \A i \in Ingests :
       /\ call[i].pc = "idle" => holder[i] \in {"none", "orphan"}
       /\ call[i].pc = "acquire" => holder[i] = "none"
       /\ Works(i) => holder[i] \in {"held", "wedged"} \/ (holder[i] = "gone" /\ lapsed)

\* The target is there and has the record of this call
Has(i, names) == \E t \in target : t.record = call[i].record /\ t.name \in names

Names == {"pending", "committed", "none"}

\* What a call knows of the target at a point of its work: nobody else changes it
Knows(i) ==
  /\ call[i].pc \in {"hold", "publish"} => Has(i, Names)
  /\ call[i].pc \in {"settle", "release"} => Has(i, {"committed"})
  /\ call[i].pc = "quarantine" /\ ~call[i].owns => \A t \in target : t.name # "committed"

\* A target that a working call has put there was handed out to nobody, and nothing else was
Fresh(i) == call[i].owns => Works(i) /\ told = {} /\ \A t \in target : ~t.handed

Kept == \A r \in told : \E t \in target : t.name = "committed" /\ t.record = r

UploadsInv ==
  /\ UploadsTyped /\ Locked
  /\ ~lapsed => Kept /\ \A i \in Ingests : Knows(i) /\ Fresh(i)

(* One call works at a time, as long as no holder was killed.              *)
LEMMA Alone ==
  ASSUME UploadsInv, ~lapsed, NEW i \in Ingests, NEW j \in Ingests, Works(i), Works(j)
  PROVE  i = j
BY DEF UploadsInv, Locked

LEMMA UploadsInit == Ingestion!Init => UploadsInv
<1> SUFFICES ASSUME Ingestion!Init PROVE UploadsInv
  OBVIOUS
<1>1. Ingestion!Quiet \in Calls /\ Ingestion!Quiet.pc = "idle" /\ ~Ingestion!Quiet.owns
  BY IngestsAssumption DEF Ingestion!Quiet, Calls
<1>2. \A i \in Ingests : call[i] = Ingestion!Quiet
  BY DEF Ingestion!Init
<1>3. UploadsTyped
  BY <1>1 DEF Ingestion!Init, UploadsTyped
<1>4. Locked
  BY <1>1, <1>2, IngestsAssumption DEF Ingestion!Init, Locked, Works, Working
<1>5. Kept /\ \A i \in Ingests : Knows(i) /\ Fresh(i)
  BY <1>1, <1>2 DEF Ingestion!Init, Kept, Knows, Fresh
<1> QED BY <1>3, <1>4, <1>5 DEF UploadsInv

(* A call that goes on within its work, leaving files and locks alone,     *)
(* need only know what it has to where it gets.                            *)
LEMMA CallGoes ==
  ASSUME UploadsInv, NEW i \in Ingests, Works(i), NEW pc \in Working,
         Ingestion!Goes(i, pc), UNCHANGED <<target, lock, holder, lapsed, told>>,
         ~lapsed => /\ pc \in {"hold", "publish"} => Has(i, Names)
                    /\ pc \in {"settle", "release"} => Has(i, {"committed"})
                    /\ pc = "quarantine" /\ ~call[i].owns => \A t \in target : t.name # "committed"
  PROVE  UploadsInv'
<1>1. /\ call' \in [Ingests -> Calls]
      /\ call'[i].pc = pc /\ call'[i].record = call[i].record /\ call'[i].owns = call[i].owns
      /\ \A j \in Ingests \ {i} : call'[j] = call[j]
  BY DEF Ingestion!Goes, UploadsInv, UploadsTyped, Calls
<1>2. UploadsTyped'
  BY <1>1 DEF UploadsInv, UploadsTyped
<1>3. Locked'
  BY <1>1 DEF UploadsInv, Locked, Works, Working
<1>4. ASSUME ~lapsed
      PROVE  Kept' /\ \A j \in Ingests : Knows(j)' /\ Fresh(j)'
  <2>1. Kept'
    BY <1>4 DEF UploadsInv, Kept
  <2>2. Knows(i)' /\ Fresh(i)'
    BY <1>1, <1>4 DEF UploadsInv, Knows, Fresh, Has, Works
  <2>3. ASSUME NEW j \in Ingests \ {i} PROVE Knows(j)' /\ Fresh(j)'
    BY <1>1, <1>4 DEF UploadsInv, Knows, Fresh, Has, Works
  <2> QED BY <2>1, <2>2, <2>3
<1> QED BY <1>2, <1>3, <1>4 DEF UploadsInv

(* A call that ends knows nothing any more; the locks have to be right,    *)
(* and what it hands out on leaving is what is stored.                     *)
LEMMA CallEnds ==
  ASSUME UploadsInv, NEW i \in Ingests, Ingestion!Ends(i),
         lock' \in Ingests \cup {Nobody}, lapsed' \in BOOLEAN, lapsed => lapsed',
         holder' \in [Ingests -> {"none", "held", "wedged", "gone", "orphan"}],
         \A j \in Ingests \ {i} : holder'[j] = holder[j] /\ (lock' = j <=> lock = j),
         holder'[i] \in {"none", "orphan"}, (lock' = i) <=> (holder'[i] = "orphan"),
         UNCHANGED <<target, told>>
  PROVE  UploadsInv'
<1>1. Ingestion!Quiet \in Calls /\ Ingestion!Quiet.pc = "idle" /\ ~Ingestion!Quiet.owns
  BY IngestsAssumption DEF Ingestion!Quiet, Calls
<1>2. /\ call' \in [Ingests -> Calls] /\ call'[i] = Ingestion!Quiet
      /\ \A j \in Ingests \ {i} : call'[j] = call[j]
  BY <1>1 DEF Ingestion!Ends, UploadsInv, UploadsTyped
<1>3. UploadsTyped'
  BY <1>2 DEF UploadsInv, UploadsTyped
<1>4. Locked'
  <2>1. ASSUME NEW j \in Ingests \ {i}
        PROVE  /\ (lock' = j) <=> (holder'[j] \in {"held", "wedged", "orphan"})
               /\ call'[j].pc = "idle" => holder'[j] \in {"none", "orphan"}
               /\ call'[j].pc = "acquire" => holder'[j] = "none"
               /\ Works(j)' => holder'[j] \in {"held", "wedged"} \/ (holder'[j] = "gone" /\ lapsed')
    BY <1>2 DEF UploadsInv, Locked, Works
  <2>2. /\ (lock' = i) <=> (holder'[i] \in {"held", "wedged", "orphan"})
        /\ call'[i].pc = "idle" /\ ~Works(i)'
    BY <1>1, <1>2 DEF Works, Working
  <2> QED BY <2>1, <2>2 DEF Locked
<1>5. ASSUME ~lapsed'
      PROVE  Kept' /\ \A j \in Ingests : Knows(j)' /\ Fresh(j)'
  <2>1. Kept'
    BY <1>5 DEF UploadsInv, Kept
  <2>2. Knows(i)' /\ Fresh(i)'
    BY <1>1, <1>2 DEF Knows, Fresh
  <2>3. ASSUME NEW j \in Ingests \ {i} PROVE Knows(j)' /\ Fresh(j)'
    BY <1>2, <1>5 DEF UploadsInv, Knows, Fresh, Has, Works
  <2> QED BY <2>1, <2>2, <2>3
<1> QED BY <1>3, <1>4, <1>5 DEF UploadsInv

(* The locks: whoever takes one, loses one or lets go of one.              *)
LEMMA LockSteps ==
  ASSUME UploadsInv, NEW i \in Ingests,
         \/ \E r \in Records : Ingestion!Upload(i, r)
         \/ Ingestion!Acquire(i) \/ Ingestion!HolderWedges(i) \/ Ingestion!OrphanEnds(i)
         \/ Ingestion!HolderKilled(i)
  PROVE  UploadsInv'
<1> USE DEF Ingestion!At, Ingestion!Locks, Ingestion!Held
<1>1. CASE \E r \in Records : Ingestion!Upload(i, r)
  <2>1. PICK r \in Records : Ingestion!Upload(i, r)
    BY <1>1
  <2>2. /\ call' = [call EXCEPT ![i] = [pc |-> "acquire", record |-> r, owns |-> FALSE]]
        /\ holder[i] = "none" /\ UNCHANGED <<target, lock, holder, lapsed, told>>
    BY <2>1 DEF Ingestion!Upload
  <2>3. /\ call' \in [Ingests -> Calls] /\ call'[i].pc = "acquire" /\ ~call'[i].owns
        /\ \A j \in Ingests \ {i} : call'[j] = call[j]
    BY <2>2 DEF UploadsInv, UploadsTyped, Calls
  <2>4. UploadsTyped' /\ Locked'
    BY <2>2, <2>3 DEF UploadsInv, UploadsTyped, Locked, Works, Working
  <2>5. ~lapsed => Kept' /\ \A j \in Ingests : Knows(j)' /\ Fresh(j)'
    BY <2>2, <2>3 DEF UploadsInv, Kept, Knows, Fresh, Has, Works
  <2> QED BY <2>2, <2>4, <2>5 DEF UploadsInv
<1>2. CASE Ingestion!Acquire(i)
  <2>1. /\ lock = Nobody /\ lock' = i /\ holder' = [holder EXCEPT ![i] = "held"]
        /\ call' = [call EXCEPT ![i].pc = "look"] /\ call[i].pc = "acquire"
        /\ UNCHANGED <<target, lapsed, told>>
    BY <1>2 DEF Ingestion!Acquire, Ingestion!Goes
  <2>2. /\ call' \in [Ingests -> Calls] /\ call'[i].pc = "look" /\ call'[i].owns = call[i].owns
        /\ \A j \in Ingests \ {i} : call'[j] = call[j]
    BY <2>1 DEF UploadsInv, UploadsTyped, Calls, Working
  <2>3. UploadsTyped' /\ Locked'
    BY <2>1, <2>2, IngestsAssumption DEF UploadsInv, UploadsTyped, Locked, Works, Working
  <2>4. ~lapsed => Kept' /\ \A j \in Ingests : Knows(j)' /\ Fresh(j)'
    BY <2>1, <2>2 DEF UploadsInv, Kept, Knows, Fresh, Has, Works, Working
  <2> QED BY <2>1, <2>3, <2>4 DEF UploadsInv
<1>3. CASE Ingestion!HolderWedges(i)
  <2>1. /\ holder[i] = "held" /\ holder' = [holder EXCEPT ![i] = "wedged"]
        /\ UNCHANGED <<target, lock, call, lapsed, told>>
    BY <1>3 DEF Ingestion!HolderWedges
  <2>2. UploadsTyped' /\ Locked'
    BY <2>1 DEF UploadsInv, UploadsTyped, Locked, Works
  <2>3. ~lapsed => Kept' /\ \A j \in Ingests : Knows(j)' /\ Fresh(j)'
    BY <2>1 DEF UploadsInv, Kept, Knows, Fresh, Has, Works
  <2> QED BY <2>1, <2>2, <2>3 DEF UploadsInv
<1>4. CASE Ingestion!OrphanEnds(i)
  <2>1. /\ holder[i] = "orphan" /\ lock' = Nobody /\ holder' = [holder EXCEPT ![i] = "none"]
        /\ UNCHANGED <<target, call, lapsed, told>>
    BY <1>4 DEF Ingestion!OrphanEnds
  <2>2. UploadsTyped' /\ Locked'
    BY <2>1, IngestsAssumption DEF UploadsInv, UploadsTyped, Locked, Works
  <2>3. ~lapsed => Kept' /\ \A j \in Ingests : Knows(j)' /\ Fresh(j)'
    BY <2>1 DEF UploadsInv, Kept, Knows, Fresh, Has, Works
  <2> QED BY <2>1, <2>2, <2>3 DEF UploadsInv
<1>5. CASE Ingestion!HolderKilled(i)
  <2>1. /\ call[i].pc # "idle" /\ holder[i] \in {"held", "wedged"} /\ lapsed'
        /\ lock' = Nobody /\ holder' = [holder EXCEPT ![i] = "gone"] /\ lapsed' = TRUE
        /\ UNCHANGED <<target, call, told>>
    BY <1>5 DEF Ingestion!HolderKilled
  <2>2. UploadsTyped' /\ Locked'
    BY <2>1, IngestsAssumption DEF UploadsInv, UploadsTyped, Locked, Works
  <2> QED BY <2>1, <2>2 DEF UploadsInv
<1> QED BY <1>1, <1>2, <1>3, <1>4, <1>5

(* The ends of a call, but the one that returns a record.                  *)
LEMMA EndSteps ==
  ASSUME UploadsInv, NEW i \in Ingests,
         \/ Ingestion!AcquireBusy(i) \/ Ingestion!AcquireFails(i) \/ Ingestion!ReleaseForced(i)
         \/ Ingestion!Crash(i) \/ (Ingestion!Release(i) /\ call[i].pc = "failing")
  PROVE  UploadsInv'
<1> USE DEF Ingestion!At, Ingestion!Locks, Ingestion!Held
<1>1. CASE Ingestion!AcquireBusy(i) \/ Ingestion!AcquireFails(i)
  <2>1. call[i].pc = "acquire" /\ Ingestion!Ends(i) /\ UNCHANGED <<lock, holder, lapsed, target, told>>
    BY <1>1 DEF Ingestion!AcquireBusy, Ingestion!AcquireFails
  <2>2. holder[i] = "none" /\ lock # i
    BY <2>1 DEF UploadsInv, Locked
  <2> QED BY <2>1, <2>2, CallEnds DEF UploadsInv, UploadsTyped
<1>2. CASE Ingestion!ReleaseForced(i)
  <2>1. /\ holder[i] = "wedged" /\ lock = i /\ Ingestion!Ends(i) /\ UNCHANGED <<lapsed, target, told>>
        /\ \/ lock' = Nobody /\ holder' = [holder EXCEPT ![i] = "none"]
           \/ lock' = lock /\ holder' = [holder EXCEPT ![i] = "orphan"]
    BY <1>2 DEF Ingestion!ReleaseForced, UploadsInv, Locked
  <2>2. /\ holder' \in [Ingests -> {"none", "held", "wedged", "gone", "orphan"}]
        /\ \A j \in Ingests \ {i} : holder'[j] = holder[j] /\ (lock' = j <=> lock = j)
        /\ holder'[i] \in {"none", "orphan"} /\ ((lock' = i) <=> (holder'[i] = "orphan"))
        /\ lock' \in Ingests \cup {Nobody}
    BY <2>1, IngestsAssumption DEF UploadsInv, UploadsTyped
  <2> QED BY <2>1, <2>2, CallEnds DEF UploadsInv, UploadsTyped
<1>3. CASE Ingestion!Crash(i)
  <2>1. /\ Ingestion!Ends(i) /\ UNCHANGED <<lock, lapsed, target, told>>
        /\ holder' = [holder EXCEPT ![i] = IF holder[i] \in {"held", "wedged"} THEN "orphan" ELSE "none"]
        /\ call[i].pc # "idle"
    BY <1>3 DEF Ingestion!Crash
  <2>2. (lock = i) <=> holder[i] \in {"held", "wedged"}
    BY <2>1 DEF UploadsInv, UploadsTyped, Calls, Locked, Works
  <2>3. /\ holder' \in [Ingests -> {"none", "held", "wedged", "gone", "orphan"}]
        /\ \A j \in Ingests \ {i} : holder'[j] = holder[j]
        /\ holder'[i] \in {"none", "orphan"} /\ ((lock = i) <=> (holder'[i] = "orphan"))
    BY <2>1, <2>2 DEF UploadsInv, UploadsTyped
  <2> QED BY <2>1, <2>3, CallEnds DEF UploadsInv, UploadsTyped
<1>4. CASE Ingestion!Release(i) /\ call[i].pc = "failing"
  <2>1. /\ Ingestion!Ends(i) /\ UNCHANGED <<lapsed, target, told>> /\ holder[i] # "wedged"
        /\ holder' = [holder EXCEPT ![i] = "none"] /\ lock' = IF lock = i THEN Nobody ELSE lock
    BY <1>4 DEF Ingestion!Release, Ingestion!Unlocked
  <2>2. /\ holder' \in [Ingests -> {"none", "held", "wedged", "gone", "orphan"}]
        /\ \A j \in Ingests \ {i} : holder'[j] = holder[j] /\ (lock' = j <=> lock = j)
        /\ holder'[i] = "none" /\ lock' # i /\ lock' \in Ingests \cup {Nobody}
    BY <2>1, IngestsAssumption DEF UploadsInv, UploadsTyped
  <2> QED BY <2>1, <2>2, CallEnds DEF UploadsInv, UploadsTyped
<1> QED BY <1>1, <1>2, <1>3, <1>4

(* What is handed out is what is stored.                                   *)
LEMMA HandsOut ==
  ASSUME UploadsInv, NEW i \in Ingests, Ingestion!Release(i), call[i].pc = "release"
  PROVE  UploadsInv'
<1> DEFINE Handed(t) ==
             [t EXCEPT !.handed = @ \/ (t.record = call[i].record /\ t.name = "committed")]
<1>1. /\ Ingestion!Ends(i) /\ UNCHANGED lapsed /\ holder[i] # "wedged"
      /\ holder' = [holder EXCEPT ![i] = "none"] /\ lock' = IF lock = i THEN Nobody ELSE lock
      /\ told' = told \cup {call[i].record} /\ target' = {Handed(t) : t \in target}
  BY DEF Ingestion!Release, Ingestion!Unlocked, Ingestion!At
<1>2. Ingestion!Quiet \in Calls /\ Ingestion!Quiet.pc = "idle" /\ ~Ingestion!Quiet.owns
  BY IngestsAssumption DEF Ingestion!Quiet, Calls
<1>3. /\ call' \in [Ingests -> Calls] /\ call'[i] = Ingestion!Quiet
      /\ \A j \in Ingests \ {i} : call'[j] = call[j]
  BY <1>1, <1>2 DEF Ingestion!Ends, UploadsInv, UploadsTyped
<1>4. \A t \in Stored : /\ Handed(t) \in Stored /\ Handed(t).record = t.record
                        /\ Handed(t).name = t.name
  BY DEF Stored
<1> HIDE DEF Handed
<1>5. UploadsTyped'
  <2>1. target' = {} \/ \E t \in Stored : target' = {t}
    BY <1>1, <1>4 DEF UploadsInv, UploadsTyped
  <2> QED BY <1>1, <1>3, <2>1, IngestsAssumption DEF UploadsInv, UploadsTyped
<1>6. Locked'
  BY <1>1, <1>2, <1>3, IngestsAssumption DEF UploadsInv, UploadsTyped, Locked, Works, Working
<1>7. ASSUME ~lapsed
      PROVE  Kept' /\ \A j \in Ingests : Knows(j)' /\ Fresh(j)'
  <2>1. Works(i) /\ Has(i, {"committed"}) /\ target \subseteq Stored
    BY <1>7 DEF UploadsInv, UploadsTyped, Works, Working, Knows
  <2>2. \A t \in target : Handed(t) \in target' /\ Handed(t).record = t.record /\ Handed(t).name = t.name
    BY <1>1, <1>4, <2>1
  <2>3. Kept'
    <3> SUFFICES ASSUME NEW r \in told' PROVE \E t \in target' : t.name = "committed" /\ t.record = r
      BY DEF Kept
    <3>1. PICK t \in target : t.name = "committed" /\ t.record = r
      BY <1>1, <1>7, <2>1 DEF UploadsInv, Kept, Has
    <3> QED BY <2>2, <3>1
  <2>4. Knows(i)' /\ Fresh(i)'
    BY <1>2, <1>3 DEF Knows, Fresh
  <2>5. ASSUME NEW j \in Ingests \ {i} PROVE Knows(j)' /\ Fresh(j)'
    <3>1. ~Works(j)
      BY <1>7, <2>1, Alone
    <3>2. call'[j] = call[j] /\ ~call[j].owns
      BY <1>3, <1>7, <3>1 DEF UploadsInv, Fresh
    <3> QED BY <3>1, <3>2 DEF Knows, Fresh, Works, Working
  <2> QED BY <2>3, <2>4, <2>5
<1> QED BY <1>1, <1>5, <1>6, <1>7 DEF UploadsInv

(* The reading steps of recoverTarget, discardTarget and commitNewTarget.  *)
LEMMA ReadingSteps ==
  ASSUME UploadsInv, NEW i \in Ingests,
         \/ Ingestion!Look(i) \/ Ingestion!LookCommitted(i) \/ Ingestion!LookPending(i)
         \/ Ingestion!Verify(i) \/ Ingestion!Prove(i) \/ Ingestion!ProvePromoted(i)
         \/ Ingestion!Discard(i) \/ Ingestion!Inspect(i) \/ Ingestion!Clear(i)
         \/ Ingestion!Stage(i) \/ Ingestion!Hold(i) \/ Ingestion!Settle(i) \/ Ingestion!Throws(i)
  PROVE  UploadsInv'
<1> USE DEF Ingestion!At, Ingestion!Locks, Ingestion!Reads
<1>1. ASSUME Works(i), UNCHANGED <<target, lock, holder, lapsed, told>>,
             \E pc \in Working : /\ Ingestion!Goes(i, pc)
                                 /\ pc \notin {"hold", "publish", "settle", "release", "quarantine"}
      PROVE  UploadsInv'
  BY <1>1, CallGoes
<1>2. target \subseteq Stored /\ \A t, u \in target : t = u
  BY DEF UploadsInv, UploadsTyped
<1>3. Ingestion!Holds("committed") /\ Ingestion!Mine(i) => Has(i, {"committed"})
  BY <1>2 DEF Ingestion!Holds, Ingestion!Mine, Has
<1>4. CASE Ingestion!Look(i) \/ Ingestion!LookCommitted(i) \/ Ingestion!LookPending(i)
           \/ Ingestion!Prove(i) \/ Ingestion!Clear(i) \/ Ingestion!Stage(i) \/ Ingestion!Throws(i)
  BY <1>1, <1>4 DEF Ingestion!Look, Ingestion!LookCommitted, Ingestion!LookPending, Ingestion!Prove,
     Ingestion!Clear, Ingestion!Stage, Ingestion!Throws, Works, Working
<1>5. CASE Ingestion!Verify(i) \/ Ingestion!ProvePromoted(i)
  <2>1. PICK pc \in Working : /\ Ingestion!Goes(i, pc)
                              /\ pc \in {"failing", "discard"} \/ (pc = "release" /\ Has(i, {"committed"}))
    BY <1>3, <1>5 DEF Ingestion!Verify, Ingestion!ProvePromoted, Working
  <2>2. Works(i) /\ UNCHANGED <<target, lock, holder, lapsed, told>>
    BY <1>5 DEF Ingestion!Verify, Ingestion!ProvePromoted, Works, Working
  <2> QED BY <2>1, <2>2, CallGoes
<1>6. CASE Ingestion!Discard(i) \/ Ingestion!Inspect(i)
  <2>1. PICK pc \in Working :
          /\ Ingestion!Goes(i, pc)
          /\ \/ pc \in {"failing", "inspect"}
             \/ pc = "quarantine" /\ (call[i].owns \/ ~Ingestion!Holds("committed"))
    BY <1>6 DEF Ingestion!Discard, Ingestion!Inspect, Working
  <2>2. Works(i) /\ UNCHANGED <<target, lock, holder, lapsed, told>>
    BY <1>6 DEF Ingestion!Discard, Ingestion!Inspect, Works, Working
  <2> QED BY <2>1, <2>2, CallGoes DEF Ingestion!Holds
<1>7. CASE Ingestion!Hold(i) \/ Ingestion!Settle(i)
  <2>1. PICK pc \in Working :
          /\ Ingestion!Goes(i, pc)
          /\ \/ pc = "discard" \/ (pc = "publish" /\ call[i].pc = "hold")
             \/ pc = "release" /\ call[i].pc = "settle"
    BY <1>7 DEF Ingestion!Hold, Ingestion!Settle, Working
  <2>2. Works(i) /\ UNCHANGED <<target, lock, holder, lapsed, told>>
    BY <1>7 DEF Ingestion!Hold, Ingestion!Settle, Works, Working
  <2>3. ~lapsed => Knows(i)
    BY DEF UploadsInv
  <2> QED BY <2>1, <2>2, <2>3, CallGoes DEF Knows
<1> QED BY <1>4, <1>5, <1>6, <1>7

(* A change of the target by the one call that works, or one that leaves a *)
(* committed record as it is.                                              *)
LEMMA TargetChanges ==
  ASSUME UploadsInv, NEW i \in Ingests, Works(i), call' \in [Ingests -> Calls], Works(i)',
         \A j \in Ingests \ {i} : call'[j] = call[j],
         target' = {} \/ \E t \in Stored : target' = {t},
         UNCHANGED <<lock, holder, lapsed, told>>,
         ~lapsed => Kept' /\ Knows(i)' /\ Fresh(i)'
  PROVE  UploadsInv'
<1>1. UploadsTyped' /\ Locked'
  BY DEF UploadsInv, UploadsTyped, Locked, Works, Working
<1>2. ASSUME ~lapsed, NEW j \in Ingests \ {i} PROVE Knows(j)' /\ Fresh(j)'
  <2>1. ~Works(j) /\ call'[j] = call[j] /\ ~call[j].owns
    BY <1>2, Alone DEF UploadsInv, Fresh
  <2> QED BY <2>1 DEF Knows, Fresh, Works, Working
<1> QED BY <1>1, <1>2 DEF UploadsInv

LEMMA TargetSteps ==
  ASSUME UploadsInv, NEW i \in Ingests,
         \/ Ingestion!Promote(i) \/ Ingestion!Publish(i) \/ Ingestion!Quarantine(i) \/ Ingestion!Adopt(i)
  PROVE  UploadsInv'
<1> USE DEF Ingestion!At, Ingestion!Locks
<1>1. Works(i) /\ UNCHANGED <<lock, holder, lapsed, told>> /\ call \in [Ingests -> Calls]
  BY DEF Ingestion!Promote, Ingestion!Publish, Ingestion!Quarantine, Ingestion!Adopt, Works, Working,
     UploadsInv, UploadsTyped
<1>2. ASSUME UNCHANGED target, \E pc \in {"discard", "failing"} : Ingestion!Goes(i, pc)
      PROVE  UploadsInv'
  BY <1>1, <1>2, CallGoes DEF Working
<1>3. ASSUME NEW pc \in Working, Ingestion!Goes(i, pc)
      PROVE  /\ call' \in [Ingests -> Calls] /\ \A j \in Ingests \ {i} : call'[j] = call[j]
             /\ call'[i].pc = pc /\ call'[i].record = call[i].record /\ call'[i].owns = call[i].owns
             /\ Works(i)'
  BY <1>1, <1>3 DEF Ingestion!Goes, Calls, Works
<1>4. CASE \/ Ingestion!Promote(i) /\ Ingestion!Holds("pending")
           \/ Ingestion!Publish(i) /\ Ingestion!Holds("pending")
  <2>1. PICK t \in Stored : target = {t} /\ t.name = "pending"
    BY <1>4 DEF Ingestion!Holds, UploadsInv, UploadsTyped
  <2>2. target' = {[t EXCEPT !.name = "committed"]}
    BY <1>4, <2>1 DEF Ingestion!Promote, Ingestion!Publish, Ingestion!Renamed
  <2>3. PICK u \in Stored : /\ target' = {u} /\ u.name = "committed"
                            /\ u.record = t.record /\ u.handed = t.handed
    <3>1. [t EXCEPT !.name = "committed"] \in Stored
      BY DEF Stored
    <3> QED BY <2>2, <3>1 DEF Stored
  <2>4. PICK pc \in {"proved", "settle"} :
          Ingestion!Goes(i, pc) /\ (pc = "settle" => call[i].pc = "publish")
    BY <1>4 DEF Ingestion!Promote, Ingestion!Publish
  <2>5. ASSUME ~lapsed PROVE Kept' /\ Knows(i)' /\ Fresh(i)'
    <3>1. Kept /\ Knows(i) /\ Fresh(i)
      BY <2>5 DEF UploadsInv
    <3>2. told = {}
      BY <2>1, <3>1 DEF Kept
    <3> QED BY <1>1, <1>3, <2>1, <2>3, <2>4, <3>1, <3>2 DEF Kept, Knows, Fresh, Has, Working
  <2> QED BY <1>1, <1>3, <2>3, <2>4, <2>5, TargetChanges DEF Working
<1>5. CASE Ingestion!Quarantine(i) /\ Ingestion!Held(i) /\ target # {}
  <2>1. target' = {} /\ Ingestion!Goes(i, "clear") /\ call[i].pc = "quarantine"
    BY <1>5 DEF Ingestion!Quarantine
  <2>2. ASSUME ~lapsed PROVE Kept' /\ Knows(i)' /\ Fresh(i)'
    <3>1. Kept /\ Knows(i) /\ Fresh(i)
      BY <2>2 DEF UploadsInv
    <3>2. told = {}
      BY <2>1, <3>1 DEF Kept, Knows, Fresh
    <3> QED BY <1>1, <1>3, <2>1, <3>1, <3>2 DEF Kept, Knows, Fresh, Working
  <2> QED BY <1>1, <1>3, <2>1, <2>2, TargetChanges DEF Working
<1>6. CASE Ingestion!Adopt(i) /\ Ingestion!Held(i) /\ target = {}
  <2> DEFINE new == [record |-> call[i].record, name |-> "pending", whole |-> TRUE, handed |-> FALSE]
  <2>1. target' = {new} /\ call' = [call EXCEPT ![i].pc = "hold", ![i].owns = TRUE]
    BY <1>6 DEF Ingestion!Adopt
  <2>2. new \in Stored /\ new.record = call[i].record /\ new.name = "pending" /\ ~new.handed
    BY <1>1 DEF Stored, Calls
  <2> HIDE DEF new
  <2>3. /\ call' \in [Ingests -> Calls] /\ \A j \in Ingests \ {i} : call'[j] = call[j]
        /\ call'[i].pc = "hold" /\ call'[i].record = call[i].record /\ call'[i].owns /\ Works(i)'
    BY <1>1, <2>1 DEF Calls, Works, Working
  <2>4. ASSUME ~lapsed PROVE Kept' /\ Knows(i)' /\ Fresh(i)'
    <3>1. told = {}
      BY <1>6, <2>4 DEF UploadsInv, Kept
    <3> QED BY <1>1, <2>1, <2>2, <2>3, <3>1 DEF Kept, Knows, Fresh, Has, Names
  <2> QED BY <1>1, <2>1, <2>2, <2>3, <2>4, TargetChanges
<1> QED BY <1>2, <1>4, <1>5, <1>6 DEF Ingestion!Promote, Ingestion!Publish, Ingestion!Quarantine,
       Ingestion!Adopt

LEMMA DamageKeeps ==
  ASSUME UploadsInv, Ingestion!Damage
  PROVE  UploadsInv'
<1>1. PICK t \in target :
        \/ target' = {[t EXCEPT !.whole = FALSE]}
        \/ t.name = "pending" /\ target' = {[t EXCEPT !.name = "none"]}
  BY DEF Ingestion!Damage
<1>2. UNCHANGED <<lock, holder, lapsed, call, told>>
  BY DEF Ingestion!Damage, Ingestion!Locks
<1>3. t \in Stored /\ target = {t}
  BY DEF UploadsInv, UploadsTyped
<1>4. PICK u \in Stored : /\ target' = {u} /\ u.record = t.record /\ u.handed = t.handed
                          /\ u.name = t.name \/ (t.name = "pending" /\ u.name = "none")
  <2>1. [t EXCEPT !.whole = FALSE] \in Stored /\ [t EXCEPT !.name = "none"] \in Stored
    BY <1>3 DEF Stored
  <2> QED BY <1>1, <1>3, <2>1 DEF Stored
<1>5. UploadsTyped' /\ Locked'
  BY <1>2, <1>4 DEF UploadsInv, UploadsTyped, Locked, Works
<1>6. ASSUME ~lapsed PROVE Kept' /\ \A i \in Ingests : Knows(i)' /\ Fresh(i)'
  <2>1. Kept'
    BY <1>2, <1>3, <1>4, <1>6 DEF UploadsInv, Kept
  <2>2. ASSUME NEW i \in Ingests PROVE Knows(i)' /\ Fresh(i)'
    <3>1. u.name \in Names
      BY DEF Stored, Names
    <3> QED BY <1>2, <1>3, <1>4, <1>6, <3>1 DEF UploadsInv, Knows, Fresh, Has, Works
  <2> QED BY <2>1, <2>2
<1> QED BY <1>2, <1>5, <1>6 DEF UploadsInv

(* Who leaves the uploads alone leaves them as they should be.             *)
LEMMA UploadsLeft ==
  ASSUME UploadsInv, UNCHANGED ingestionVars
  PROVE  UploadsInv'
<1>1. UploadsTyped' /\ Locked'
  BY DEF ingestionVars, UploadsInv, UploadsTyped, Locked, Works
<1>2. ~lapsed => Kept' /\ \A i \in Ingests : Knows(i)' /\ Fresh(i)'
  BY DEF ingestionVars, UploadsInv, Kept, Knows, Fresh, Has, Works
<1> QED BY <1>1, <1>2 DEF ingestionVars, UploadsInv

LEMMA UploadsNext ==
  ASSUME UploadsInv, Ingestion!Next
  PROVE  UploadsInv'
<1>1. ASSUME NEW i \in Ingests, Ingestion!Step(i)
      PROVE  UploadsInv'
  <2>1. CASE Ingestion!Release(i)
    BY <2>1, HandsOut, EndSteps DEF Ingestion!Release, Ingestion!Releasing
  <2> QED BY <1>1, <2>1, LockSteps, EndSteps, ReadingSteps, TargetSteps DEF Ingestion!Step
<1> QED BY <1>1, LockSteps, EndSteps, ReadingSteps, DamageKeeps DEF Ingestion!Next

-----------------------------------------------------------------------------
(* Both together                                                           *)

LEMMA BooksInvariant == BooksSpec => [](Inv /\ UploadsInv)
<1>1. BooksInit => Inv /\ UploadsInv
  BY InvInit, UploadsInit DEF BooksInit
<1>2. ASSUME Inv, UploadsInv, [BooksNext]_allVars
      PROVE  Inv' /\ UploadsInv'
  <2>1. CASE Next /\ UNCHANGED ingestionVars
    BY <1>2, <2>1, InvNext, UploadsLeft
  <2>2. CASE Ingestion!Next /\ UNCHANGED outputVars
    BY <1>2, <2>2, OutputsLeft, UploadsNext
  <2>3. CASE UNCHANGED allVars
    BY <1>2, <2>3, OutputsLeft, UploadsLeft DEF allVars, vars, outputVars
  <2> QED BY <1>2, <2>1, <2>2, <2>3 DEF BooksNext
<1> QED BY <1>1, <1>2, PTL DEF BooksSpec

(* What ingest returned stays the committed record of its book, whoever    *)
(* uploads it again, fails or dies, unless a lock was lost; a lock has one *)
(* holder (EpubIngestionAdapter.ingest, withBookLock).                     *)
THEOREM UploadsAreKept == BooksSpec => []UploadsKept
<1>1. UploadsInv => UploadsKept
  <2> SUFFICES ASSUME UploadsInv PROVE UploadsKept
    OBVIOUS
  <2>1. \A t, u \in target : t = u
    BY DEF UploadsInv, UploadsTyped
  <2>2. Ingestion!TypeOK
    BY <2>1 DEF UploadsInv, UploadsTyped, Locked, Stored, Ingestion!TypeOK, Ingestion!At
  <2>3. Ingestion!HandedIsStored
    BY DEF UploadsInv, Kept, Ingestion!HandedIsStored
  <2> QED BY <2>2, <2>3 DEF UploadsKept
<1> QED BY <1>1, BooksInvariant, PTL

(* The only stored copy of a user's EPUB leaves books/ only when the run   *)
(* that put it there rolls back, and never once it was handed out, unless  *)
(* a lock was lost; and an output only when the run that placed it rolls   *)
(* back (discardTarget, rollbackPlacedOutputs).                            *)
THEOREM FilesAlwaysStand == BooksSpec => FilesStand
<1> DEFINE Placed_ == \A f \in disk \ disk' : \E r \in Renders : At(r, "rollback") /\ f.by = Mine(r)
           Stays(t) == \E u \in target' : u.record = t.record /\ u.name = "committed"
           RollsBack(t) == ~t.handed /\ \E i \in Ingests : Ingestion!At(i, "quarantine") /\ call[i].owns
           Stored_ == ~lapsed' => \A t \in target : t.name = "committed" =>
                        \/ Stays(t)
                        \/ RollsBack(t)
<1>1. ASSUME Inv, [BooksNext]_allVars
      PROVE  [Placed_]_vars
  <2>1. CASE Next
    BY <1>1, <2>1, RemovedByOwner
  <2>2. CASE UNCHANGED outputVars
    BY <2>2 DEF outputVars
  <2>3. CASE UNCHANGED allVars
    BY <2>3 DEF allVars
  <2> QED BY <1>1, <2>1, <2>2, <2>3 DEF BooksNext
<1>2. ASSUME UploadsInv, [BooksNext]_allVars
      PROVE  [Stored_]_(Ingestion!vars)
  <2> SUFFICES ASSUME ~lapsed', NEW t \in target, t.name = "committed", ~Stays(t)
               PROVE  RollsBack(t)
    OBVIOUS
  <2>1. target' # target
    OBVIOUS
  <2>2. Ingestion!Next
    BY <1>2, <2>1 DEF BooksNext, allVars, ingestionVars
  <2>3. target = {t} /\ t \in Stored
    BY <1>2 DEF UploadsInv, UploadsTyped
  <2>4. ASSUME NEW u, u.record = t.record, u.name = "committed" PROVE target' # {u}
    BY <2>4
  <2>5. \A name : [t EXCEPT !.name = name].record = t.record /\ [t EXCEPT !.name = name].name = name
    BY <2>3 DEF Stored
  <2>6. ~Ingestion!Damage
    <3>1. [t EXCEPT !.whole = FALSE].record = t.record /\ [t EXCEPT !.whole = FALSE].name = "committed"
      BY <2>3 DEF Stored
    <3> QED BY <2>3, <2>4, <3>1 DEF Ingestion!Damage
  <2>7. \A i \in Ingests : ~Ingestion!Promote(i) /\ ~Ingestion!Publish(i) /\ ~Ingestion!Adopt(i)
    BY <2>1, <2>3 DEF Ingestion!Promote, Ingestion!Publish, Ingestion!Adopt, Ingestion!Holds
  <2>8. \A i \in Ingests : ~Ingestion!Release(i)
    <3> SUFFICES ASSUME NEW i \in Ingests, Ingestion!Release(i) PROVE FALSE
      OBVIOUS
    <3> DEFINE u == [t EXCEPT !.handed = @ \/ (t.record = call[i].record /\ t.name = "committed")]
    <3>1. target' = {u}
      BY <2>1, <2>3 DEF Ingestion!Release
    <3>2. u.record = t.record /\ u.name = "committed"
      BY <2>3 DEF Stored
    <3> HIDE DEF u
    <3> QED BY <2>4, <3>1, <3>2
  <2>9. PICK i \in Ingests : Ingestion!Quarantine(i)
    <3>1. \A i \in Ingests : Ingestion!Step(i) => Ingestion!Quarantine(i)
      BY <2>1, <2>7, <2>8 DEF Ingestion!Step, Ingestion!Acquire, Ingestion!AcquireBusy,
         Ingestion!ReleaseForced, Ingestion!OrphanEnds, Ingestion!Look, Ingestion!LookCommitted,
         Ingestion!LookPending, Ingestion!Verify, Ingestion!Prove, Ingestion!ProvePromoted,
         Ingestion!Discard, Ingestion!Inspect, Ingestion!Clear, Ingestion!Stage, Ingestion!Hold,
         Ingestion!Settle, Ingestion!Reads
    <3> QED BY <2>1, <2>2, <2>6, <3>1 DEF Ingestion!Next, Ingestion!Upload, Ingestion!AcquireFails,
           Ingestion!HolderWedges, Ingestion!HolderKilled, Ingestion!Crash, Ingestion!Throws
  <2>10. call[i].pc = "quarantine" /\ ~lapsed
    BY <2>9 DEF Ingestion!Quarantine, Ingestion!At, Ingestion!Locks
  <2>11. call[i].owns /\ ~t.handed
    BY <1>2, <2>10 DEF UploadsInv, Knows, Fresh
  <2> QED BY <2>10, <2>11 DEF Ingestion!At
<1>3. Inv /\ UploadsInv /\ [BooksNext]_allVars => [Placed_]_vars /\ [Stored_]_(Ingestion!vars)
  BY <1>1, <1>2
<1> QED BY <1>3, BooksInvariant, PTL
       DEF BooksSpec, FilesStand, OthersStand, Ingestion!CommittedStands
=============================================================================
