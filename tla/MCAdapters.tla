------------------------------ MODULE MCAdapters ------------------------------
(***************************************************************************)
(* The direction of a job, and the calls the application makes of its      *)
(* model and media adapters, one run for all of them: a behaviour is one   *)
(* job's direction or one call of one adapter, and "part" says which; the  *)
(* variables of the others stay as they are.  Each chapter of the job has  *)
(* a line that may be warned of, and all jobs are of one book.             *)
(***************************************************************************)
EXTENDS AdapterCalls, TLC

CONSTANTS Parts, s1, s2, x, y, w1, j1, b1

DerivedBook == [id \in JobIds |-> b1]

OneLineEach == 1..NumChapters

VARIABLE part

LocalBudgets == [chars |-> 32, count |-> 16]

CloudBudgets == [chars |-> 8, count |-> 2]

\* Between two batches one segment's text may change
EditedScripts == {[k \in {s1, s2} |-> x], [k \in {s1, s2} |-> IF k = s1 THEN y ELSE x]}

Installed ==
  [config |-> "locked", worker |-> 1, lists |-> 1, packages |-> 1, model |-> "locked"]

\* Another worker, other packages with and without a manifest of them, a damaged model, an
\* edited configuration
Upgrades ==
  {[Installed EXCEPT !.worker = 2], [Installed EXCEPT !.lists = 2, !.packages = 2],
   [Installed EXCEPT !.packages = 2], [Installed EXCEPT !.model = "other"],
   [Installed EXCEPT !.config = "edited"]}

Installable == {Installed} \cup Upgrades

VARIABLES aBook, aRequest, aParts, aMasters, aMarkers, aAudiobook, aStopped, aPc, aAnswer

Assembly == INSTANCE AudioAssembly WITH
  Rendered <- {[samples |-> 5, pause |-> 0], [samples |-> 6, pause |-> 3], [samples |-> 7, pause |-> 9]},
  MaxChapters <- 2, MaxSegments <- 3, Rate <- 4, MinPause <- 1, MaxPause <- 5, TailPause <- 4,
  MaxInputs <- 2, MaxDrift <- 2,
  book <- aBook, request <- aRequest, parts <- aParts, masters <- aMasters, markers <- aMarkers,
  audiobook <- aAudiobook, stopped <- aStopped, pc <- aPc, answer <- aAnswer

VARIABLE text

Splitter == INSTANCE SegmentSplitter WITH MaxCharacters <- 3, Overshoot <- 1

TextsOf(letters, n) == {t \in UNION {[1..k -> letters] : k \in 1..n} : ~Splitter!Blank(t)}

\* Chapters of one passage, and of two
OneOrTwo ==
  {<<t>> : t \in TextsOf({"w", " ", "~", "q"}, 3) \cup TextsOf({"w", " ", "~"}, 4)
                 \cup TextsOf({"w", " "}, 5)}
    \cup {<<t, <<"~", "w">>>> : t \in TextsOf({"w", " ", "~", "q"}, 2)}

VARIABLES eBy, ePassages, eSaid, eSegments, ePc

Echo == INSTANCE EchoedText WITH
  MaxCharacters <- 3, Overshoot <- 1, MaxCuts <- 5, TailCap <- 2, Chapters <- OneOrTwo,
  by <- eBy, passages <- ePassages, said <- eSaid, segments <- eSegments, pc <- ePc

\* Runs of whitespace as long as a piece and longer, of two kinds, and chapters of them
WideTexts ==
  {head \o spaces \o rest :
     head \in {<<"w", "w", ".">>, <<"w", ".">>, <<"w", "w">>},
     spaces \in UNION {[1..k -> {" ", "~"}] : k \in 3..5},
     rest \in UNION {[1..k -> {"w", ",", " "}] : k \in 1..4}}

WideChapter(n) ==
  {<<<<"w", "w", ".">> \o [i \in 1..n |-> IF i = n THEN "~" ELSE " "] \o <<",", " ", "w", "w">>>>}

Roomy == INSTANCE EchoedText WITH
  MaxCharacters <- 3, Overshoot <- 2, MaxCuts <- 1, TailCap <- 2, Chapters <- WideChapter(3) \cup WideChapter(4),
  by <- eBy, passages <- ePassages, said <- eSaid, segments <- eSegments, pc <- ePc

VARIABLES document, container, publication

Epub == INSTANCE EpubPackage

Page == [kind |-> <<"root", "words">>, parent |-> <<0, 1>>]

Plate == [kind |-> <<"image">>, parent |-> <<0>>]

\* Every document of three nodes, and longer ones of fewer kinds
Documents ==
  Epub!DocumentsOf({"root", "inline", "ruby", "note", "script", "image", "words"}, 3)
    \cup Epub!DocumentsOf({"root", "inline", "script", "words", "blank"}, 4)
    \cup {d \in Epub!DocumentsOf({"root", "ruby", "note", "words"}, 5) :
            Epub!Size(d) = 5 /\ d.kind[1] = "root"}

UpTo(S, n) == UNION {[1..k -> S] : k \in 0..n}

Limits == [entries |-> 3, entry |-> 4, total |-> 6, ratio |-> 2]

\* Archives of up to three entries, sound, deceitful and swollen, and one with too many
Archives ==
  LET Name(letters, upper) == [letters |-> letters, upper |-> upper]
      Entry(name, size, packed) ==
        [name |-> name, local |-> name, kind |-> "file", size |-> size, packed |-> packed,
         holds |-> [size |-> size, sound |-> TRUE]]
      plain == Entry(Name("b", FALSE), 1, 0)
      odd == {[plain EXCEPT !.kind = "link"], [plain EXCEPT !.local = Name("a", FALSE)],
              [plain EXCEPT !.holds.size = 9], [plain EXCEPT !.holds.sound = FALSE],
              Entry(Name("b", FALSE), 5, 5)}
      fair == {Entry(name, size, packed) :
                 name \in {Name("a", FALSE), Name("a", TRUE), Name("b", FALSE)},
                 size \in {1, 3}, packed \in {0, 2}}
      more == [k \in 1..4 |-> [plain EXCEPT !.name = Name(k, FALSE), !.local = Name(k, FALSE)]]
  IN UpTo(odd \cup fair, 3) \cup {more}

\* Two titles of every sort, and three that are refined in order
Titles ==
  LET Title(value, id, types, seqs) ==
        [value |-> value, id |-> id, types |-> types, seqs |-> seqs]
      Sorts(value, types, seqs) ==
        {Title(value, id, t, q) : id \in {"none", "i", value}, t \in types, q \in seqs}
      wild(value) ==
        Sorts(value, {<< >>, <<"main">>, <<"main", "main">>}, {<< >>, <<0>>, <<1>>, <<2>>, <<1, 2>>})
      tame(value) == {t \in Sorts(value, {<< >>, <<"main">>}, {<< >>, <<1>>, <<2>>}) : t.id = value}
  IN {<< >>} \cup {<<t>> : t \in wild("v")} \cup (wild("v") \X wild("w"))
       \cup (tame("v") \X tame("w") \X tame("u"))

Png == [parts |-> <<"png", "IHDR", "IDAT", "IEND">>, claims |-> 4]

Jpeg == [parts |-> <<"SOI", "frame", "SOS", "EOI">>, claims |-> 4]

\* What may follow the signatures of the four kinds
Pictures ==
  {[parts |-> <<"png">> \o rest, claims |-> 4] :
     rest \in UpTo({"IHDR", "IDAT", "IEND", "other", "torn"}, 4)}
    \cup {[parts |-> <<"SOI">> \o rest, claims |-> 4] :
            rest \in UpTo({"frame", "SOS", "bytes", "EOI", "other"}, 5)}
    \cup {[parts |-> <<"gif">> \o rest, claims |-> 4] :
            rest \in UpTo({"image", "trailer", "other", "torn"}, 3)}
    \cup {[parts |-> <<"riff">> \o rest, claims |-> claims] :
            rest \in UpTo({"VP8X", "frame", "other", "torn"}, 3), claims \in 1..5}

File(good, picture, d, links) ==
  [good |-> good, picture |-> picture, document |-> d, links |-> links]

NoPicture == [parts |-> << >>, claims |-> 0]

Junk == File({}, NoPicture, Page, << >>)

Doc(d) == File({"document"}, NoPicture, d, << >>)

Manifest(id, media, nav, cover) ==
  [id |-> id, path |-> id, media |-> media, nav |-> nav, cover |-> cover]

On(ids) == [i \in DOMAIN ids |-> [id |-> ids[i], linear |-> TRUE]]

\* Publications with one, two or no tables of contents, true, false and unreadable
Guided ==
  {[version3 |-> version3,
    manifest |-> <<Manifest("a", "xhtml", FALSE, FALSE), Manifest("b", "xhtml", FALSE, FALSE),
                   Manifest("t", "xhtml", nav, FALSE), Manifest("x", "ncx", FALSE, FALSE)>>,
    spine |-> On(spine), toc |-> toc, legacyCovers |-> << >>,
    files |-> "a" :> Doc(Page) @@ "b" :> Doc(Plate) @@ "t" :> contents @@ "x" :> ncx] :
     version3 \in BOOLEAN, nav \in BOOLEAN,
     spine \in {<<"a", "b">>, <<"b", "t", "a">>, <<"a", "b", "a">>},
     toc \in {"none", "x", "gone"},
     contents \in {Junk} \cup {File({"document", "contents"}, NoPicture, Page, l) : l \in UpTo({"a", "b"}, 3)},
     ncx \in {Junk} \cup {File({"contents"}, NoPicture, Page, l) : l \in UpTo({"a", "b"}, 2)}}

\* Publications of a small document and another
Told ==
  LET files == {Doc(d) : d \in Epub!DocumentsOf({"root", "image", "words"}, 3)}
  IN {[version3 |-> TRUE,
       manifest |-> <<Manifest("a", "xhtml", FALSE, FALSE), Manifest("b", "xhtml", FALSE, FALSE)>>,
       spine |-> <<[id |-> "a", linear |-> linear], [id |-> "b", linear |-> TRUE]>>,
       toc |-> "none", legacyCovers |-> << >>, files |-> "a" :> first @@ "b" :> second] :
        linear \in BOOLEAN, first \in files, second \in {Doc(Page), Doc(Plate), Junk}}

\* Publications that name covers in the new way, the old way, both ways and wrongly
Covered ==
  LET Pictured(picture) == File({}, picture, Page, << >>)
  IN {[version3 |-> TRUE,
       manifest |-> <<Manifest("a", "xhtml", FALSE, FALSE), Manifest("c", "png", FALSE, new),
                      Manifest(id, media, FALSE, other)>>,
       spine |-> On(spine), toc |-> "none", legacyCovers |-> old,
       files |-> "a" :> Doc(Page) @@ "c" :> first @@ second] :
        new \in BOOLEAN, other \in BOOLEAN, id \in {"k", "c"}, media \in {"png", "svg"},
        spine \in {<< >>, <<"a">>, <<"c">>, <<"gone">>}, old \in UpTo({"c", "k", "gone"}, 2),
        first \in {Pictured(Png), Pictured([Png EXCEPT !.parts[3] = "torn"])},
        second \in {"k" :> Pictured(Png), "k" :> Pictured(Jpeg), "o" :> Junk}}

assemblyVars ==
  <<aBook, aRequest, aParts, aMasters, aMarkers, aAudiobook, aStopped, aPc, aAnswer>>

echoVars == <<text, document, container, publication, eBy, ePassages, eSaid, eSegments, ePc>>

callVars == <<adapterVars, assemblyVars, echoVars>>

allVars == <<part, vars, callVars>>

-----------------------------------------------------------------------------

\* An adapter nobody calls keeps one of its initial states
MCInit ==
  /\ part \in Parts
  /\ Init
  /\ Local!Init /\ (part # "local" => lSize = <<1>>)
  /\ Cloud!Init /\ (part # "cloud" => cSize = <<1>>)
  /\ Speech!Init /\ sInstalled = Installed
  /\ Assembly!Init
  /\ part # "assembly" =>
       aBook = <<<<[samples |-> 5, pause |-> 0]>>>> /\ aRequest = Assembly!InOrder(aBook)
  /\ IF part = "runs" THEN Roomy!Init
     ELSE Echo!Init /\ (part # "echo" => ePassages = <<<<"w">>>> /\ eBy = "local")
  /\ IF part = "text" THEN text \in TextsOf({"w", " ", ".", ","}, 6) \cup WideTexts ELSE text = <<"w">>
  /\ IF part = "document" THEN document \in Documents ELSE document = Page
  /\ CASE part = "archive" -> container \in Archives
       [] part = "titles" -> container \in Titles
       [] part = "picture" -> container \in Pictures
       [] OTHER -> container = << >>
  /\ publication \in IF part = "package" THEN Guided \cup Told \cup Covered
                     ELSE {CHOOSE p \in Guided : p.spine = On(<<"a", "b">>)}

Local_(A) ==
  part = "local" /\ A /\ UNCHANGED <<part, vars, cloudVars, speechVars, assemblyVars, echoVars>>

Cloud_(A) ==
  part = "cloud" /\ A /\ UNCHANGED <<part, vars, localVars, speechVars, assemblyVars, echoVars>>

\* One toolchain speaks two segments, and several one segment that stays as it is
Speech_(A) ==
  /\ part \in {"speech", "upgrade"} /\ A
  /\ part = "speech" => sInstalled' = sInstalled /\ sFaults' <= 1
  /\ part = "upgrade" => sBatch'.segment # s2 /\ sReturned'[s2] = Speech!None
                          /\ sBatch'.wanted[s1] # y
  /\ UNCHANGED <<part, vars, localVars, cloudVars, assemblyVars, echoVars>>

Assembly_(A) ==
  part = "assembly" /\ A /\ UNCHANGED <<part, vars, adapterVars, echoVars>>

Echo_(A) ==
  A /\ UNCHANGED <<part, vars, adapterVars, assemblyVars, text, document, container, publication>>

MCNext ==
  \/ part = "direction" /\ Next /\ UNCHANGED <<part, callVars>>
  \/ Local_(Local!Next)
  \/ Cloud_(Cloud!Next)
  \/ Speech_(Speech!Next)
  \/ Assembly_(Assembly!Next)
  \/ part = "echo" /\ Echo_(Echo!Next)
  \/ part = "runs" /\ Echo_(Roomy!Next)

MCSpec ==
  /\ MCInit /\ [][MCNext]_allVars
  /\ WF_vars(part = "direction" /\ Operate(w1)) /\ WF_vars(part = "direction" /\ Restart(w1))
  /\ \A c \in Digests : SF_vars(part = "direction" /\ Load(w1, j1, c))
  /\ WF_allVars(Local_(Local!Own)) /\ WF_allVars(Local_(Local!Expire))
  /\ WF_allVars(Cloud_(Cloud!Own)) /\ WF_allVars(Cloud_(Cloud!Expire))
  /\ WF_allVars(Speech_(Speech!Own))
  /\ \A k \in Speech!WorkerIds : WF_allVars(Speech_(Speech!Killed(k)))
  /\ WF_allVars(Assembly_(Assembly!Work \/ Assembly!StepFails))

-----------------------------------------------------------------------------

(* Nothing is lost or changed on its way from an EPUB to an audiobook.  An *)
(* archive has one file for a name, in any order, the title and the cover  *)
(* are what they say, and all of a publication that is taken is in its     *)
(* book or among the exclusions; it is refused for a cause only, and what  *)
(* is doubtful in it is reported.                                          *)
(* The pieces a segment is cut into break no word and are its text, up to  *)
(* the order of the whitespace in a run that is longer than a piece.  A    *)
(* reply that was accepted is covered by its pieces, unless it has such a  *)
(* run; a faithful one is accepted, and no repair adds speech or a segment *)
(* that cannot be spoken.                                                  *)
(* An audiobook that is exported is heard as it was directed, with its     *)
(* markers where its chapters begin, and nothing staged outlives it.       *)
BookStands ==
  /\ part = "document" =>
       /\ Epub!NothingLost(document)
       /\ Epub!RefusedForCause(document)
       /\ Epub!ImagesPlaced(document)
  /\ part = "archive" => Epub!ArchiveHonest(container, Limits)
  /\ part = "titles" => Epub!TitleHonest(container)
  /\ part = "picture" => Epub!PictureHonest(container)
  /\ part = "package" =>
       /\ Epub!AllAccounted(publication)
       /\ Epub!NavigationHonest(publication)
       /\ Epub!CoverHonest(publication)
       /\ Epub!PicturesReviewed(publication)
  /\ part = "text" =>
       /\ Splitter!SplitSound(text) /\ Splitter!RefusedForCause(text)
       /\ Roomy!SplitSound(text) /\ Roomy!RefusedForCause(text)
  /\ IF part = "runs" THEN Roomy!AcceptedIsCovered /\ Roomy!MendedSplits
     ELSE Echo!AcceptedIsCovered /\ Echo!MendedSplits
  /\ Echo!TypeOK /\ Echo!NothingPutInMouths /\ Echo!FaithfulIsAccepted
  /\ Assembly!TypeOK /\ Assembly!HeardAsDirected /\ Assembly!MarkersFit

Unsettled ==
  \/ part = "direction" /\ rows[j1] # NoRow /\ rows[j1].state # "awaiting_review"
  \/ part = "local" /\ lAnswer = "none"
  \/ part = "cloud" /\ cAnswer = "none"
  \/ part \in {"speech", "upgrade"} /\ sAborted /\ sBatch.pc # "idle"
  \/ part = "assembly" /\ aAnswer = "none"

(* A call settles, and a cancelled speech batch ends, though the model,    *)
(* the provider or the worker never answers; and a job that was begun gets *)
(* to review once its faults are over (EventuallyReviewed).                *)
EveryCallSettles == Unsettled ~> ~Unsettled
=============================================================================
