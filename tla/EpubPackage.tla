----------------------------- MODULE EpubPackage -----------------------------
(***************************************************************************)
(* From an EPUB's package to the book the application stores: which        *)
(* publications are refused, which are taken with a finding, and what      *)
(* becomes a chapter.  The spine alone decides the order; the tables of    *)
(* contents of EPUB 3 and of EPUB 2 are compared with it.                  *)
(*                                                                         *)
(* A publication is its version, its manifest's items (an ID, a file, a    *)
(* media type, has it the properties "nav" and "cover-image"), the IDs of  *)
(* its spine with linear="no" or not, the spine's toc ID, the cover IDs of *)
(* its old-style metadata, and the files: what each is good for.  A file   *)
(* may be good for being a document or contents (a table of them), and is  *)
(* a picture as its parts say.  Wording is left out, and so are the hints  *)
(* that ask for review because of the text's wording.                      *)
(*                                                                         *)
(* Before the package there is the archive it comes in; its titles and its *)
(* pictures are judged by themselves.                                      *)
(***************************************************************************)
EXTENDS ExtractedText

None == "none"

-----------------------------------------------------------------------------
(* The archive: the entries of the central directory.  An entry has a name *)
(* (its letters, and their case), a kind ("file", or one of those that are *)
(* not supported), the sizes it claims, the name its local header gives,   *)
(* and what it holds: how much, and whether its CRC is right.              *)

Folded(name) == name.letters

ClaimedUpTo(archive, i) == MapThenSumSet(LAMBDA k : archive[k].size, 1..i)

\* Mutant: two names that differ in their case are two names
EntryRefusedExactly(archive, i, limits) ==
  LET e == archive[i]
  IN \/ e.kind # "file" \/ e.local # e.name
     \/ e.size > limits.entry \/ e.size > limits.ratio * (IF e.packed = 0 THEN 1 ELSE e.packed)
     \/ ClaimedUpTo(archive, i) > limits.total
     \/ \E j \in 1..(i - 1) : archive[j].name = e.name

EntryRefused(archive, i, limits) ==
  LET e == archive[i]
  IN \/ e.kind # "file" \/ e.local # e.name
     \/ e.size > limits.entry \/ e.size > limits.ratio * (IF e.packed = 0 THEN 1 ELSE e.packed)
     \/ ClaimedUpTo(archive, i) > limits.total
     \/ \E j \in 1..(i - 1) : Folded(archive[j].name) = Folded(e.name)

\* inspectCentralDirectory
DirectoryRefused(archive, limits) ==
  \/ Len(archive) > limits.entries
  \/ \E i \in DOMAIN archive : EntryRefused(archive, i, limits)

\* unzipEpubSafely: what comes out is what the directory claims
ArchiveRefused(archive, limits) ==
  \/ DirectoryRefused(archive, limits)
  \/ \E i \in DOMAIN archive : archive[i].holds # [size |-> archive[i].size, sound |-> TRUE]

Unzipped(archive) == {[name |-> archive[i].name, holds |-> archive[i].holds] : i \in DOMAIN archive}

-----------------------------------------------------------------------------
(* Titles: a value, an ID or None, and the values of the refinements that  *)
(* name the ID                                                             *)

TitlesRefused(titles) ==
  \/ \E i, j \in DOMAIN titles : i # j /\ titles[i].id = titles[j].id /\ titles[i].id # None
  \/ \E t \in ToSet(titles) :
       t.id # None /\ (Len(t.types) > 1 \/ Len(t.seqs) > 1 \/ Head(t.seqs \o <<1>>) < 1)

Refined(t, values) == IF t.id = None THEN << >> ELSE values

IsMain(t) == Refined(t, t.types) = <<"main">>

DisplaySeq(t) == Refined(t, t.seqs)

\* The main title, else the first one to be displayed, else the first one
ChosenTitle(titles) ==
  LET main == SelectSeq(titles, IsMain)
      shown == SelectSeq(titles, LAMBDA t : DisplaySeq(t) # << >>)
      lowest == SelectSeq(shown, LAMBDA t : \A u \in ToSet(shown) : DisplaySeq(t)[1] <= DisplaySeq(u)[1])
  IN Head(main \o lowest \o titles \o <<[value |-> None]>>).value

-----------------------------------------------------------------------------
(* Pictures: the parts of a container, and how many of them its header     *)
(* claims (RIFF).  A part that is cut short or fails a check of its own (a *)
(* CRC, its fields, its dimensions) is "torn".  A reader goes from part to *)
(* part, and to "no" where it throws.                                      *)

PngAfter(at, part) ==
  CASE at = "start" /\ part = "png" -> "signed"
    [] at = "signed" /\ part = "IHDR" -> "header"
    [] at \in {"header", "pixels"} /\ part = "IDAT" -> "pixels"
    [] at \in {"header", "pixels"} /\ part = "other" -> at
    [] at = "pixels" /\ part = "IEND" -> "whole"
    [] OTHER -> "no"

\* "bytes" is what is no marker, a stuffed byte or a restart: the rest of a scan
JpegAfter(at, part) ==
  CASE at = "start" /\ part = "SOI" -> "open"
    [] at \in {"open", "framed"} /\ part = "frame" -> "framed"
    [] at \in {"scan", "scanned"} /\ part \in {"frame", "other"} -> "scanned"
    [] at \in {"open", "framed"} /\ part = "other" -> at
    [] at \in {"framed", "scan", "scanned"} /\ part = "SOS" -> "scan"
    [] at = "scan" /\ part = "bytes" -> at
    [] at \in {"scan", "scanned"} /\ part = "EOI" -> "whole"
    [] OTHER -> "no"

GifAfter(at, part) ==
  CASE at = "start" /\ part = "gif" -> "open"
    [] at \in {"open", "pixels"} /\ part = "other" -> at
    [] at \in {"open", "pixels"} /\ part = "image" -> "pixels"
    [] at = "pixels" /\ part = "trailer" -> "whole"
    [] OTHER -> "no"

\* There is no last part: the claim of the header stands for it
WebpAfter(at, part) ==
  CASE at = "start" /\ part = "riff" -> "open"
    [] at \in {"open", "whole"} /\ part \in {"VP8X", "other"} -> at
    [] at \in {"open", "whole"} /\ part = "frame" -> "whole"
    [] OTHER -> "no"

Media == {"png", "jpeg", "gif", "webp"}

\* Mutant: the claim of a RIFF header is not looked at
WholePictureUnclaimed(media, picture) ==
  CASE media = "png" -> FoldLeft(PngAfter, "start", picture.parts) = "whole"
    [] media = "jpeg" -> FoldLeft(JpegAfter, "start", picture.parts) = "whole"
    [] media = "gif" -> FoldLeft(GifAfter, "start", picture.parts) = "whole"
    [] media = "webp" -> FoldLeft(WebpAfter, "start", picture.parts) = "whole"
    [] OTHER -> FALSE

\* validateRasterCover
WholePicture(media, picture) ==
  CASE media = "png" -> FoldLeft(PngAfter, "start", picture.parts) = "whole"
    [] media = "jpeg" -> FoldLeft(JpegAfter, "start", picture.parts) = "whole"
    [] media = "gif" -> FoldLeft(GifAfter, "start", picture.parts) = "whole"
    [] media = "webp" -> /\ picture.claims = Len(picture.parts)
                         /\ FoldLeft(WebpAfter, "start", picture.parts) = "whole"
    [] OTHER -> FALSE

-----------------------------------------------------------------------------
(* The package                                                             *)

\* The manifest is a sequence, its IDs do not repeat in what is not refused
Item(p, id) == p.manifest[CHOOSE i \in DOMAIN p.manifest : p.manifest[i].id = id]

Ids(p) == {p.manifest[i].id : i \in DOMAIN p.manifest}

HasFile(p, path) == path \in DOMAIN p.files

SpineItem(p, i) == Item(p, p.spine[i].id)

SpinePaths(p) == [i \in DOMAIN p.spine |-> SpineItem(p, i).path]

\* The document of a spine position, once the publication is not refused
Document(p, i) == p.files[SpineItem(p, i).path].document

-----------------------------------------------------------------------------
(* The cover                                                               *)

CoverItems(p) ==
  {item \in ToSet(p.manifest) : item.cover \/ item.id \in ToSet(p.legacyCovers)}

CoverRefused(p) ==
  \/ ~(ToSet(p.legacyCovers) \subseteq Ids(p))
  \/ Cardinality(CoverItems(p)) > 1
  \/ \E item \in CoverItems(p) : ~HasFile(p, item.path)

\* coverRejection: no raster image, or a damaged one
Unusable(p, item) == ~WholePicture(item.media, p.files[item.path].picture)

Cover(p) == {item.path : item \in {item \in CoverItems(p) : ~Unusable(p, item)}}

-----------------------------------------------------------------------------
(* Tables of contents                                                      *)

Malformed == [status |-> "malformed", paths |-> << >>]

Missing == [status |-> "missing", paths |-> << >>]

\* What a table of contents in a file says
Read(p, path) ==
  IF HasFile(p, path) /\ "contents" \in p.files[path].good
  THEN [status |-> "valid", paths |-> p.files[path].links] ELSE Malformed

Epub3(p) ==
  LET navItems == SelectSeq(p.manifest, LAMBDA item : item.nav)
  IN CASE navItems = << >> ->
            IF p.version3 THEN Missing ELSE [status |-> "not-applicable", paths |-> << >>]
       [] Len(navItems) = 1 -> Read(p, navItems[1].path)
       [] OTHER -> Malformed

Ncx(p) ==
  IF p.toc = None THEN Missing
  ELSE IF p.toc \notin Ids(p) THEN Malformed ELSE Read(p, Item(p, p.toc).path)

\* sourceConflictsWithSpine: the links into the spine are not the spine, without what no
\* link names
Conflicts(p, source) ==
  /\ source.status = "valid"
  /\ SelectSeq(source.paths, LAMBDA path : path \in ToSet(SpinePaths(p)))
       # SelectSeq(SpinePaths(p), LAMBDA path : path \in ToSet(source.paths))

-----------------------------------------------------------------------------
(* The spine                                                               *)

SpineRefused(p) ==
  \/ p.spine = << >>
  \/ \E i \in DOMAIN p.spine :
       \/ p.spine[i].id \notin Ids(p)
       \/ SpineItem(p, i).media # "xhtml"
       \/ ~HasFile(p, SpineItem(p, i).path)
       \/ "document" \notin p.files[SpineItem(p, i).path].good
       \/ ~Extracted(Document(p, i))

Refused(p) ==
  \/ Cardinality(Ids(p)) < Len(p.manifest)
  \/ SpineRefused(p)
  \/ CoverRefused(p)

Loose(d) == {image \in OfKind(d, "image") : Anchors(d, image) = {}}

\* What marks a document of the spine as requires-review
Doubtful(p, i) ==
  LET d == Document(p, i)
  IN \/ SpineItem(p, i).nav
     \/ ~p.spine[i].linear
     \/ Loose(d) # {}
     \/ OfKind(d, "image") # {} /\ Passages(d) = << >>

\* A finding is about the publication, or about a position of the spine
Whole == 0

Findings(p) ==
  {<<kind, Whole>> : kind \in
     {k \in {"unusable-cover"} : \E item \in CoverItems(p) : Unusable(p, item)}
       \cup {k \in {"missing-epub3-navigation"} : Epub3(p).status = "missing"}
       \cup {k \in {"malformed-epub3-navigation"} : Epub3(p).status = "malformed"}
       \cup {k \in {"malformed-ncx-navigation"} : Ncx(p).status = "malformed"}
       \cup {k \in {"missing-navigation"} :
              Epub3(p).status = "not-applicable" /\ Ncx(p).status = "missing"}
       \cup {k \in {"navigation-spine-conflict"} :
              Conflicts(p, Epub3(p)) \/ Conflicts(p, Ncx(p))}}
    \cup {<<"image-outside-passage-root", i>> :
            i \in {i \in DOMAIN p.spine : Loose(Document(p, i)) # {}}}
    \cup {<<"ambiguous-spine-content", i>> : i \in {i \in DOMAIN p.spine : Doubtful(p, i)}}

-----------------------------------------------------------------------------
(* mapExtraction                                                           *)

\* Chapters are numbered apart from the spine: a document without passages becomes none
Chapters(p) ==
  LET told == SelectSeq([i \in DOMAIN p.spine |-> i],
                        LAMBDA i : Passages(Document(p, i)) # << >>)
  IN [n \in DOMAIN told |-> [spine |-> told[n], passages |-> Passages(Document(p, told[n]))]]

NonStory(p) == {i \in DOMAIN p.spine : Passages(Document(p, i)) = << >>}

\* The texts kept out of the book, each with the role that says why
Exclusions(p) ==
  {x \in UNION {{<<i, entry[2]>> : entry \in Ledger(Document(p, i))} : i \in DOMAIN p.spine} :
     x[2][2] # "source"}

-----------------------------------------------------------------------------

Reordered(s) == {[i \in DOMAIN s |-> s[order[i]]] : order \in Permutations(DOMAIN s)}

(* An archive that is taken gives out no more than the limits allow, has   *)
(* one file for a name, on disks that tell cases apart and on those that   *)
(* do not, and is taken, with the same files, whatever the order of its    *)
(* entries.                                                                *)
ArchiveHonest(archive, limits) ==
  ~ArchiveRefused(archive, limits) =>
    /\ MapThenSumSet(LAMBDA f : f.holds.size, Unzipped(archive)) <= limits.total
    /\ Cardinality({Folded(f.name) : f \in Unzipped(archive)}) = Len(archive)
    /\ \A other \in Reordered(archive) :
         ~ArchiveRefused(other, limits) /\ Unzipped(other) = Unzipped(archive)

(* The title of the book is one of its titles, and as long as they say     *)
(* what is to be done with them, no accident of their order.               *)
TitleHonest(titles) ==
  ~TitlesRefused(titles) /\ titles # << >> =>
    LET main == {i \in DOMAIN titles : IsMain(titles[i])}
        shown == {i \in DOMAIN titles : DisplaySeq(titles[i]) # << >>}
    IN /\ ChosenTitle(titles) \in {t.value : t \in ToSet(titles)}
       /\ \/ Cardinality(main) = 1
          \/ /\ main = {} /\ shown # {}
             /\ \A i, j \in shown : DisplaySeq(titles[i]) = DisplaySeq(titles[j]) => i = j
          => \A other \in Reordered(titles) : ChosenTitle(other) = ChosenTitle(titles)

(* A picture that is taken has pixels, after what gives their dimensions;  *)
(* it is a picture of no other kind, and no longer one when its end is     *)
(* missing, when anything follows it, or when a part of it is torn.        *)
PictureHonest(picture) ==
  \A media \in {m \in Media : WholePicture(m, picture)} :
    LET parts == picture.parts
        With(others) == WholePicture(media, [picture EXCEPT !.parts = others])
    IN /\ \E j \in DOMAIN parts : parts[j] \in {"IDAT", "SOS", "image", "frame"}
       /\ media \in {"png", "jpeg"} =>
            \E i, j \in DOMAIN parts :
              i < j /\ parts[i] \in {"IHDR", "frame"} /\ parts[j] \in {"IDAT", "SOS"}
       /\ \A m \in Media \ {media} : ~WholePicture(m, picture)
       /\ \A n \in 1..(Len(parts) - 1) : ~With(SubSeq(parts, 1, n))
       /\ \A part \in ToSet(parts) \cup {"other", "torn"} : ~With(Append(parts, part))
       /\ \A i \in DOMAIN parts : ~With([parts EXCEPT ![i] = "torn"])

Position(p, path) == CHOOSE i \in DOMAIN p.spine : SpinePaths(p)[i] = path

Linked(p, source) ==
  LET into == SelectSeq(source.paths, LAMBDA path : path \in ToSet(SpinePaths(p)))
  IN [k \in DOMAIN into |-> Position(p, into[k])]

Rises(positions) == \A j, k \in DOMAIN positions : j < k => positions[j] < positions[k]

Falls(positions) == \E j, k \in DOMAIN positions : j < k /\ positions[j] > positions[k]

(* Every text of a publication that is taken is in the book or among the   *)
(* exclusions, and the book's chapters are the spine's documents that      *)
(* tell something, in the spine's order.                                   *)
AllAccounted(p) ==
  ~Refused(p) /\ (\A i \in DOMAIN p.spine : Phrased(Document(p, i))) =>
    /\ \A i \in DOMAIN p.spine : \A t \in Texts(Document(p, i)) :
         \/ \E e \in Exclusions(p) : e[1] = i /\ e[2][1] = t
         \/ \E c \in ToSet(Chapters(p)) : c.spine = i /\ t \in ToSet(FlattenSeq(c.passages))
    /\ Rises([n \in DOMAIN Chapters(p) |-> Chapters(p)[n].spine])
    /\ \A i \in NonStory(p) : \A t \in OfKind(Document(p, i), "words") :
         RoleOf(Document(p, i), t) # "source"

(* A table of contents that is out of the spine's order is found, one that *)
(* lists documents of the spine once each and in order is not, and a       *)
(* publication nobody can navigate is never taken in silence.              *)
NavigationHonest(p) ==
  ~Refused(p) /\ IsInjective(SpinePaths(p)) =>
    LET conflict == <<"navigation-spine-conflict", Whole>> \in Findings(p)
        sources == {s \in {Epub3(p), Ncx(p)} : s.status = "valid"}
    IN /\ (\E s \in sources : Falls(Linked(p, s))) => conflict
       /\ (\A s \in sources : Rises(Linked(p, s))) => ~conflict
       /\ sources = {} =>
            \E finding \in Findings(p) :
              finding[1] \in {"missing-epub3-navigation", "malformed-epub3-navigation",
                              "malformed-ncx-navigation", "missing-navigation"}

(* A cover that was asked for is stored, or a finding says why it is not,  *)
(* and no picture is taken that the package did not name.                  *)
CoverHonest(p) ==
  ~Refused(p) =>
    /\ CoverItems(p) # {} => (Cover(p) = {} <=> <<"unusable-cover", Whole>> \in Findings(p))
    /\ Cardinality(Cover(p)) <= 1

(* An image that is in no passage is never dropped in silence: its         *)
(* document is marked for review.                                          *)
PicturesReviewed(p) ==
  ~Refused(p) =>
    \A i \in DOMAIN p.spine : \A image \in OfKind(Document(p, i), "image") :
      \/ \E c \in ToSet(Chapters(p)) : c.spine = i /\ Anchors(Document(p, i), image) # {}
      \/ <<"ambiguous-spine-content", i>> \in Findings(p)
=============================================================================
