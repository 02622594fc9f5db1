---------------------------- MODULE ExtractedText ----------------------------
(***************************************************************************)
(* How the body of an XHTML document of the EPUB becomes passages: which   *)
(* text is whose, which is no story, and which documents are refused.      *)
(*                                                                         *)
(* A document is its elements and texts in document order, numbered from   *)
(* 1, with their kinds and parents; the body is 0.  A "root" is what may   *)
(* become a passage (a paragraph, a heading, a division, a page break), a  *)
(* "note" is the reading or the bracket of a ruby, a "script" is script or *)
(* style, "inline" is any other element.  A text is words or blank.        *)
(***************************************************************************)
EXTENDS Naturals, Sequences, FiniteSets, SequencesExt

Body == 0

Texts(d) == {n \in DOMAIN d.kind : d.kind[n] \in {"words", "blank"}}

Elements(d) == DOMAIN d.kind \ Texts(d)

OfKind(d, kind) == {n \in DOMAIN d.kind : d.kind[n] = kind}

InOrder(S) == SetToSortSeq(S, <)

\* The proper ancestors of every node, without the body
AncestorsIn(parent) ==
  LET above[n \in DOMAIN parent] ==
        IF parent[n] = Body THEN {} ELSE {parent[n]} \cup above[parent[n]]
  IN above

Ancestors(d, n) == AncestorsIn(d.parent)[n]

Under(d, n, kind) == \E a \in Ancestors(d, n) : d.kind[a] = kind

\* The elements between an ancestor of a node and the node
Between(d, a, n) == {e \in Ancestors(d, n) : a \in Ancestors(d, e)}

Size(d) == Len(d.kind)

\* parseXml: the next node belongs to an element that is open, and two texts in a row are
\* one.  Rubies and notes are not inside another one, a script holds text.
Opens(d, kind, parent) ==
  /\ parent \in {Body, Size(d)} \cup (IF Size(d) = 0 THEN {} ELSE Ancestors(d, Size(d)))
  /\ parent # Body =>
       /\ d.kind[parent] \notin {"words", "blank", "image"}
       /\ kind \in {"ruby", "note"} => d.kind[parent] # kind /\ ~Under(d, parent, kind)
       /\ d.kind[parent] = "script" => kind \in {"words", "blank"}
  /\ kind \in {"words", "blank"} =>
       \A t \in Texts(d) : d.parent[t] = parent =>
         \E e \in Elements(d) : d.parent[e] = parent /\ e > t

DocumentsOf(kinds, size) ==
  LET grown[n \in 0..size] ==
        IF n = 0 THEN {[kind |-> << >>, parent |-> << >>]}
        ELSE {[kind |-> Append(g[1].kind, g[2]), parent |-> Append(g[1].parent, g[3])] :
                g \in {g \in grown[n - 1] \X kinds \X (0..(n - 1)) : Opens(g[1], g[2], g[3])}}
  IN UNION {grown[n] : n \in 1..size}

-----------------------------------------------------------------------------
(* The walk from a passage root                                            *)

IsBase(d, n) == d.parent[n] # Body /\ d.kind[d.parent[n]] = "ruby"

\* walk passes by roots, scripts and notes, but of a ruby's children by notes only
Enters(d, e) == d.kind[e] \notin IF IsBase(d, e) THEN {"note"} ELSE {"root", "script", "note"}

Visits(d, block, n) ==
  block \in Ancestors(d, n) /\ \A e \in Between(d, block, n) : Enters(d, e)

\* The texts a root takes for its own
Claimed(d, block) == {t \in Texts(d) : Visits(d, block, t)}

IsBlank(d, texts) == \A t \in texts : d.kind[t] = "blank"

Blocks(d) == OfKind(d, "root")

\* parentOwnedTextAndNestedRoot: this walk passes by in rubies too
Collects(d, block, n) ==
  /\ block \in Ancestors(d, n)
  /\ \A e \in Between(d, block, n) : d.kind[e] \notin {"root", "script", "note"}

\* validateNestedPassageOrder
Reorders(d) ==
  \E b \in Blocks(d) :
    /\ \E r \in Blocks(d) : Collects(d, b, r)
    /\ \E t \in OfKind(d, "words") : Collects(d, b, t)

\* What extractBlock puts in the ledger for one root: pairs of a text and its role
OwnEntries(d, block) ==
  {<<t, IF IsBlank(d, Claimed(d, block)) THEN "layout-whitespace" ELSE "source">> :
     t \in Claimed(d, block)}

MarkupEntries(d, block) ==
  {<<t, "non-story-markup">> :
     t \in {t \in Texts(d) : \E s \in OfKind(d, "script") :
              Visits(d, block, s) /\ ~IsBase(d, s) /\ s \in Ancestors(d, t)}}

\* A note is met at the ruby it is a child of
ReadingEntries(d, block) ==
  {<<t, "ruby-annotation">> :
     t \in {t \in Texts(d) : \E e \in OfKind(d, "note") :
              e \in Ancestors(d, t) /\ IsBase(d, e) /\ Visits(d, block, e)}}

Entries(d, block) == OwnEntries(d, block) \cup MarkupEntries(d, block) \cup ReadingEntries(d, block)

\* Texts no root put there
Unseen(d) ==
  {t \in Texts(d) : \A b \in Blocks(d) : \A entry \in Entries(d, b) : entry[1] # t}

\* captureSpecial
Unowned(d) == \E t \in Unseen(d) : ~Under(d, t, "script") /\ d.kind[t] = "words"

RestEntries(d) ==
  {<<t, IF Under(d, t, "script") THEN "non-story-markup" ELSE "layout-whitespace">> :
     t \in Unseen(d)}

\* Whose entry it is belongs to an entry: a text claimed twice is in the ledger twice
Ledger(d) ==
  UNION {{<<b, entry>> : entry \in Entries(d, b)} : b \in Blocks(d)}
    \cup {<<Body, entry>> : entry \in RestEntries(d)}

Extracted(d) == ~Reorders(d) /\ ~Unowned(d)

\* The passages, in the order their roots open
Passages(d) ==
  LET told == {b \in Blocks(d) : ~IsBlank(d, Claimed(d, b))}
  IN [i \in 1..Cardinality(told) |-> InOrder(Claimed(d, InOrder(told)[i]))]

-----------------------------------------------------------------------------
(* Images                                                                  *)

\* An image is captured in the walk of a root; the base of a ruby is walked past
Anchors(d, image) ==
  {b \in Blocks(d) : Visits(d, b, image) /\ ~IsBase(d, image)}

-----------------------------------------------------------------------------

\* The innermost root around a node, or the body
Owner(d, n) ==
  LET roots == {a \in Ancestors(d, n) : d.kind[a] = "root"}
  IN IF roots = {} THEN Body ELSE CHOOSE r \in roots : \A a \in roots : a <= r

Story(d, n) == ~Under(d, n, "script") /\ ~Under(d, n, "note")

\* XHTML's rule for rubies: phrases
Phrased(d) ==
  \A n \in OfKind(d, "root") \cup OfKind(d, "script") : ~IsBase(d, n) /\ ~Under(d, n, "note")

\* The role a text has by where it stands
RoleOf(d, t) ==
  IF Under(d, t, "script") THEN "non-story-markup"
  ELSE IF Under(d, t, "note") THEN "ruby-annotation"
  ELSE IF /\ Owner(d, t) # Body
          /\ \E u \in OfKind(d, "words") : Story(d, u) /\ Owner(d, u) = Owner(d, t)
       THEN "source" ELSE "layout-whitespace"

(* What is taken from a document whose rubies hold phrases is all of it:   *)
(* each text is in the ledger once, words in the role their place gives    *)
(* them, and the passages, one after the other, are the story's texts in   *)
(* their order.                                                            *)
NothingLost(d) ==
  Extracted(d) /\ Phrased(d) =>
    /\ \A t \in Texts(d) :
         /\ Cardinality({e \in Ledger(d) : e[2][1] = t}) = 1
         /\ d.kind[t] = "words" => \E e \in Ledger(d) : e[2] = <<t, RoleOf(d, t)>>
    /\ FlattenSeq(Passages(d)) = InOrder({t \in Texts(d) : RoleOf(d, t) = "source"})

(* Only what could not be read in order, or has no owner, is refused.      *)
RefusedForCause(d) ==
  ~Extracted(d) =>
    \/ \E b \in Blocks(d) : \E t, u \in OfKind(d, "words") \cup Blocks(d) :
         Owner(d, t) = b /\ Owner(d, u) = b /\ d.kind[t] = "words" /\ d.kind[u] = "root"
    \/ \E t \in OfKind(d, "words") :
         ~Under(d, t, "script") /\ (Owner(d, t) = Body \/ Under(d, t, "note"))

(* An image stands in the passage whose root it is in; one that is itself  *)
(* the base of a ruby stands outside.                                      *)
ImagesPlaced(d) ==
  \A image \in OfKind(d, "image") :
    Story(d, image) /\ Phrased(d) =>
      Anchors(d, image) = IF IsBase(d, image) THEN {} ELSE {Owner(d, image)} \ {Body}
=============================================================================
