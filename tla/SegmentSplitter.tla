---------------------------- MODULE SegmentSplitter ----------------------------
(***************************************************************************)
(* How a directed segment too long for one take of speech is cut: at the   *)
(* last sentence end within the budget, else at a clause, else at a word.  *)
(* Whitespace left alone by a cut is given back to a neighbour.            *)
(*                                                                         *)
(* A text is a sequence of clusters of one code point each: "w" stands for *)
(* any letter, " " and "~" for two kinds of whitespace, "q" for a quote.   *)
(***************************************************************************)
EXTENDS Integers, SequencesExt

CONSTANTS
  MaxCharacters,  \* MAX_FRAGMENT_CHARACTERS
  Overshoot       \* SEPARATOR_OVERSHOOT

Space(c) == c \in {" ", "~"}

Blank(text) == \A i \in 1..Len(text) : Space(text[i])

Largest(S) == CHOOSE n \in S : \A k \in S : k <= n

Ceiling == MaxCharacters + Overshoot

\* The punctuation a boundary is judged by: closing quotes and whitespace are looked through
Trigger(text, end) ==
  LET marks == {k \in 1..end : ~Space(text[k]) /\ text[k] # "q"}
  IN IF marks = {} THEN "w" ELSE text[Largest(marks)]

AtWord(text, end) == Space(text[end]) \/ (end < Len(text) /\ Space(text[end + 1]))

\* classifyBoundary
Tier(text, end) ==
  LET trigger == Trigger(text, end)
  IN CASE ~AtWord(text, end) -> "none"
       [] trigger = "." -> "sentence"
       [] trigger = "," -> "clause"
       [] OTHER -> "word"

\* latestBoundary: 0 when there is none
LatestBoundary(text, from, maxEnd, tier) ==
  Largest({0} \cup {e \in (from + 1)..maxEnd : Tier(text, e) = tier})

\* Where the piece that starts after "from" ends; 0 when a word would be broken
Cut(text, from) ==
  IF Len(text) - from <= MaxCharacters THEN Len(text)
  ELSE FoldLeft(LAMBDA end, tier :
                  IF end # 0 THEN end
                  ELSE LatestBoundary(text, from, from + MaxCharacters, tier),
                0, <<"sentence", "clause", "word">>)

\* The loop of splitText: where the pieces end; the last is 0 when it threw
Ends(text) ==
  LET ends[from \in 0..Len(text)] ==
        LET end == Cut(text, from)
        IN IF end \in {0, Len(text)} THEN <<end>> ELSE <<end>> \o ends[end]
  IN ends[0]

Pieces(text, ends) ==
  [k \in 1..Len(ends) |-> SubSeq(text, IF k = 1 THEN 1 ELSE ends[k - 1] + 1, ends[k])]

Extend(pieces, separator) == Append(Front(pieces), Last(pieces) \o separator)

Fits(pieces, separator) == pieces # <<>> /\ Len(Last(pieces)) + Len(separator) <= Ceiling

\* Mutant: the whitespace that waits is not put before the piece it waited for
AttachDropping(piece, to) ==
  LET flushed == [to EXCEPT !.pieces = Append(@, piece), !.pending = <<>>]
      pending == [to EXCEPT !.pending = @ \o piece]
      attached == [to EXCEPT !.pieces = Extend(@, piece)]
  IN IF ~Blank(piece) THEN flushed ELSE IF Fits(to.pieces, piece) THEN attached ELSE pending

Attach(piece, to) ==
  LET pending == [to EXCEPT !.pending = @ \o piece]
      attached == [to EXCEPT !.pieces = Extend(@, piece)]
      flushed == [to EXCEPT !.pieces = Append(@, to.pending \o piece), !.pending = <<>>,
                            !.refused = @ \/ Len(to.pending \o piece) > Ceiling]
  IN IF ~Blank(piece) THEN flushed ELSE IF Fits(to.pieces, piece) THEN attached ELSE pending

\* Whitespace that waited to the end joins the last piece or is refused
Flushed(all) ==
  IF all.pending = <<>> THEN [refused |-> all.refused, pieces |-> all.pieces]
  ELSE IF Fits(all.pieces, all.pending)
  THEN [refused |-> all.refused, pieces |-> Extend(all.pieces, all.pending)]
  ELSE [refused |-> TRUE, pieces |-> <<>>]

\* attachOrphanSeparators
Attached(pieces) ==
  Flushed(FoldLeft(LAMBDA to, piece : Attach(piece, to),
                   [pieces |-> <<>>, pending |-> <<>>, refused |-> FALSE], pieces))

Divided(text, ends) ==
  IF Last(ends) = 0 THEN [refused |-> TRUE, pieces |-> <<>>] ELSE Attached(Pieces(text, ends))

\* splitText
Split(text) == Divided(text, Ends(text))

Refused(text) == Split(text).refused

-----------------------------------------------------------------------------

\* The runs of a text: longest word, longest whitespace
Longest(text, P(_)) ==
  Largest({0} \cup {n \in 1..Len(text) :
     \E i \in 0..(Len(text) - n) : \A j \in (i + 1)..(i + n) : P(text[j])})

\* The text but for the kinds of its whitespace
Spaced(text) == [i \in 1..Len(text) |-> IF text[i] = "~" THEN " " ELSE text[i]]

\* A run of whitespace longer than a piece: two of its pieces may change places
Wide(text) == Longest(text, Space) > MaxCharacters

PiecesSound(text, pieces) ==
  /\ Spaced(FlattenSeq(pieces)) = Spaced(text)
  /\ ~Wide(text) => FlattenSeq(pieces) = text
  /\ \A k \in 1..Len(pieces) : Len(pieces[k]) <= Ceiling /\ ~Blank(pieces[k])
  /\ \A k \in 1..(Len(pieces) - 1) : Space(Last(pieces[k])) \/ Space(pieces[k + 1][1])

(* The pieces of a text are the text, letter for letter when none of its   *)
(* runs of whitespace is longer than a piece, and else up to the order of  *)
(* the kinds of whitespace in such a run; each piece can be spoken, within *)
(* the ceiling, and no word is broken between two of them.                 *)
SplitSound(text) == ~Refused(text) => PiecesSound(text, Split(text).pieces)

(* A text is refused for a cause: it is blank, a word and the whitespace   *)
(* the pieces may absorb do not fit the budget, or a run of whitespace is  *)
(* longer than a piece may absorb.                                         *)
RefusedForCause(text) ==
  Refused(text) =>
    \/ Blank(text)
    \/ Longest(text, LAMBDA c : ~Space(c)) + Overshoot > MaxCharacters
    \/ Longest(text, Space) > Overshoot
=============================================================================
