---------------------------- MODULE AudioAssembly ----------------------------
(***************************************************************************)
(* One call of FfmpegAudioAssembler.assemble: the rendered segments of a   *)
(* book become chapter masters and one audiobook, in a staging directory.  *)
(* Every FFmpeg run is a step: it reads its inputs in the order given, and *)
(* may fail or be stopped.                                                 *)
(*                                                                         *)
(* Audio is the sequence of what is heard: segments and the silence behind *)
(* each.  Time is in samples, Rate of them a millisecond.                  *)
(***************************************************************************)
EXTENDS Integers, SequencesExt

CONSTANTS
  Rendered,     \* what a segment may be: its samples and its directed pause
  MaxChapters, MaxSegments,
  Rate,
  MinPause, MaxPause, TailPause,   \* in milliseconds
  MaxInputs,    \* maxInputsPerPass
  MaxDrift      \* MAX_TOTAL_DURATION_DRIFT_MS

VARIABLES
  book,      \* each chapter's segments
  request,   \* what the caller hands over, each segment by chapter and order
  parts,     \* staged: the passes of each chapter
  masters,   \* staged: the chapter masters
  markers,   \* start and end of each chapter
  audiobook, \* staged: the m4b and its length in milliseconds, as probed
  stopped,
  pc,
  answer

vars == <<book, request, parts, masters, markers, audiobook, stopped, pc, answer>>

Chapters == 1..Len(book)

InOrder(b) == [c \in 1..Len(b) |-> [i \in 1..Len(b[c]) |-> <<c, i>>]]

\* The caller may have lost a segment, or have two of them in the wrong order
Handed(b) ==
  LET r == InOrder(b)
  IN {r} \cup {[r EXCEPT ![c] = Front(@)] : c \in 1..Len(b)}
         \cup {[r EXCEPT ![c] = Reverse(@)] : c \in 1..Len(b)}

Segmented == UNION {[1..n -> Rendered] : n \in 1..MaxSegments}

NoAudiobook == [audio |-> <<>>, length |-> 0]

Init ==
  /\ book \in UNION {[1..n -> Segmented] : n \in 1..MaxChapters}
  /\ request \in Handed(book)
  /\ parts = [c \in Chapters |-> <<>>] /\ masters = <<>> /\ markers = <<>>
  /\ audiobook = NoAudiobook /\ stopped = FALSE /\ pc = "planning" /\ answer = "none"

-----------------------------------------------------------------------------
(* The plan                                                                *)

\* Mutant: the directed order of what was handed over is all that is checked
PlannedByOrder == \A c \in Chapters : \A i \in 1..Len(request[c]) : request[c][i] = <<c, i>>

\* Every segment of every chapter of the book, each where the book has it
Planned == request = InOrder(book)

Max2(a, b) == IF a > b THEN a ELSE b

Min2(a, b) == IF a < b THEN a ELSE b

\* resolveSegmentPauseMs
SegmentPause(s) == IF s.pause = 0 THEN 0 ELSE Min2(Max2(s.pause, MinPause), MaxPause)

Pad(c, i) ==
  IF i = Len(book[c]) THEN Max2(SegmentPause(book[c][i]), TailPause) ELSE SegmentPause(book[c][i])

\* What is heard of a segment
Heard(c, i) == [segment |-> <<c, i>>, samples |-> book[c][i].samples + Rate * Pad(c, i)]

Samples(audio) == FoldSeq(LAMBDA h, n : h.samples + n, 0, audio)

\* Math.round of a length in milliseconds
Rounded(samples) == (2 * samples + Rate) \div (2 * Rate)

-----------------------------------------------------------------------------

Goes(to) == pc' = to /\ UNCHANGED <<book, request, stopped, answer>>

\* The staging directory is removed whatever happened
Ends(result) ==
  /\ pc' = "settled" /\ answer' = result
  /\ parts' = [c \in Chapters |-> <<>>] /\ masters' = <<>>

\* A command fails or was stopped, a file is missing, a check refuses
Fails ==
  /\ Ends("failed")
  /\ UNCHANGED <<book, request, markers, audiobook, stopped>>

Plan ==
  /\ pc = "planning"
  /\ IF Planned /\ ~stopped THEN Goes("concatenating") /\ UNCHANGED <<parts, masters, markers, audiobook>>
     ELSE Fails

\* The chapter under way, and how much of it is in its parts
Chapter == Len(masters) + 1

Joined(c) == FlattenSeq(parts[c])

Raw == {c \in Chapters : Len(Joined(c)) = Len(request[c])}

\* buildRawChapter: passes of MaxInputs segments, one FFmpeg run each
ConcatPass ==
  LET c == CHOOSE c \in Chapters \ Raw : \A d \in Chapters \ Raw : c <= d
      from == Len(Joined(c))
  IN
  /\ pc = "concatenating" /\ Raw # Chapters
  /\ parts' = [parts EXCEPT ![c] = Append(@,
                 [k \in 1..Min2(MaxInputs, Len(request[c]) - from) |-> Heard(c, from + k)])]
  /\ Goes("concatenating") /\ UNCHANGED <<masters, markers, audiobook>>

\* One loudness measurement over all chapters: it fails without a usable report
Measure ==
  /\ pc = "concatenating" /\ Raw = Chapters
  /\ Goes("mastering") /\ UNCHANGED <<parts, masters, markers, audiobook>>

\* The master is probed, and its marker follows the one before
Master ==
  LET start == IF markers = <<>> THEN 0 ELSE Last(markers).end
  IN
  /\ pc = "mastering" /\ Chapter \in Chapters
  /\ masters' = Append(masters, Joined(Chapter))
  /\ markers' = Append(markers, [start |-> start, end |-> start + Rounded(Samples(Joined(Chapter)))])
  /\ Goes("mastering") /\ UNCHANGED <<parts, audiobook>>

\* FFmpeg may stop short and exit cleanly
Export ==
  /\ pc = "mastering" /\ Chapter \notin Chapters
  /\ \E audio \in {FlattenSeq(masters), FlattenSeq(Front(masters))} :
       audiobook' = [audio |-> audio, length |-> Rounded(Samples(audio))]
  /\ Goes("checking") /\ UNCHANGED <<parts, masters, markers>>

\* assertAudiobook: the stream's own length against the last marker
LengthHolds ==
  audiobook.length - Last(markers).end \in (-MaxDrift)..MaxDrift

Check ==
  /\ pc = "checking"
  /\ IF LengthHolds THEN Goes("claiming") /\ UNCHANGED <<parts, masters, markers, audiobook>> ELSE Fails

\* The claims are in OutputReservation; a stop is looked for before each
Claim ==
  /\ pc = "claiming"
  /\ \/ Fails
     \/ /\ ~stopped /\ Ends("exported")
        /\ UNCHANGED <<book, request, markers, audiobook, stopped>>

\* A run that is stopped rejects when its process has gone
StepFails ==
  /\ pc \in {"concatenating", "mastering", "checking"}
  /\ Fails

Stop ==
  /\ pc # "settled" /\ ~stopped
  /\ stopped' = TRUE
  /\ UNCHANGED <<book, request, parts, masters, markers, audiobook, pc, answer>>

Work == Plan \/ (~stopped /\ (ConcatPass \/ Measure \/ Master \/ Export \/ Check)) \/ Claim

Next == Work \/ StepFails \/ Stop

\* FFmpeg runs end
Fairness == WF_vars(Work \/ StepFails)

Spec == Init /\ [][Next]_vars /\ Fairness

-----------------------------------------------------------------------------

TypeOK ==
  /\ \A c \in Chapters : Len(parts[c]) <= Len(book[c])
  /\ Len(masters) <= Len(book) /\ Len(markers) <= Len(book)
  /\ pc \in {"planning", "concatenating", "mastering", "checking", "claiming", "settled"}
  /\ (answer # "none") <=> pc = "settled"
  /\ pc = "settled" => masters = <<>> /\ \A c \in Chapters : parts[c] = <<>>

\* The pause behind a segment as the director and the listener have it
DirectedPause(c, i) ==
  LET directed == book[c][i].pause
  IN CASE i = Len(book[c]) -> Max2(TailPause, Min2(directed, MaxPause))
       [] i < Len(book[c]) /\ directed = 0 -> 0
       [] OTHER -> Max2(MinPause, Min2(directed, MaxPause))

(* An audiobook that is exported is heard as it was directed: every segment*)
(* of every chapter once, in the book's order, with the directed silence,  *)
(* however many passes a chapter took and whatever was handed over.        *)
HeardAsDirected ==
  answer = "exported" =>
    /\ Len(audiobook.audio) = FoldSeq(LAMBDA ch, n : Len(ch) + n, 0, book)
    /\ \A c \in Chapters, i \in 1..MaxSegments : i <= Len(book[c]) =>
         LET before == FoldSeq(LAMBDA ch, n : Len(ch) + n, 0, SubSeq(book, 1, c - 1))
         IN audiobook.audio[before + i] =
              [segment |-> <<c, i>>, samples |-> book[c][i].samples + Rate * DirectedPause(c, i)]

(* The chapter markers of an export follow one another without a gap, and  *)
(* each is at most half a millisecond a chapter from where its chapter is  *)
(* heard.                                                                  *)
MarkersFit ==
  answer = "exported" =>
    /\ Len(markers) = Len(book) /\ markers[1].start = 0
    /\ \A c \in 1..(Len(book) - 1) : markers[c].end = markers[c + 1].start
    /\ \A c \in Chapters :
         LET heard == Samples(SelectSeq(audiobook.audio, LAMBDA h : h.segment[1] <= c))
         IN 2 * (Rate * markers[c].end - heard) \in (-(c * Rate))..(c * Rate)

(* The call settles: stopped or not, and whatever FFmpeg makes of it.      *)
Settles == <>(answer # "none")
=============================================================================
