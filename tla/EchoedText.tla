------------------------------ MODULE EchoedText ------------------------------
(***************************************************************************)
(* From the model's reply to the segments of a chapter: the text a model   *)
(* echoes is mended where that is harmless, compared with the source, cut  *)
(* into what can be spoken and matched with the passages once more.        *)
(*                                                                         *)
(* "~" is the no-break space, which models echo as " ".                    *)
(***************************************************************************)
EXTENDS SegmentSplitter

CONSTANTS
  Chapters,  \* the passages' texts
  MaxCuts,   \* a bound: how often the model cuts one passage
  TailCap    \* NARRATION_TAIL_COMPLETION_MAX_CODE_UNITS

VARIABLES
  by,        \* "local" or "cloud": who directs
  passages,
  said,      \* the reply
  segments,  \* what it has become
  pc

vars == <<by, passages, said, segments, pc>>

Passages == 1..Len(passages)

Echo(reply, p) ==
  FlattenSeq([k \in 1..Len(reply) |-> IF reply[k].passage = p THEN reply[k].text ELSE <<>>])

Of(reply, p) == {k \in 1..Len(reply) : reply[k].passage = p}

\* A stretch of the echo; "ours" is said of what no model returned
Segment(p, text, ours) == [passage |-> p, text |-> text, ours |-> ours]

-----------------------------------------------------------------------------
(* What a model may make of the passages it was given                      *)

Prefixes_(text) == {SubSeq(text, 1, n) : n \in 1..Len(text)}

Garbled(text) ==
  {[text EXCEPT ![i] = c] : i \in 1..Len(text), c \in {"w", "~"}} \cup {text \o <<"w">>}

Echoes(text) == Prefixes_(text) \cup {Spaced(e) : e \in Prefixes_(text)} \cup Garbled(text)

\* A text cut at "ends"
CutAt(p, text, ends) ==
  LET at == SetToSortSeq(ends \cup {0, Len(text)}, LAMBDA a, b : a < b)
  IN [k \in 1..(Len(at) - 1) |-> Segment(p, SubSeq(text, at[k] + 1, at[k + 1]), FALSE)]

Echoed(p, text) ==
  LET Cuts(e) == {ends \in SUBSET (1..(Len(e) - 1)) : Cardinality(ends) <= MaxCuts}
  IN UNION {{CutAt(p, e, ends) : ends \in Cuts(e)} : e \in Echoes(text)}

\* One after the other, the wrong way round, or one inside the other
Replies ==
  IF Len(passages) = 1 THEN Echoed(1, passages[1])
  ELSE UNION {{a \o b, b \o a, <<a[1]>> \o b \o Tail(a)} :
                a \in Echoed(1, passages[1]), b \in Echoed(2, passages[2])}

-----------------------------------------------------------------------------
(* Repairs                                                                 *)

\* repairMechanicalSourceEcho: a passage every difference of which is " " for "~"
Restorable(reply, p) ==
  LET echo == Echo(reply, p)
      text == passages[p]
  IN /\ Len(echo) = Len(text) /\ echo # text
     /\ \A i \in 1..Len(text) : echo[i] = text[i] \/ (text[i] = "~" /\ echo[i] = " ")

Restored(reply) ==
  [k \in 1..Len(reply) |->
     IF Restorable(reply, reply[k].passage)
     THEN LET before == Len(Echo(SubSeq(reply, 1, k - 1), reply[k].passage))
          IN [reply[k] EXCEPT !.text =
                SubSeq(passages[reply[k].passage], before + 1, before + Len(reply[k].text))]
     ELSE reply[k]]

Joined(text, S) == FlattenSeq([j \in 1..Len(S) |-> text[S[j]]])

\* Mutant: those that wait are put before the next one by one
MergeOneReversed(reply, to, k) ==
  LET p == reply[k].passage
      target == to.target[p]
      waiting == to.waiting[p]
      behind == to.text[target] \o to.text[k]
      ahead == Joined(to.text, Reverse(waiting)) \o to.text[k]
  IN IF Blank(reply[k].text)
     THEN IF waiting = <<>> /\ target # 0 /\ ~Refused(behind)
          THEN [to EXCEPT !.text[target] = behind, !.text[k] = <<>>]
          ELSE [to EXCEPT !.waiting[p] = Append(@, k)]
     ELSE [to EXCEPT !.target[p] = k, !.waiting[p] = <<>>,
            !.text = IF waiting = <<>> \/ Refused(ahead) THEN @
                     ELSE [j \in 1..Len(reply) |->
                             IF j = k THEN ahead
                             ELSE IF j \in ToSet(waiting) THEN <<>> ELSE @[j]]]

\* One segment on: blank ones go to the last that is not, or wait for the next
MergeOne(reply, to, k) ==
  LET p == reply[k].passage
      target == to.target[p]
      waiting == to.waiting[p]
      behind == to.text[target] \o to.text[k]
      ahead == Joined(to.text, waiting) \o to.text[k]
  IN IF Blank(reply[k].text)
     THEN IF waiting = <<>> /\ target # 0 /\ ~Refused(behind)
          THEN [to EXCEPT !.text[target] = behind, !.text[k] = <<>>]
          ELSE [to EXCEPT !.waiting[p] = Append(@, k)]
     ELSE [to EXCEPT !.target[p] = k, !.waiting[p] = <<>>,
            !.text = IF waiting = <<>> \/ Refused(ahead) THEN @
                     ELSE [j \in 1..Len(reply) |->
                             IF j = k THEN ahead
                             ELSE IF j \in ToSet(waiting) THEN <<>> ELSE @[j]]]

\* mergeWhitespaceOnlySegments
Merged(reply) ==
  LET all == FoldLeft(LAMBDA to, k : MergeOne(reply, to, k),
                [text |-> [k \in 1..Len(reply) |-> reply[k].text],
                 target |-> [p \in Passages |-> 0], waiting |-> [p \in Passages |-> <<>>]],
                [k \in 1..Len(reply) |-> k])
  IN SelectSeq([k \in 1..Len(reply) |-> [reply[k] EXCEPT !.text = all.text[k]]],
               LAMBDA s : s.text # <<>>)

Missing(reply, p) == SubSeq(passages[p], Len(Echo(reply, p)) + 1, Len(passages[p]))

\* A short end of the passage is missing, and nobody speaks in it
Completable(reply, p) ==
  LET echo == Echo(reply, p)
  IN /\ echo # <<>> /\ Len(echo) < Len(passages[p]) /\ IsPrefix(echo, passages[p])
     /\ Len(Missing(reply, p)) <= TailCap
     /\ \A i \in 1..Len(Missing(reply, p)) : Missing(reply, p)[i] # "q"

Attachable(segment, tail) == ~Blank(segment.text) /\ ~Refused(segment.text \o tail)

\* The completion behind the last segment of the passage: whitespace joins it, text is narrated
CompletedBy(reply, k) ==
  LET p == reply[k].passage
      tail == Missing(reply, p)
  IN IF ~Completable(reply, p) \/ k # Largest(Of(reply, p)) THEN <<reply[k]>>
     ELSE IF ~Blank(tail) THEN <<reply[k], Segment(p, tail, TRUE)>>
     ELSE IF Attachable(reply[k], tail) THEN <<[reply[k] EXCEPT !.text = @ \o tail]>>
     ELSE <<reply[k]>>

\* repairNarrationTailCompletion
Completed(reply) ==
  LET merged == Merged(reply)
  IN FlattenSeq([k \in 1..Len(merged) |-> CompletedBy(merged, k)])

-----------------------------------------------------------------------------

Init ==
  /\ by \in {"local", "cloud"} /\ passages \in Chapters
  /\ said = <<>> /\ segments = <<>> /\ pc = "asked"

Becomes(to) == pc' = to /\ UNCHANGED <<by, passages, said>>

Answer ==
  /\ pc = "asked"
  /\ said' \in Replies /\ segments' = said' /\ pc' = "replied"
  /\ UNCHANGED <<by, passages>>

\* Only the cloud director's replies are completed
Mend ==
  /\ pc = "replied"
  /\ segments' = (IF by = "local" THEN Restored(said) ELSE Completed(Restored(said)))
  /\ Becomes("mended")

\* analyzeFidelity: each passage's text, and no passage behind a later one
Faithful(reply) ==
  /\ \A p \in Passages : Echo(reply, p) = passages[p]
  /\ \A k \in 2..Len(reply) : reply[k - 1].passage <= reply[k].passage

Validate ==
  /\ pc = "mended"
  /\ Becomes(IF Faithful(segments) THEN "validated" ELSE "rejected")
  /\ UNCHANGED segments

\* splitDirectedSegments
Divide ==
  LET split == [k \in 1..Len(segments) |-> Split(segments[k].text)]
      Fragments(k) ==
        [j \in 1..Len(split[k].pieces) |-> [segments[k] EXCEPT !.text = split[k].pieces[j]]]
  IN
  /\ pc = "validated"
  /\ IF \E k \in 1..Len(segments) : split[k].refused
     THEN Becomes("unsplittable") /\ UNCHANGED segments
     ELSE /\ segments' = FlattenSeq([k \in 1..Len(segments) |-> Fragments(k)])
          /\ Becomes("divided")

\* groupExactFragments: the fragments of one passage after the other, and none left over
Covers(fragments) ==
  LET run(p) == SelectSeq(fragments, LAMBDA s : s.passage = p)
  IN /\ FlattenSeq([p \in Passages |-> run(p)]) = fragments
     /\ \A p \in Passages : run(p) # <<>> /\ Echo(run(p), p) = passages[p]

Cover ==
  /\ pc = "divided"
  /\ Becomes(IF Covers(segments) THEN "covered" ELSE "uncovered")
  /\ UNCHANGED segments

Next == Answer \/ Mend \/ Validate \/ Divide \/ Cover

-----------------------------------------------------------------------------

TypeOK ==
  /\ \A k \in 1..Len(segments) : segments[k].passage \in Passages /\ segments[k].text # <<>>
  /\ pc \in {"asked", "replied", "mended", "validated", "rejected", "divided", "unsplittable",
             "covered", "uncovered"}

(* A reply that was accepted is refused by the source coverage, once it is *)
(* divided, only when a run of whitespace in a passage is longer than a    *)
(* piece, so that two pieces of it could change places; else what is saved *)
(* is the source, in pieces that can be spoken.                            *)
AcceptedIsCovered ==
  /\ pc = "uncovered" => \E p \in Passages : Wide(passages[p])
  /\ pc = "covered" => \A k \in 1..Len(segments) :
       ~Blank(segments[k].text) /\ Len(segments[k].text) <= Ceiling

(* No repair makes a segment the splitter refuses: such a chapter would    *)
(* fail when its direction has succeeded and can no longer be retried.     *)
MendedSplits ==
  pc = "unsplittable" =>
    \E k \in 1..Len(segments), j \in 1..Len(said) :
      Refused(segments[k].text) /\ Spaced(segments[k].text) = Spaced(said[j].text)

(* What is accepted is what the model said, no-break spaces apart, but for *)
(* a short end of a passage in which nobody speaks; and that only from the *)
(* cloud.                                                                  *)
NothingPutInMouths ==
  pc \in {"validated", "divided", "covered"} => \A p \in Passages :
    LET echo == Echo(said, p)
        missing == SubSeq(passages[p], Len(echo) + 1, Len(passages[p]))
    IN /\ Spaced(echo) = Spaced(SubSeq(passages[p], 1, Len(echo)))
       /\ Len(missing) <= (IF by = "cloud" THEN TailCap ELSE 0)
       /\ \A i \in 1..Len(missing) : missing[i] # "q"

(* A reply that is faithful is accepted, whatever the repairs make of it.  *)
FaithfulIsAccepted == Faithful(said) => pc # "rejected"
=============================================================================
