-------------------------------- MODULE MCHost --------------------------------
(***************************************************************************)
(* Processes on one host.  Two that share the GPU: one directs and then    *)
(* renders, the other directs.  Two benchmark commands for one experiment, *)
(* started with the same plan or another; a request is answered well, or   *)
(* fails on memory while it is not measured.  And what the scorer says of  *)
(* a corpus and of three runs over it.  A behaviour is one of these.       *)
(***************************************************************************)
EXTENDS Host, Sequences, TLC

CONSTANTS h1, h2, g1, g2, q1, q2, c1, c2, p1, p2

MCHostOf == (g1 :> h1) @@ (q1 :> h1) @@ (g2 :> h2)
MCHostOfBatches == (g1 :> h1) @@ (q1 :> h1) @@ (q2 :> h2)

VARIABLE evaluation

Answers ==
  {[response |-> "valid", oom |-> FALSE, complete |-> TRUE],
   [response |-> "transport", oom |-> FALSE, complete |-> TRUE],
   [response |-> "http", oom |-> TRUE, complete |-> FALSE]}

Interchangeable == Permutations({c1, c2}) \cup Permutations({p1, p2})

-----------------------------------------------------------------------------
(* Small corpora, and runs over one of them                                *)

\* Of the six exact dialogue outputs three may be wrong, if a human is asked about two of them
Scorer == INSTANCE CorpusScorer WITH
  RequiredCriteria <- {"dialogue", "alias"},
  SpeakerPercent <- 50, KindPercent <- 80, RecallPercent <- 60, AgreementPercent <- 60

Passage(ref, text) == [ref |-> ref, text |-> text, hashed |-> TRUE]

Source(passages) ==
  [passages |-> passages, redistribution |-> "committed_allowed", origin |-> "project_synthetic"]

Corpus(cases) == [cases |-> cases, source |-> TRUE, storage |-> "committed_synthetic"]

Case(id, ref, start, end, criteria) ==
  [id |-> id, ref |-> ref, start |-> start, end |-> end, criteria |-> criteria]

GoldOf(id, kind, status, accepted, evidence) ==
  [id |-> id, kind |-> kind, status |-> status, accepted |-> accepted, evidence |-> evidence]

Annotations(cases) == [cases |-> cases, source |-> TRUE, corpus |-> TRUE]

TwoPassages == Source(<<Passage("p", <<"a", "b">>), Passage("q", <<"a">>)>>)

ThreeCases ==
  <<Case("k1", "p", 0, 1, {"dialogue", "alias", "repeated_text", "source_reference"}),
    Case("k2", "p", 1, 2, {"dialogue"}),
    Case("k3", "q", 0, 1, {"dialogue", "ambiguous_speaker", "structurally_ambiguous"})>>

ThreeGolds ==
  <<GoldOf("k1", "dialogue", "exact", {"ann"}, "alias"),
    GoldOf("k2", "dialogue", "exact", {"ben"}, "explicit"),
    GoldOf("k3", "dialogue", "ambiguous", {}, "ambiguous")>>

Governed == [source |-> TwoPassages, corpus |-> Corpus(ThreeCases),
             annotations |-> Annotations(ThreeGolds), runs |-> << >>]

Predict(c, kind, speaker, review) ==
  [ref |-> c.ref, start |-> c.start, end |-> c.end, status |-> "predicted",
   text |-> Scorer!CaseText(TwoPassages, c), kind |-> kind, speaker |-> speaker, review |-> review]

Refuse(c) == [Predict(c, "none", "none", TRUE) EXCEPT !.status = "refused", !.text = << >>]

AnswersTo(c) ==
  {Predict(c, kind, speaker, review) :
     kind \in {"dialogue", "thought"}, speaker \in {"ann", "ben"}, review \in BOOLEAN}
    \cup {Refuse(c)}

Right ==
  <<Predict(ThreeCases[1], "dialogue", "ann", FALSE), Predict(ThreeCases[2], "dialogue", "ben", FALSE),
    Predict(ThreeCases[3], "dialogue", "ann", TRUE)>>

RunOf(index, predictions) ==
  [conformant |-> TRUE, index |-> index, identity |-> TRUE, configuration |-> "c",
   predictions |-> predictions, exceeded |-> {}]

\* One run answers as it likes, another departs from the right answers in its first
Answered ==
  LET Three == {<<x, y, z>> : x \in AnswersTo(ThreeCases[1]), y \in AnswersTo(ThreeCases[2]),
                              z \in AnswersTo(ThreeCases[3])}
      Once == {[Right EXCEPT ![1] = x] :
                 x \in {Right[1], Predict(ThreeCases[1], "dialogue", "ben", FALSE), Refuse(ThreeCases[1])}}
  IN {<<RunOf(1, first), RunOf(2, second), RunOf(3, Right)>> : first \in Three, second \in Once}

\* The predictions of a run mixed up
Mixed ==
  {<<Right[1], Right[2]>>, <<Right[2], Right[1], Right[3]>>, <<Right[3], Right[1], Right[2]>>,
   <<Right[1], Right[1], Right[2], Right[3]>>, Right \o <<Right[3]>>,
   [Right EXCEPT ![1].text = <<"b">>], [Right EXCEPT ![3].ref = "r"], Append(Right, [Right[3] EXCEPT !.ref = "r"]),
   [Right EXCEPT ![1].end = 2], <<[Right[1] EXCEPT !.end = 2, !.text = <<"a", "b">>], Right[3]>>}

\* The documents of the runs mixed up
Documented ==
  LET good(i) == RunOf(i, Right)
      variants(i) ==
        {good(i), [good(i) EXCEPT !.conformant = FALSE], [good(i) EXCEPT !.identity = FALSE],
         [good(i) EXCEPT !.configuration = "d"], [good(i) EXCEPT !.exceeded = {"vram"}]}
          \cup {RunOf(i, p) : p \in Mixed}
      middle == {good(1), good(2), [good(2) EXCEPT !.exceeded = {"outcome"}], [good(2) EXCEPT !.conformant = FALSE]}
  IN {<<x, y, z>> : x \in variants(1) \cup {good(2)}, y \in middle, z \in variants(3)}
       \cup {<<good(1), good(2), good(3), x>> : x \in variants(3)}
       \cup {<<x, y>> : x \in variants(1), y \in middle} \cup {<< >>}

Evaluated == {[Governed EXCEPT !.runs = runs] : runs \in Answered \cup Documented}

\* Cases of every span, up to three over a passage of three characters
Spans == (0..3) \X (1..3)

Ids == <<"k1", "k2", "k3">>

Divided ==
  LET cases(spans) ==
        [i \in DOMAIN spans |-> Case(Ids[i], "p", spans[i][1], spans[i][2], {"dialogue", "alias"})]
      golds(n) == [i \in 1..n |-> GoldOf(Ids[i], "dialogue", "exact", {"ann"}, "alias")]
  IN {[source |-> Source(<<Passage("p", <<"a", "b", "c">>)>>), corpus |-> Corpus(cases(spans)),
       annotations |-> Annotations(golds(Len(spans))), runs |-> << >>] :
         spans \in UNION {[1..n -> Spans] : n \in 1..3}}

\* The governed corpus with its parts exchanged
Exchanged ==
  {[Governed EXCEPT !.corpus.cases[k].criteria = criteria] :
     k \in 1..3, criteria \in SUBSET {"dialogue", "alias", "narration", "repeated_text", "source_reference"}}
    \cup {[Governed EXCEPT !.annotations.cases[k] = gold] :
            k \in 1..3, gold \in {GoldOf(id, kind, x[1], x[2], x[3]) :
              id \in {"k1", "k2", "k4"}, kind \in {"dialogue", "narration", "thought"},
              x \in {<<"exact", {"ann"}, "alias">>, <<"exact", {"ann"}, "coreference">>,
                     <<"ambiguous", {}, "ambiguous">>, <<"not_applicable", {}, "none">>}}}
    \cup {[Governed EXCEPT !.corpus.cases = <<ThreeCases[i], ThreeCases[j], ThreeCases[k]>>] :
            i, j, k \in 1..3}
    \cup {[Governed EXCEPT !.corpus.storage = storage, !.source.redistribution = sharing] :
            storage \in {"committed_synthetic", "workspace_private"},
            sharing \in {"committed_allowed", "workspace_only"}}

-----------------------------------------------------------------------------

MCInit ==
  /\ HostInit
  /\ evaluation \in CASE part = "scores" -> Evaluated
                      [] part = "corpus" -> Divided \cup Exchanged
                      [] OTHER -> {Governed}

MCSpec == MCInit /\ [][HostNext /\ UNCHANGED evaluation]_<<hostVars, evaluation>>

(* "... rejects stale, substituted, tampered, symlinked, or extra          *)
(* artifacts": what the benchmark has recorded itself is none of these.    *)
OwnRunsAccepted == Experiment!OwnRunsAccepted

(* What passes has earned it: a report is passed for what the runs have    *)
(* answered and never for what they left out, nothing that was found wrong *)
(* passes, and no answer can be spared; and a governed corpus leaves no    *)
(* character of its source to nobody.                                      *)
VerdictEarned ==
  /\ part = "scores" =>
       /\ Scorer!VerdictEarned(evaluation)
       /\ Scorer!NothingFoundPasses(evaluation)
       /\ Scorer!NothingSpare(evaluation)
  /\ part = "corpus" =>
       Scorer!CorpusComplete(evaluation.source, evaluation.corpus, evaluation.annotations)
=============================================================================
