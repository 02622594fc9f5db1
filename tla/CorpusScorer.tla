----------------------------- MODULE CorpusScorer -----------------------------
(***************************************************************************)
(* The verdict on a director: RepresentativeCorpusScorer, which compares   *)
(* three recorded runs over a corpus with the gold annotations of it, and  *)
(* the governance a corpus has to pass before anything is scored.          *)
(*                                                                         *)
(* A text is a sequence of characters and a span one of its intervals, as  *)
(* the documents give them: the schemas ask a start of at least 0 and an   *)
(* end of at least 1, and no more.  A hash link is whether it holds.  What *)
(* a run measured is the set of limits it exceeded or failed.              *)
(***************************************************************************)
EXTENDS Naturals, Sequences, FiniteSets, SequencesExt

CONSTANTS
  RequiredCriteria,
  SpeakerPercent,     \* dialogue_speaker_accuracy, alias_coreference_accuracy
  KindPercent,        \* thought_vs_spoken_accuracy
  RecallPercent,      \* incorrect_speaker_review_recall
  AgreementPercent    \* three_run_agreement

RunCount == 3

Limits == {"elapsed", "vram", "ram", "outcome", "context"}

Slice(text, from, to) == SubSeq(text, from + 1, to)

Span(x) == <<x.ref, x.start, x.end>>

Elements(s) == {s[i] : i \in DOMAIN s}

Unique(values) == Cardinality(Elements(values)) = Len(values)

-----------------------------------------------------------------------------
(* validateEvaluationGovernance                                            *)

CasesOf(corpus, ref) == SelectSeq(corpus.cases, LAMBDA c : c.ref = ref)

\* Mutant: the passage may be longer than its cases
ContinuesTo(cases, length) ==
  \A i \in DOMAIN cases :
    cases[i].start = (IF i = 1 THEN 0 ELSE cases[i - 1].end) /\ cases[i].end <= length

\* Each case begins where the one before it ends, and the last ends with the text
Continues(cases, length) ==
  /\ \A i \in DOMAIN cases :
       cases[i].start = (IF i = 1 THEN 0 ELSE cases[i - 1].end) /\ cases[i].end <= length
  /\ (IF cases = << >> THEN 0 ELSE Last(cases).end) = length

InSourceOrder(source, corpus) ==
  corpus.cases = FlattenSeq([i \in DOMAIN source.passages |->
                               CasesOf(corpus, source.passages[i].ref)])

PassageOf(source, ref) == CHOOSE p \in Elements(source.passages) : p.ref = ref

CaseText(source, c) == Slice(PassageOf(source, c.ref).text, c.start, c.end)

Gold(annotations, id) == CHOOSE g \in Elements(annotations.cases) : g.id = id

Ambiguous(gold) == gold.status \in {"ambiguous", "unresolved"}

Exact(gold) == gold.kind = "dialogue" /\ gold.status = "exact"

ByReference(gold) == Exact(gold) /\ gold.evidence \in {"alias", "coreference"}

\* What a tag says of its case and the annotation of it
TagsMatch(c, gold) ==
  LET tagged(criterion) == criterion \in c.criteria
  IN /\ (gold.kind = "dialogue") <=> (gold.status # "not_applicable")
     /\ tagged("dialogue") <=> (gold.kind = "dialogue")
     /\ tagged("narration") <=> (gold.kind = "narration")
     /\ tagged("internal_thought") <=> (gold.kind = "thought")
     /\ tagged("ambiguous_speaker") <=> Ambiguous(gold)
     /\ tagged("alias") <=> gold.status = "exact" /\ gold.evidence = "alias"
     /\ tagged("coreference") <=> gold.status = "exact" /\ gold.evidence = "coreference"

\* What a tag says of a case and the other cases
Demonstrated(source, corpus, c) ==
  LET others == {d \in Elements(corpus.cases) : d.id # c.id}
  IN /\ "source_reference" \in c.criteria => \E d \in others : d.ref = c.ref
     /\ "repeated_text" \in c.criteria =>
          \E d \in others : d.ref # c.ref /\ CaseText(source, d) = CaseText(source, c)

StorageAllowed(source, corpus) ==
  /\ source.redistribution = "workspace_only" => corpus.storage = "workspace_private"
  /\ corpus.storage = "committed_synthetic" =>
       source.origin = "project_synthetic" /\ source.redistribution = "committed_allowed"

Linked(source, corpus, annotations) ==
  /\ corpus.source /\ annotations.source /\ annotations.corpus
  /\ \A p \in Elements(source.passages) : p.hashed

Identified(source, corpus, annotations) ==
  /\ Unique([i \in DOMAIN source.passages |-> source.passages[i].ref])
  /\ Unique([i \in DOMAIN corpus.cases |-> corpus.cases[i].id])
  /\ Unique([i \in DOMAIN annotations.cases |-> annotations.cases[i].id])
  /\ {c.id : c \in Elements(corpus.cases)} = {g.id : g \in Elements(annotations.cases)}

Partitioned(source, corpus) ==
  /\ \A p \in Elements(source.passages) : Continues(CasesOf(corpus, p.ref), Len(p.text))
  /\ {c.ref : c \in Elements(corpus.cases)} \subseteq {p.ref : p \in Elements(source.passages)}
  /\ InSourceOrder(source, corpus)

\* No code was collected
Governed(source, corpus, annotations) ==
  /\ Linked(source, corpus, annotations) /\ StorageAllowed(source, corpus)
  /\ Identified(source, corpus, annotations)
  /\ Partitioned(source, corpus)
  /\ RequiredCriteria \subseteq UNION {c.criteria : c \in Elements(corpus.cases)}
  /\ \A c \in Elements(corpus.cases) :
       TagsMatch(c, Gold(annotations, c.id)) /\ Demonstrated(source, corpus, c)

-----------------------------------------------------------------------------
(* RepresentativeCorpusScorer.score: the runs that are looked at           *)

FirstThree(runs) == SubSeq(runs, 1, Min({RunCount, Len(runs)}))

Conformant(runs) == {i \in DOMAIN FirstThree(runs) : runs[i].conformant}

\* Of runs with one index the first counts
Repeats(runs) ==
  {i \in Conformant(runs) : \E j \in Conformant(runs) : j < i /\ runs[j].index = runs[i].index}

SchemaRuns(runs) == {runs[i] : i \in Conformant(runs) \ Repeats(runs)}

RunSetValid(runs) ==
  Len(runs) = RunCount /\ Cardinality(SchemaRuns(runs)) = RunCount /\ Repeats(runs) = {}

IdentityRuns(runs) == {r \in SchemaRuns(runs) : r.identity}

PredictionsOf(r, c) == SelectSeq(r.predictions, LAMBDA p : Span(p) = Span(c))

Answered(r, c) == Len(PredictionsOf(r, c)) = 1

Answer(r, c) == PredictionsOf(r, c)[1]

Predicted(r, c) == Answered(r, c) /\ Answer(r, c).status = "predicted"

Correct(r, c, gold) == Predicted(r, c) /\ Answer(r, c).speaker \in gold.accepted

InOrder(r, corpus) ==
  [i \in DOMAIN r.predictions |-> Span(r.predictions[i])] =
    [i \in DOMAIN corpus.cases |-> Span(corpus.cases[i])]

\* exactCoverage: of one passage
Covers(r, p) ==
  LET mine == SelectSeq(r.predictions, LAMBDA x : x.ref = p.ref)
  IN /\ mine # << >> /\ Continues(mine, Len(p.text))
     /\ \A x \in Elements(mine) :
          x.status = "predicted" /\ x.text = Slice(p.text, x.start, x.end)

KnowsItsSource(r, source) ==
  \A x \in Elements(r.predictions) : \E p \in Elements(source.passages) : p.ref = x.ref

\* One reference nobody knows, and no passage of the run counts
CoveredBy(r, source) ==
  IF KnowsItsSource(r, source) THEN {p \in Elements(source.passages) : Covers(r, p)} ELSE {}

-----------------------------------------------------------------------------
(* The metrics                                                             *)

\* At least so many percent of a denominator that is fixed before anything is observed
Metric(numerator, denominator, observed, percent) ==
  [numerator |-> numerator, denominator |-> denominator, observed |-> observed,
   passed |-> observed = denominator /\ numerator * 100 >= percent * denominator]

Observable(condition, result) == [result EXCEPT !.passed = @ /\ condition]

\* All of the runs or none
SetMetric(holds, observed, seen) ==
  [numerator |-> IF holds THEN RunCount ELSE 0, denominator |-> RunCount, observed |-> observed,
   passed |-> holds /\ seen]

\* The cases of the corpus with an annotation of a kind
Annotated(e, Kind(_)) ==
  {c \in Elements(e.corpus.cases) : Kind(Gold(e.annotations, c.id))}

Outputs(e, cases, Holds(_, _)) ==
  Cardinality({x \in IdentityRuns(e.runs) \X cases : Holds(x[1], x[2])})

\* A metric over these cases in each of the three runs
OverCases(e, cases, Good(_, _), Seen(_, _), percent) ==
  Metric(Outputs(e, cases, Good), Cardinality(cases) * RunCount, Outputs(e, cases, Seen), percent)

SpeakerMetric(e, cases) ==
  LET Good(r, c) == Correct(r, c, Gold(e.annotations, c.id))
  IN OverCases(e, cases, Good, Predicted, SpeakerPercent)

KindMetric(e) ==
  LET Spoken(g) == g.kind \in {"dialogue", "thought"}
      Good(r, c) == Predicted(r, c) /\ Answer(r, c).kind = Gold(e.annotations, c.id).kind
  IN OverCases(e, Annotated(e, Spoken), Good, Predicted, KindPercent)

\* Mutant: every question counts, those about right speakers too
RecallOfQuestions(e) ==
  LET cases == Annotated(e, Exact)
      Wrong(r, c) == Predicted(r, c) /\ ~Correct(r, c, Gold(e.annotations, c.id))
      Asked(r, c) == Predicted(r, c) /\ Answer(r, c).review
      wrong == Outputs(e, cases, Wrong)
  IN Observable(Outputs(e, cases, Predicted) = Cardinality(cases) * RunCount,
                Metric(Outputs(e, cases, Asked), wrong, wrong, RecallPercent))

\* Of the speakers that are wrong, how many a human was asked about
RecallMetric(e) ==
  LET cases == Annotated(e, Exact)
      Wrong(r, c) == Predicted(r, c) /\ ~Correct(r, c, Gold(e.annotations, c.id))
      Asked(r, c) == Wrong(r, c) /\ Answer(r, c).review
      wrong == Outputs(e, cases, Wrong)
  IN Observable(Outputs(e, cases, Predicted) = Cardinality(cases) * RunCount,
                Metric(Outputs(e, cases, Asked), wrong, wrong, RecallPercent))

RefusalMetric(e) ==
  LET cases == Elements(e.corpus.cases)
      Refused(r, c) == Answered(r, c) /\ Answer(r, c).status = "refused"
      result == OverCases(e, cases, Refused, Answered, 0)
  IN [result EXCEPT !.passed = @ /\ result.numerator = 0]

ReviewMetric(e, cases) ==
  LET Asked(r, c) == Answered(r, c) /\ Answer(r, c).review
  IN OverCases(e, cases, Asked, Answered, 100)

Configured(e) ==
  /\ RunSetValid(e.runs) /\ Cardinality(IdentityRuns(e.runs)) = RunCount
  /\ Cardinality({r.configuration : r \in IdentityRuns(e.runs)}) = 1

AgreementMetric(e) ==
  LET cases == Elements(e.corpus.cases)
      runs == IdentityRuns(e.runs)
      seen == {c \in cases : Cardinality({r \in runs : Predicted(r, c)}) = RunCount}
      agreed == {c \in seen : Cardinality({<<Answer(r, c).kind, Answer(r, c).speaker>> : r \in runs}) = 1}
  IN Observable(Configured(e),
                Metric(Cardinality(agreed), Cardinality(cases), Cardinality(seen), AgreementPercent))

RunMetric(e, Good(_)) ==
  Metric(Cardinality({r \in IdentityRuns(e.runs) : Good(r)}), RunCount,
         Cardinality(IdentityRuns(e.runs)), 100)

\* The first three documents, whatever index they name
DocumentMetric(e) ==
  LET looked == Len(FirstThree(e.runs))
  IN Metric(Cardinality(Conformant(e.runs)), RunCount, looked, 100)

CoverageMetric(e) ==
  LET passages == Elements(e.source.passages)
      covered == {x \in IdentityRuns(e.runs) \X passages : x[2] \in CoveredBy(x[1], e.source)}
  IN Metric(Cardinality(covered), Cardinality(passages) * RunCount,
            Cardinality(IdentityRuns(e.runs)) * Cardinality(passages), 100)

Structural(e) == {c \in Elements(e.corpus.cases) : "structurally_ambiguous" \in c.criteria}

Metrics(e) ==
  LET Ordered(r) == InOrder(r, e.corpus)
      Always(r) == TRUE
      complete == RunSetValid(e.runs) /\ Cardinality(IdentityRuns(e.runs)) = RunCount
  IN <<SetMetric(RunSetValid(e.runs), Len(FirstThree(e.runs)), RunSetValid(e.runs)),
       DocumentMetric(e),
       Observable(Cardinality(SchemaRuns(e.runs)) = RunCount, RunMetric(e, Always)),
       RunMetric(e, Ordered),
       CoverageMetric(e),
       SpeakerMetric(e, Annotated(e, Exact)),
       SpeakerMetric(e, Annotated(e, ByReference)),
       KindMetric(e), RecallMetric(e), RefusalMetric(e), AgreementMetric(e),
       ReviewMetric(e, Annotated(e, Ambiguous)), ReviewMetric(e, Structural(e)),
       SetMetric(Configured(e), Cardinality(IdentityRuns(e.runs)), complete)>>
    \o SetToSeq({LET Within(r) == limit \notin r.exceeded IN RunMetric(e, Within) : limit \in Limits})

OverallPassed(e) == \A m \in Elements(Metrics(e)) : m.passed

\* What is reported, a finding by its code, the run and the case or passage
Findings(e) ==
  LET runs == IdentityRuns(e.runs)
      cases == Elements(e.corpus.cases)
  IN {<<"run-schema-invalid", i>> : i \in DOMAIN FirstThree(e.runs) \ Conformant(e.runs)}
     \cup {<<"duplicate-run-index", e.runs[i].index>> : i \in Repeats(e.runs)}
     \cup {<<"unexpected-extra-run", i>> : i \in DOMAIN e.runs \ DOMAIN FirstThree(e.runs)}
     \cup {<<"run-missing", i>> : i \in 1..RunCount \ {r.index : r \in SchemaRuns(e.runs)}}
     \cup {<<"run-source-corpus-identity-mismatch", r.index>> :
             r \in SchemaRuns(e.runs) \ IdentityRuns(e.runs)}
     \cup {<<"prediction-order-invalid", r.index>> : r \in {x \in runs : ~InOrder(x, e.corpus)}}
     \cup {<<"unknown-source-reference", r.index>> : r \in {x \in runs : ~KnowsItsSource(x, e.source)}}
     \cup {<<"source-coverage-failed", x[1].index, x[2].ref>> :
             x \in {y \in runs \X Elements(e.source.passages) : ~Covers(y[1], y[2])}}
     \cup {<<"case-output-missing-or-duplicated", x[1].index, x[2].id>> :
             x \in {y \in runs \X cases : ~Answered(y[1], y[2])}}

-----------------------------------------------------------------------------
(* Properties                                                              *)

\* What a passing report promises, said of the documents themselves
Earned(e) ==
  LET runs == Elements(e.runs)
      golds(Kind(_)) == {g \in Elements(e.annotations.cases) : Kind(g)}
      CaseOf(g) == CHOOSE c \in Elements(e.corpus.cases) : c.id = g.id
      Said(r, g) == {x \in Elements(r.predictions) : Span(x) = Span(CaseOf(g))}
      right == {y \in runs \X golds(Exact) : \E x \in Said(y[1], y[2]) : x.speaker \in y[2].accepted}
      known == {y \in (runs \X golds(Exact)) \ right : \E x \in Said(y[1], y[2]) : x.review}
      all == Cardinality(runs) * Cardinality(golds(Exact))
  IN /\ Len(e.runs) = RunCount /\ {r.index : r \in runs} = 1..RunCount
     /\ \A r \in runs : r.conformant /\ r.identity /\ r.exceeded = {}
     /\ Cardinality({r.configuration : r \in runs}) = 1
     \* whoever plays the predictions in order hears the whole source and nothing else
     /\ \A r \in runs :
          FlattenSeq([i \in DOMAIN r.predictions |-> r.predictions[i].text]) =
            FlattenSeq([i \in DOMAIN e.source.passages |-> e.source.passages[i].text])
     /\ \A r \in runs, g \in Elements(e.annotations.cases) : Cardinality(Said(r, g)) = 1
     /\ Cardinality(right) * 100 >= SpeakerPercent * all
     /\ Cardinality(known) * 100 >= RecallPercent * (all - Cardinality(right))
     /\ \A r \in runs, g \in golds(Ambiguous) : \A x \in Said(r, g) : x.review

\* A verdict is given for what was answered, not for what was left out.
VerdictEarned(e) == Governed(e.source, e.corpus, e.annotations) /\ OverallPassed(e) => Earned(e)

\* A report that passes has no finding: whatever is found wrong with a run or an output fails it.
NothingFoundPasses(e) == OverallPassed(e) => Findings(e) = {}

Omissions(e) ==
  {[e EXCEPT !.runs = RemoveAt(@, i)] : i \in DOMAIN e.runs}
    \cup UNION {{[e EXCEPT !.runs[i].predictions = RemoveAt(@, k)] :
                   k \in DOMAIN e.runs[i].predictions} : i \in DOMAIN e.runs}

\* Leaving a run or an answer out never keeps a passing report passing: nothing in it was spare.
NothingSpare(e) == OverallPassed(e) => \A less \in Omissions(e) : ~OverallPassed(less)

\* A corpus that is governed gives each character of the source to a case, and has one annotation
\* for each case.
CorpusComplete(source, corpus, annotations) ==
  Governed(source, corpus, annotations) =>
    /\ \A p \in Elements(source.passages) : \A k \in 0..(Len(p.text) - 1) :
         \E c \in Elements(corpus.cases) : c.ref = p.ref /\ c.start <= k /\ k < c.end
    /\ \A c \in Elements(corpus.cases) :
         Cardinality({g \in Elements(annotations.cases) : g.id = c.id}) = 1
=============================================================================
