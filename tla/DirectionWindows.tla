--------------------------- MODULE DirectionWindows ---------------------------
(***************************************************************************)
(* How a chapter is cut into windows of passages, one model request each.  *)
(* A window is [start, end): the passages start+1 .. end.  Sizes are in    *)
(* small units; the split factor 1.5 of the estimates is kept.             *)
(***************************************************************************)
EXTENDS Integers, Sequences, FiniteSetsExt

CONSTANTS
  CharFloor,       \* windowCharBudget never shrinks below it
  Overhead,        \* overheadPerFragmentChars
  OutputBudget,    \* outputCharsBudget
  PromptOverhead,  \* what the prompt spends per passage besides its text
  PromptBudget     \* what the context leaves for passages

Count(w) == w.end - w.start

Chars(size, w) == MapThenSumSet(LAMBDA i : size[i], (w.start + 1)..w.end)

\* The ceiling of 1.5 times the text and the overhead
EstimatedOutput(size, w) == (3 * (Chars(size, w) + Overhead * Count(w)) + 1) \div 2

OutputFits(size, w) == EstimatedOutput(size, w) <= OutputBudget

WindowFits(size, w, b) ==
  Chars(size, w) <= b.chars /\ Count(w) <= b.count /\ OutputFits(size, w)

PromptFits(size, w) == Chars(size, w) + PromptOverhead * Count(w) <= PromptBudget

\* A passage at least, and as many more as fit
PlanWindow(size, from, b) ==
  LET w(e) == [start |-> from, end |-> e]
  IN w(CHOOSE e \in (from + 1)..Len(size) :
         /\ \A k \in (from + 2)..e : WindowFits(size, w(k), b)
         /\ e < Len(size) => ~WindowFits(size, w(e + 1), b))

ShrinkSettings(b) ==
  [chars |-> Max({CharFloor, b.chars \div 2}), count |-> Max({1, b.count \div 2})]

\* The budgets after each halving
Halvings(b) ==
  LET halved[k \in 0..(b.chars + b.count)] == IF k = 0 THEN b ELSE ShrinkSettings(halved[k - 1])
  IN halved

\* Mutant: halved once, whatever that brings
ShrunkOnce(size, b, w) == ShrinkSettings(b)

\* Halved until the plan moves or nothing is left to halve
Shrunk(size, b, w) ==
  LET halved == Halvings(b)
      moves(k) == PlanWindow(size, w.start, halved[k]).end # w.end
      floor(k) == halved[k].chars <= CharFloor /\ halved[k].count = 1
      stop == CHOOSE k \in 1..(b.chars + b.count) :
                /\ moves(k) \/ floor(k)
                /\ \A j \in 1..(k - 1) : ~moves(j) /\ ~floor(j)
  IN halved[stop]

Tiles(windows, total) ==
  /\ windows # <<>> /\ windows[1].start = 0 /\ windows[Len(windows)].end = total
  /\ \A k \in 1..(Len(windows) - 1) : windows[k].end = windows[k + 1].start
=============================================================================
