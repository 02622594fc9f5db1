----------------------------- MODULE AdapterCalls -----------------------------
(***************************************************************************)
(* Stage A and the adapters that do a job's work: one call of              *)
(* directChapter of each director, and the batches of the speech engine,   *)
(* beside the direction of jobs in Direction.  What Direction takes from a *)
(* director as one step, a whole chapter or an error, is what the two      *)
(* calls are shown to give.                                                *)
(***************************************************************************)
EXTENDS Direction, Sequences

CONSTANTS
  CharFloor, Overhead, OutputBudget, PromptOverhead, PromptBudget, \* of DirectionWindows
  MaxPassages,
  LocalSizes, LocalChunking, LocalAttempts, MaxShrinks,            \* of LocalDirector
  CloudSizes, CloudChunking, CloudAttempts,                        \* of CloudDirector
  Segments, Identities, Orders, SeedAttempts, Toolchains, MaxMishaps \* of SpeechBatch

\* A window is asked for at least once
ASSUME CallsAssumption ==
  /\ MaxPassages \in Nat /\ MaxShrinks \in Nat
  /\ LocalAttempts \in Nat \ {0} /\ CloudAttempts \in Nat \ {0}

VARIABLES lSize, lBudget, lShrinks, lWindow, lIndex, lAttempt, lSent, lRequests,
          lLedger, lLate, lAborted, lPc, lAnswer

Local == INSTANCE LocalDirector WITH
  Sizes <- LocalSizes, Chunking <- LocalChunking, MaxAttempts <- LocalAttempts,
  size <- lSize, budget <- lBudget, shrinks <- lShrinks, window <- lWindow, index <- lIndex,
  attempt <- lAttempt, sent <- lSent, requests <- lRequests, ledger <- lLedger,
  late <- lLate, aborted <- lAborted, pc <- lPc, answer <- lAnswer

VARIABLES cSize, cWindow, cAttempt, cSent, cRequests, cTold, cLate, cAborted, cPc, cAnswer

Cloud == INSTANCE CloudDirector WITH
  Sizes <- CloudSizes, Chunking <- CloudChunking, MaxAttempts <- CloudAttempts,
  size <- cSize, window <- cWindow, attempt <- cAttempt, sent <- cSent, requests <- cRequests,
  told <- cTold, late <- cLate, aborted <- cAborted, pc <- cPc, answer <- cAnswer

VARIABLES sWav, sManifest, sInstalled, sEngine, sLeased, sWorker, sBatch, sAborted, sReturned, sFaults

Speech == INSTANCE SpeechBatch WITH
  Scripts <- Orders, MaxAttempts <- SeedAttempts, MaxFaults <- MaxMishaps,
  wav <- sWav, manifest <- sManifest, installed <- sInstalled, engine <- sEngine,
  leased <- sLeased, worker <- sWorker, batch <- sBatch, aborted <- sAborted,
  returned <- sReturned, faults <- sFaults

\* A batch asks for every segment, and a segment has one seed at least
ASSUME BatchesAssumption ==
  /\ Orders \subseteq [Segments -> Identities] /\ SeedAttempts \in Nat \ {0}
  /\ "none" \notin Segments \cup Identities

localVars ==
  <<lSize, lBudget, lShrinks, lWindow, lIndex, lAttempt, lSent, lRequests, lLedger, lLate,
    lAborted, lPc, lAnswer>>

cloudVars == <<cSize, cWindow, cAttempt, cSent, cRequests, cTold, cLate, cAborted, cPc, cAnswer>>

speechVars ==
  <<sWav, sManifest, sInstalled, sEngine, sLeased, sWorker, sBatch, sAborted, sReturned, sFaults>>

adapterVars == <<localVars, cloudVars, speechVars>>

CallsInit == Local!Init /\ Cloud!Init /\ Speech!Init

CallsNext ==
  \/ Local!Next /\ UNCHANGED <<cloudVars, speechVars>>
  \/ Cloud!Next /\ UNCHANGED <<localVars, speechVars>>
  \/ Speech!Next /\ UNCHANGED <<localVars, cloudVars>>

CallsSpec == CallsInit /\ [][CallsNext]_adapterVars

(* What a call of a director says of itself is true: it asks for a bounded *)
(* number of windows, named without a gap, however the model fails, and    *)
(* its store or sink hears of one end, the one the call had.               *)
CallsAccounted ==
  /\ Local!TypeOK /\ Local!RequestsNamed /\ Local!RequestsBounded /\ Local!LedgerTruthful
  /\ Cloud!RequestsBounded /\ Cloud!ToldTruthful

(* Whoever asks a director for a chapter gets all of it, in order, or an   *)
(* error.                                                                  *)
ChaptersWhole == Local!ImplementsWholeChapter /\ Cloud!ImplementsWholeChapter

(* One Python worker lives at a time, under the GPU lease; a take that was *)
(* returned stays, speaks what was asked for, was made by the toolchain it *)
(* names and can be reused.                                                *)
AudioStands == Speech!TypeOK /\ Speech!OneWorker /\ Speech!ReturnedStands

(* No work is asked for in vain: budgets that are cut make the next window *)
(* shorter, and audio that can be reused is never spoken again.            *)
NoWorkTwice == Local!ShrinksCut /\ Speech!SpokenOnce
=============================================================================
