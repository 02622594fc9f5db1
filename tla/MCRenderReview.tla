--------------------------- MODULE MCRenderReview ---------------------------
(***************************************************************************)
(* The renders, decisions and reads of one job; the decisions on the lines *)
(* of a book whose script changes; the commands of the pipeline beside the *)
(* web, on one workspace; and every small cast that may be proposed.  A    *)
(* behaviour is one of these.                                              *)
(*                                                                         *)
(* Segments and review requests are interchangeable in the first, lines    *)
(* and readings in the second: no definition tells one from another, and   *)
(* only safety properties are checked with this.  As no behaviour has two  *)
(* of the parts, the same values are segments here and lines there, or     *)
(* requests here and readings there, and one small group serves both.      *)
(***************************************************************************)
EXTENDS RenderReview, AgreedVoices, TLC

CONSTANTS Parts, c1, c2, j1

VARIABLE part

\* Two requests to the web process, or one of them a command of its own
OneOrTwoProcesses ==
  {(c1 :> "web") @@ (c2 :> "web"), (c1 :> "web") @@ (c2 :> "command")}

TwoChapters == <<2, 1>>

\* The second chapter of a book of two, or the first
SecondChapter == "firstChapter" :> 2
FirstChapter == "maxChapters" :> 1

EitherChapter == {SecondChapter, FirstChapter}

\* Ann speaks in a voice of her own, or in the one of unresolved lines
OwnVoice ==
  {[speaker |-> "ann", aliases |-> {}, material |-> "alto", group |-> "exclusive"]}

SharedVoice ==
  {[speaker |-> "ann", aliases |-> {}, material |-> "bass", group |-> "exclusive"]}

Proposals ==
  {[book |-> SecondChapter, cast |-> OwnVoice], [book |-> SecondChapter, cast |-> SharedVoice],
   [book |-> FirstChapter, cast |-> SharedVoice]}

\* A command has directed the second chapter already, for the first of the casts
DirectedBefore ==
  LET contract == <<FALSE, Pipeline!GenerationIdentity(OwnVoice)>>
      directed == [state |-> "awaiting_review", stage |-> "directing", attached |-> TRUE,
              book |-> SecondChapter, command |-> <<contract, SecondChapter>>, contract |-> contract]
      script == [text |-> Pipeline!Window(SecondChapter), line |-> "ann", profile |-> "ann"]
  IN /\ kLedger = [book |-> SecondChapter, cast |-> OwnVoice] /\ kSigned = {kLedger}
     /\ kRows = [j \in Pipeline!Jobs |-> IF j = j1 THEN directed ELSE Pipeline!NoRow]
     /\ kBooks = [b \in Pipeline!BookIds |-> IF b = SecondChapter THEN script ELSE Pipeline!NoScript]
     /\ kConfirmed = {} /\ kOutputs = [j \in Pipeline!Jobs |-> Pipeline!NoOutput]
     /\ kProcess = [p \in Pipeline!Processes |-> Pipeline!Idle] /\ kLaunches = 0

\* Every proposal of up to two assignments is put to the human
ProposeAny ==
  \E a, b \in Pipeline!Assignments :
    Pipeline!Approve([book |-> SecondChapter, cast |-> {a, b}])

allVars == <<part, vars, consentVars, pipelineVars>>

\* A workspace without commands, as far as the invariant looks at it
NoPipeline ==
  /\ kLedger = Pipeline!NoApproval
  /\ kRows = [j \in Pipeline!Jobs |-> [attached |-> FALSE]]
  /\ kOutputs = [j \in Pipeline!Jobs |-> [by |-> "none"]]
  /\ kSigned = {} /\ kConfirmed = {} /\ kBooks = {} /\ kProcess = {} /\ kLaunches = 0

\* Of jobs and consents, the part nobody looks at keeps one of its initial states
MCInit ==
  /\ part \in Parts
  /\ Init /\ Consent!Init
  /\ CASE part = "commands" -> Pipeline!PipelineInit \/ DirectedBefore
       [] part = "casting"  -> Pipeline!PipelineInit
       [] OTHER             -> NoPipeline
  /\ part # "consent" => cScript = [l \in Lines |-> Voiced] /\ cHostOf[c2] = "web"

MCNext ==
  \/ part = "job" /\ Next /\ UNCHANGED <<part, consentVars, pipelineVars>>
  \/ part = "consent" /\ Consent!Next /\ UNCHANGED <<part, vars, pipelineVars>>
  \/ part = "commands" /\ Pipeline!PipelineNext /\ UNCHANGED <<part, vars, consentVars>>
  \/ part = "casting" /\ kSigned = {} /\ ProposeAny /\ UNCHANGED <<part, vars, consentVars>>

MCSpec == MCInit /\ [][MCNext]_allVars

(* A withdrawal is undone only by naming that one line in an approval,     *)
(* never by a decision for the book, however the two overlap in a process, *)
(* whatever becomes of the script meanwhile.                               *)
WithdrawalsStand == WithdrawalOutranksGrant /\ Consent!WithdrawalStandsInOneProcess

Interchangeable ==
  Permutations(Reviewers) \cup Permutations(Fallback)
=============================================================================
