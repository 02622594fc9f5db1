----------------------------- MODULE AgreedVoices -----------------------------
(***************************************************************************)
(* What humans agree to about voices: the decisions on lines that fall     *)
(* back, made for a script that changes, and the casts that are signed     *)
(* and spoken by the commands of the pipeline, on any workspace.           *)
(***************************************************************************)
EXTENDS Naturals, FiniteSets, Sequences

CONSTANTS
  Lines, Readings, Voiced, NoReading, Clerks, Hostings, MaxActs, MaxRedirections,  \* of FallbackConsent
  Speakers, Aliases, Profiles, NarratorVoice, FallbackVoice, Groups, Exclusive,    \* of CastApproval
  Shape,                                                                           \* of BookWindows
  Commands, Webs, CommandJobs, Asked, Drafts, HouseCast, NoJob,                    \* of PipelineCommands
  MaxApprovals, MaxLaunches

VARIABLES cScript, cApproved, cExcluded, cGrant, cClerk, cHostOf, cSection, cActs,
          cRedirections, cConsents

Consent == INSTANCE FallbackConsent WITH
  Cast <- Voiced, None <- NoReading,
  script <- cScript, approved <- cApproved, excluded <- cExcluded, grant <- cGrant,
  clerk <- cClerk, hostOf <- cHostOf, section <- cSection, acts <- cActs,
  redirections <- cRedirections, consents <- cConsents

VARIABLES kLedger, kSigned, kRows, kBooks, kConfirmed, kOutputs, kProcess, kLaunches

Pipeline == INSTANCE PipelineCommands WITH
  ledger <- kLedger, signed <- kSigned, rows <- kRows, books <- kBooks, confirmed <- kConfirmed,
  outputs <- kOutputs, process <- kProcess, launches <- kLaunches

\* Profiles that are no character's have IDs of their own; a proposal is a finite list
ASSUME PipelineAssumption ==
  /\ Shape \in Seq(Nat)
  /\ Commands \cap Webs = {}
  /\ {"none", "narrator", "fallback"} \cap Speakers = {}
  /\ {NarratorVoice, FallbackVoice} \subseteq Profiles
  /\ HouseCast \subseteq Pipeline!Assignments
  /\ \A d \in Drafts : d.cast \subseteq Pipeline!Assignments /\ IsFiniteSet(d.cast)

consentVars ==
  <<cScript, cApproved, cExcluded, cGrant, cClerk, cHostOf, cSection, cActs, cRedirections,
    cConsents>>

pipelineVars ==
  <<kLedger, kSigned, kRows, kBooks, kConfirmed, kOutputs, kProcess, kLaunches>>

agreedVars == <<consentVars, pipelineVars>>

AgreedInit == Consent!Init /\ Pipeline!PipelineInit

AgreedNext ==
  \/ Consent!Next /\ UNCHANGED pipelineVars
  \/ Pipeline!PipelineNext /\ UNCHANGED consentVars

AgreedSpec == AgreedInit /\ [][AgreedNext]_agreedVars

(* Nobody speaks in a voice that was agreed to for another speaker or      *)
(* another text: no record or grant is carried over to a line that was     *)
(* directed anew, and no line is authorized and withdrawn at once; and a   *)
(* character speaks with what was signed for it and for that very window,  *)
(* by somebody who was told who else speaks with it.                       *)
NothingCarriedOver ==
  /\ Consent!TypeOK /\ Consent!NothingCarriedOver /\ Consent!Unambiguous
  /\ Pipeline!SpokenAsSigned /\ Pipeline!WindowAsAsked /\ Pipeline!SharingTold

(* A selection is approved whole or refused, and a reconciliation leaves   *)
(* nothing for another one to do, one process deciding.                    *)
DecidedWhole == Consent!DecidedWhole

(* A withdrawal stands until somebody approves that very line, whichever   *)
(* processes decide about the book.                                        *)
WithdrawalSurvives == Consent!WithdrawalStands
=============================================================================
