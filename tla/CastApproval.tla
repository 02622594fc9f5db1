---------------------------- MODULE CastApproval ----------------------------
(***************************************************************************)
(* Who speaks in which voice: the assignments a model proposes for a book, *)
(* what makes of them a decision a human can sign, and the cast that is    *)
(* derived from a signed decision.                                         *)
(*                                                                         *)
(* The assignments of a proposal are a set: the code sorts them by speaker *)
(* and the aliases of each.  A string that is no stable ID, no SHA-256 or  *)
(* no actor is refused before any of this and has no value here.           *)
(***************************************************************************)
EXTENDS Integers, FiniteSets

CONSTANTS
  Speakers,       \* characters a model may name
  Aliases,
  Profiles,       \* the pinned voice material
  NarratorVoice,  \* the profile with the role of the narrator
  FallbackVoice,  \* the profile every unresolved line is spoken with
  Groups,         \* sharing group IDs
  Exclusive       \* none of them: material of one's own

Assignments ==
  [speaker : Speakers, aliases : SUBSET Aliases, material : Profiles,
   group : Groups \cup {Exclusive}]

\* Those of cast that are spoken with one material
With(cast, material) == {a \in cast : a.material = material}

OneVoiceEach(cast) == \A a, b \in cast : a.speaker = b.speaker => a = b

\* No alias belongs to two speakers
AliasesTellApart(cast) == \A a, b \in cast : a # b => a.aliases \cap b.aliases = {}

GroupsNameOneMaterial(cast) ==
  \A a, b \in cast : a.group = b.group /\ a.group # Exclusive => a.material = b.material

\* Mutant: the members of a group need not all name it
SharersSomeNameTheGroup(cast) ==
  \A a \in cast :
    LET sharers == With(cast, a.material)
    IN IF sharers = {a} THEN a.group = Exclusive
                        ELSE \E b \in sharers : b.group # Exclusive

\* Material is either one speaker's own, or everybody who has it names the same group
SharersNameTheGroup(cast) ==
  \A a \in cast :
    LET sharers == With(cast, a.material)
    IN IF sharers = {a} THEN a.group = Exclusive
                        ELSE a.group # Exclusive /\ \A b \in sharers : b.group = a.group

\* canonicalProposal
Canonical(cast) ==
  /\ cast # {}
  /\ OneVoiceEach(cast) /\ AliasesTellApart(cast)
  /\ GroupsNameOneMaterial(cast) /\ SharersNameTheGroup(cast)

\* approve: every material is that of a character or the fallback, as the command lists them
Approvable(cast) == Canonical(cast) /\ With(cast, NarratorVoice) = {}

\* What the human is told when the decision is signed
SharedVoiceMaterialGroups(cast) ==
  {[group |-> (CHOOSE a \in With(cast, m) : TRUE).group, material |-> m,
    speakers |-> {a.speaker : a \in With(cast, m)}]
     : m \in {n \in Profiles : Cardinality(With(cast, n)) > 1}}

-----------------------------------------------------------------------------
(* The cast of a run                                                       *)

\* deriveVoiceCast and the VoiceCast it builds throw on anything else
Derivable(cast) ==
  With(cast, NarratorVoice) = {} /\ OneVoiceEach(cast) /\ GroupsNameOneMaterial(cast)

\* What the report of a run says of shared material, counted by group
SharedMaterialGroups(cast) ==
  {[group |-> a.group, material |-> a.material,
    count |-> Cardinality({b \in cast : b.group = a.group})]
     : a \in {b \in cast : b.group # Exclusive
                           /\ Cardinality({d \in cast : d.group = b.group}) > 1}}

CastSpeakers(cast) == {a.speaker : a \in cast}

\* VoiceCast.resolve: the profile a line is given; the one of a character has its name
Resolve(cast, line) ==
  CASE line = "narration" -> "narrator"
    [] line \in CastSpeakers(cast) -> line
    [] OTHER -> "fallback"

KnowsProfile(cast, id) == id \in {"narrator", "fallback"} \cup CastSpeakers(cast)

\* profile: the material behind a profile ID
VoiceOf(cast, id) ==
  CASE id = "narrator" -> NarratorVoice
    [] id = "fallback" -> FallbackVoice
    [] OTHER -> (CHOOSE a \in cast : a.speaker = id).material

\* Everything of a cast that can be heard or can steer the director; not the groups
GenerationIdentity(cast) == {<<a.speaker, a.material, a.aliases>> : a \in cast}
=============================================================================
