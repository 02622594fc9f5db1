---------------------------- MODULE EpubIngestion ----------------------------
(***************************************************************************)
(* Uploads of one book into the workspace: EpubIngestionAdapter.ingest in  *)
(* several processes, under the book's kernel lock.                        *)
(*                                                                         *)
(* The lock belongs to a holder process beside each ingest.  It can be     *)
(* killed under a living ingest, outlive one that died, and ignore its end *)
(* of input.  An assertHeld is one step with the call it is followed by;   *)
(* everything else that awaits is a step of its own.                       *)
(*                                                                         *)
(* The files of a book arrive in books/ by one rename of a staging         *)
(* directory named for its lock token, and leave by one rename into        *)
(* quarantine, so the model keeps the target directory and its manifest's  *)
(* name; staging and quarantine are never read.                            *)
(***************************************************************************)
EXTENDS Naturals

CONSTANTS
  Ingests,      \* calls of ingest under way at a time, each in a process of its own
  Records,      \* what uploads with this book ID may store: bytes, cover, schema
  Nobody,
  MaxFaults     \* bound on crashes, killed holders, failed calls and damaged files

VARIABLES
  target,       \* books/<id>: {} or {the directory}
  lock,         \* who holds the kernel lock on the book's lock file
  holder,       \* each ingest's holder process
  call,         \* each ingest: where it is, what it stores, whether it put the target there
  faults,
  lapsed,       \* ghost: a holder was killed while its ingest ran
  told          \* ghost: the records ingest returned to the application

vars == <<target, lock, holder, call, faults, lapsed, told>>

Quiet == [pc |-> "idle", record |-> CHOOSE r \in Records : TRUE, owns |-> FALSE]

Init ==
  /\ target = {} /\ lock = Nobody
  /\ holder = [i \in Ingests |-> "none"] /\ call = [i \in Ingests |-> Quiet]
  /\ faults = 0 /\ lapsed = FALSE /\ told = {}

Fault == faults < MaxFaults /\ faults' = faults + 1

At(i, pc) == call[i].pc = pc

Goes(i, pc) == call' = [call EXCEPT ![i].pc = pc]

Ends(i) == call' = [call EXCEPT ![i] = Quiet]

Locks == <<lock, holder, lapsed>>

Holds(name) == \E t \in target : t.name = name

Mine(i) == \E t \in target : t.record = call[i].record /\ t.whole

\* assertHeld
Held(i) == holder[i] \in {"held", "wedged"}

-----------------------------------------------------------------------------
(* The lock                                                                *)

Upload(i, r) ==
  /\ At(i, "idle") /\ holder[i] = "none"
  /\ call' = [call EXCEPT ![i] = [pc |-> "acquire", record |-> r, owns |-> FALSE]]
  /\ UNCHANGED <<target, Locks, faults, told>>

Acquire(i) ==
  /\ At(i, "acquire") /\ lock = Nobody
  /\ lock' = i /\ holder' = [holder EXCEPT ![i] = "held"]
  /\ Goes(i, "look")
  /\ UNCHANGED <<target, faults, lapsed, told>>

\* Busy after the bounded wait
AcquireBusy(i) ==
  /\ At(i, "acquire") /\ lock # Nobody
  /\ Ends(i)
  /\ UNCHANGED <<target, Locks, faults, told>>

\* No holder, or one whose handshake is unusable
AcquireFails(i) ==
  /\ At(i, "acquire") /\ Fault
  /\ Ends(i)
  /\ UNCHANGED <<target, Locks, told>>

Unlocked(i) == IF lock = i THEN Nobody ELSE lock

Releasing(i) == call[i].pc \in {"release", "failing"}

\* The holder acts on the end of its input: ingest returns the record or the error
Release(i) ==
  /\ Releasing(i) /\ holder[i] # "wedged"
  /\ lock' = Unlocked(i) /\ holder' = [holder EXCEPT ![i] = "none"]
  /\ IF At(i, "release")
     THEN /\ told' = told \cup {call[i].record}
          /\ target' = {[t EXCEPT !.handed = @ \/ (t.record = call[i].record /\ t.name = "committed")] :
                          t \in target}
     ELSE UNCHANGED <<target, told>>
  /\ Ends(i)
  /\ UNCHANGED <<faults, lapsed>>

\* It does not and is killed, perhaps without effect: release throws, also after a commit
ReleaseForced(i) ==
  /\ Releasing(i) /\ holder[i] = "wedged"
  /\ \/ lock' = Nobody /\ holder' = [holder EXCEPT ![i] = "none"]
     \/ UNCHANGED lock /\ holder' = [holder EXCEPT ![i] = "orphan"]
  /\ Ends(i)
  /\ UNCHANGED <<target, faults, lapsed, told>>

\* The holder is stopped or stuck: the lock is held, but the end of input is not acted on
HolderWedges(i) ==
  /\ holder[i] = "held" /\ Fault
  /\ holder' = [holder EXCEPT ![i] = "wedged"]
  /\ UNCHANGED <<target, lock, call, lapsed, told>>

\* A holder without an ingest ends: its input has ended or it was killed
OrphanEnds(i) ==
  /\ holder[i] = "orphan"
  /\ lock' = Nobody /\ holder' = [holder EXCEPT ![i] = "none"]
  /\ UNCHANGED <<target, call, faults, lapsed, told>>

\* The holder is killed while its ingest goes on: the kernel drops the lock
HolderKilled(i) ==
  /\ ~At(i, "idle") /\ Held(i) /\ Fault
  /\ lock' = Nobody /\ holder' = [holder EXCEPT ![i] = "gone"] /\ lapsed' = TRUE
  /\ UNCHANGED <<target, call, told>>

\* The process dies; its holder may take a while to notice
Crash(i) ==
  /\ ~At(i, "idle") /\ Fault
  /\ holder' = [holder EXCEPT ![i] = IF Held(i) THEN "orphan" ELSE "none"]
  /\ Ends(i)
  /\ UNCHANGED <<target, lock, lapsed, told>>

-----------------------------------------------------------------------------
(* recoverTarget                                                           *)

Reads == UNCHANGED <<target, Locks, faults, told>>

Look(i) ==
  /\ At(i, "look")
  /\ Goes(i, IF target = {} THEN "stage" ELSE "committed")
  /\ Reads

LookCommitted(i) ==
  /\ At(i, "committed")
  /\ Goes(i, IF Holds("committed") THEN "verify" ELSE "pending")
  /\ Reads

\* Mutant: a directory without a manifest is refused, not cleared
LookPendingStrict(i) ==
  /\ At(i, "pending")
  /\ Goes(i, IF Holds("pending") THEN "prove" ELSE "failing")
  /\ Reads

LookPending(i) ==
  /\ At(i, "pending")
  /\ Goes(i, IF Holds("pending") THEN "prove" ELSE "discard")
  /\ Reads

\* Mutant: a committed record that does not verify is replaced
VerifyOrReplace(i) ==
  /\ At(i, "verify")
  /\ Goes(i, IF Holds("committed") /\ Mine(i) THEN "release" ELSE "quarantine")
  /\ Reads

\* A committed record is returned or refused, never destroyed
Verify(i) ==
  /\ At(i, "verify")
  /\ Goes(i, IF Holds("committed") /\ Mine(i) THEN "release" ELSE "failing")
  /\ Reads

Prove(i) ==
  /\ At(i, "prove")
  /\ Goes(i, IF Holds("pending") /\ Mine(i) THEN "promote" ELSE "discard")
  /\ Reads

Renamed(name) == target' = {[t EXCEPT !.name = name] : t \in target}

Promote(i) ==
  /\ At(i, "promote")
  /\ IF Holds("pending") THEN Renamed("committed") /\ Goes(i, "proved")
     ELSE UNCHANGED target /\ Goes(i, "discard")
  /\ UNCHANGED <<Locks, faults, told>>

ProvePromoted(i) ==
  /\ At(i, "proved")
  /\ Goes(i, IF Holds("committed") /\ Mine(i) THEN "release" ELSE "discard")
  /\ Reads

-----------------------------------------------------------------------------
(* discardTarget: of an unusable record, or of this run's own target       *)

Discard(i) ==
  /\ At(i, "discard")
  /\ Goes(i, IF ~Held(i) \/ target = {} THEN "failing"
             ELSE IF call[i].owns THEN "quarantine" ELSE "inspect")
  /\ Reads

\* For an unusable record: one that is committed by now is not this run's to destroy
Inspect(i) ==
  /\ At(i, "inspect")
  /\ Goes(i, IF Holds("committed") THEN "failing" ELSE "quarantine")
  /\ Reads

Quarantine(i) ==
  /\ At(i, "quarantine")
  /\ IF Held(i) /\ target # {} THEN target' = {} /\ Goes(i, "clear")
     ELSE UNCHANGED target /\ Goes(i, "failing")
  /\ UNCHANGED <<Locks, faults, told>>

Clear(i) ==
  /\ At(i, "clear")
  /\ Goes(i, IF call[i].owns THEN "failing" ELSE "stage")
  /\ Reads

-----------------------------------------------------------------------------
(* commitNewTarget                                                         *)

Stage(i) ==
  /\ At(i, "stage")
  /\ Goes(i, IF Held(i) THEN "adopt" ELSE "failing")
  /\ Reads

\* The rename of the staging directory fails on a target that is there
Adopt(i) ==
  /\ At(i, "adopt")
  /\ IF Held(i) /\ target = {}
     THEN /\ target' = {[record |-> call[i].record, name |-> "pending", whole |-> TRUE, handed |-> FALSE]}
          /\ call' = [call EXCEPT ![i].pc = "hold", ![i].owns = TRUE]
     ELSE UNCHANGED target /\ Goes(i, "failing")
  /\ UNCHANGED <<Locks, faults, told>>

Hold(i) ==
  /\ At(i, "hold")
  /\ Goes(i, IF Held(i) THEN "publish" ELSE "discard")
  /\ Reads

\* A check of the directory lies between assertHeld and this rename
Publish(i) ==
  /\ At(i, "publish")
  /\ IF Holds("pending") THEN Renamed("committed") /\ Goes(i, "settle")
     ELSE UNCHANGED target /\ Goes(i, "discard")
  /\ UNCHANGED <<Locks, faults, told>>

Settle(i) == At(i, "settle") /\ Goes(i, "release") /\ Reads

-----------------------------------------------------------------------------

\* Mutant: a failed commit is not rolled back but reported as stored
ThrowsSilently(i) ==
  /\ call[i].pc \in {"hold", "settle"} /\ Fault
  /\ Goes(i, "release")
  /\ UNCHANGED <<target, Locks, told>>

\* A call to the file system fails
Throws(i) ==
  /\ Fault
  /\ \/ call[i].pc \in {"look", "committed", "pending", "verify", "stage", "adopt",
                        "discard", "inspect", "quarantine", "clear"}
        /\ Goes(i, "failing")
     \/ call[i].pc \in {"prove", "promote", "proved", "hold", "publish", "settle"}
        /\ Goes(i, "discard")
  /\ UNCHANGED <<target, Locks, told>>

\* The disk loses bytes of a stored file, or a manifest not yet renamed
Damage ==
  /\ Fault
  /\ \E t \in target :
       \/ target' = {[t EXCEPT !.whole = FALSE]}
       \/ t.name = "pending" /\ target' = {[t EXCEPT !.name = "none"]}
  /\ UNCHANGED <<Locks, call, told>>

Step(i) ==
  \/ Acquire(i) \/ AcquireBusy(i) \/ Release(i) \/ ReleaseForced(i) \/ OrphanEnds(i)
  \/ Look(i) \/ LookCommitted(i) \/ LookPending(i) \/ Verify(i)
  \/ Prove(i) \/ Promote(i) \/ ProvePromoted(i)
  \/ Discard(i) \/ Inspect(i) \/ Quarantine(i) \/ Clear(i)
  \/ Stage(i) \/ Adopt(i) \/ Hold(i) \/ Publish(i) \/ Settle(i)

Next ==
  \/ \E i \in Ingests :
       \/ Step(i) \/ (\E r \in Records : Upload(i, r))
       \/ AcquireFails(i) \/ HolderWedges(i) \/ HolderKilled(i) \/ Crash(i) \/ Throws(i)
  \/ Damage

Spec == Init /\ [][Next]_vars

\* Processes are scheduled, holders without an ingest end, and the book is uploaded again
FairSpec ==
  /\ Spec
  /\ \A i \in Ingests : WF_vars(Step(i)) /\ WF_vars(\E r \in Records : Upload(i, r))

-----------------------------------------------------------------------------

TypeOK ==
  /\ \A t, u \in target : t = u
  /\ \A t \in target : /\ t.record \in Records /\ t.name \in {"pending", "committed", "none"}
                       /\ t.whole \in BOOLEAN /\ t.handed \in BOOLEAN
  /\ lock \in Ingests \cup {Nobody}
  /\ holder \in [Ingests -> {"none", "held", "wedged", "gone", "orphan"}]
  /\ \A i \in Ingests : (lock = i) <=> (holder[i] \in {"held", "wedged", "orphan"})
  /\ \A i \in Ingests : At(i, "idle") => holder[i] \in {"none", "orphan"}

(* What ingest returned is the committed record on disk, whatever other    *)
(* uploads of the book, failures and crashes came since, as long as no     *)
(* holder was killed under its ingest.                                     *)
HandedIsStored ==
  ~lapsed => \A r \in told : \E t \in target : t.name = "committed" /\ t.record = r

(* The only stored copy of a user's EPUB is never destroyed or replaced    *)
(* by another upload, whether its files verify or not: a committed record  *)
(* leaves books/ only when the run that put it there rolls back, and never *)
(* once it was handed out.  Again no holder is killed.                     *)
CommittedStands ==
  [][~lapsed' => \A t \in target : t.name = "committed" =>
       \/ \E u \in target' : u.record = t.record /\ u.name = "committed"
       \/ ~t.handed /\ \E i \in Ingests : At(i, "quarantine") /\ call[i].owns]_vars

(* Every ingest answers: no wedged holder and no competitor keeps it.      *)
EveryIngestAnswers == \A i \in Ingests : ~At(i, "idle") ~> At(i, "idle")

(* What an interrupted commit left behind is committed or cleared away by  *)
(* later uploads; no residue blocks the book for good.                     *)
NoLimbo == (\E t \in target : t.name # "committed") ~> (\A t \in target : t.name = "committed")
=============================================================================
