------------------------- MODULE BenchmarkExperiment -------------------------
(***************************************************************************)
(* The Gemma benchmark: a command owns a llama-server for its life, takes  *)
(* the lock of one experiment, asks the model RunCount times, records each *)
(* answer in a file that is never written again, and reports.  A command   *)
(* that dies is started again and goes on from the recorded files.         *)
(*                                                                         *)
(* A file is written under a temporary name, linked to its own, and the    *)
(* temporary name is removed: three steps.  Of an answer the model keeps   *)
(* what the failure codes tell apart.                                      *)
(***************************************************************************)
EXTENDS Naturals

CONSTANTS
  Commands,     \* processes, each with a port of its own
  Nobody,
  Plans,        \* what an experiment may be started with: inputs, profile, host
  RunCount,     \* RUN_COUNT
  Completions,  \* what the gateway may return: [response, oom, complete]
  MaxFaults     \* bound on crashes, killed holders and failed calls

\* How a request ends: timeout, transport, an HTTP error, no JSON, not the schema, valid
Responses == {"timeout", "transport", "http", "malformed_json", "schema", "valid"}

\* What complete returns: the answer, whether its text speaks of memory that ran out, and
\* whether the resources were sampled from the beginning to the end
AllCompletions == [response : Responses, oom : BOOLEAN, complete : BOOLEAN]

Plan == 0

Runs == 1..RunCount

ReportItem == RunCount + 1

Items == {Plan} \cup Runs \cup {ReportItem}

None == "none"

VARIABLES
  files,        \* the artifacts on disk: 0 is the plan, 1 to RunCount the runs, then the report
  litter,       \* temporary names on disk, by the command that is at it, or Nobody's
  lock,         \* who holds the kernel lock
  owner,        \* whose token the lock file holds
  server,       \* each command's llama-server; an exit is known once it is reaped
  cmd,          \* each command
  told,         \* ghost: the verdicts given, with their plans
  asked,        \* ghost: recorded runs that the model was asked for again
  lapsed,       \* ghost: a lock holder was killed under its command
  faults

vars == <<files, litter, lock, owner, server, cmd, told, asked, lapsed, faults>>

\* What a command knows: the artifacts it found, the runs it has, what it writes and where
\* it goes on then
Quiet ==
  [pc |-> "idle", plan |-> None, known |-> {}, at |-> 1, got |-> {}, item |-> 0,
   draft |-> None, next |-> "idle", value |-> "error", alive |-> FALSE]

Init ==
  /\ files = [item \in {} |-> None]
  /\ litter = {} /\ lock = Nobody /\ owner = Nobody
  /\ server = [c \in Commands |-> "none"]
  /\ cmd = [c \in Commands |-> Quiet]
  /\ told = {} /\ asked = {} /\ lapsed = FALSE /\ faults = 0

Fault == faults < MaxFaults /\ faults' = faults + 1

At(c, pc) == cmd[c].pc = pc

Goes(c, pc) == cmd' = [cmd EXCEPT ![c].pc = pc]

\* An error inside withExperimentLock
Throws(c) == cmd' = [cmd EXCEPT ![c].pc = "unlocking"]

Disk == <<files, litter>>

Exclusion == <<lock, owner, lapsed>>

Ghosts == <<told, asked>>

-----------------------------------------------------------------------------
(* One answer, as it is recorded and as it is read back                    *)

Valid(x) == x.response = "valid"

Outcome(x) ==
  IF Valid(x) THEN "completed"
  ELSE IF x.response \in {"malformed_json", "schema"} THEN "model_output_invalid"
  ELSE "request_failed"

Code(x) == IF Valid(x) THEN "none" ELSE x.response

\* createRun: the later test wins
Recorded(plan, x, exited) ==
  [plan |-> plan, said |-> x, exited |-> exited, state |-> Outcome(x),
   code |-> IF exited THEN "runtime_exit"
            ELSE IF ~x.complete THEN "resource_capture"
            ELSE IF x.oom THEN "oom"
            ELSE Code(x)]

\* benchmarkRunManifestSchema
WellFormed(run) ==
  /\ Valid(run.said) <=> run.state = "completed"
  /\ run.code = "none" => Valid(run.said) /\ run.said.complete /\ ~run.exited /\ ~run.said.oom

\* The failure code validateResumedRun computes
Expected(run) ==
  IF run.exited THEN "runtime_exit"
  ELSE IF run.said.oom THEN "oom"
  ELSE IF ~run.said.complete THEN "resource_capture"
  ELSE Code(run.said)

Accepted(run, plan) ==
  WellFormed(run) /\ run.plan = plan /\ run.state = Outcome(run.said) /\ run.code = Expected(run)

Succeeded(run) ==
  /\ run.state = "completed" /\ run.code = "none" /\ Valid(run.said)
  /\ run.said.complete /\ ~run.exited /\ ~run.said.oom

\* operationalRunSetPassed, over pairs of an index and a run
Passed(got) == {g[1] : g \in got} = Runs /\ \A g \in got : Succeeded(g[2])

ReportOn(plan, got) == [plan |-> plan, runs |-> got, passed |-> Passed(got)]

-----------------------------------------------------------------------------
(* The runtime around the work                                             *)

\* A command finds its port occupied while a server of its own is left from before
Start(c, p) ==
  /\ At(c, "idle") /\ server[c] = "none"
  /\ cmd' = [cmd EXCEPT ![c] = [Quiet EXCEPT !.pc = "loading", !.plan = p]]
  /\ server' = [server EXCEPT ![c] = "up"]
  /\ UNCHANGED <<Disk, Exclusion, Ghosts, faults>>

\* waitForHealth: the model was not loaded in time, or the server went meanwhile
LoadFails(c) ==
  /\ At(c, "loading") /\ Goes(c, "stopping")
  /\ IF server[c] = "reaped" THEN UNCHANGED faults ELSE Fault
  /\ UNCHANGED <<Disk, Exclusion, server, Ghosts>>

\* The server may go whenever it likes; one that nobody owns any more is killed by hand
ServerExits(c) ==
  /\ server[c] = "up"
  /\ IF At(c, "idle")
     THEN server' = [server EXCEPT ![c] = "none"] /\ UNCHANGED faults
     ELSE server' = [server EXCEPT ![c] = "exited"] /\ Fault
  /\ UNCHANGED <<Disk, Exclusion, cmd, Ghosts>>

\* The exit event
Reaped(c) ==
  /\ server[c] = "exited" /\ ~At(c, "idle")
  /\ server' = [server EXCEPT ![c] = "reaped"]
  /\ UNCHANGED <<Disk, Exclusion, cmd, Ghosts, faults>>

\* readChildExitEvidence after the work and one turn of the event loop; then stopOwnedChild
WorkEnds(c) ==
  /\ At(c, "ending")
  /\ cmd' = [cmd EXCEPT ![c].pc = "stopping", ![c].alive = server[c] # "reaped"]
  /\ UNCHANGED <<Disk, Exclusion, server, Ghosts, faults>>

\* assertSuccessfulRuntimeLifecycle: it lived through the work and ends with code 0 when told
Graceful(c) == cmd[c].alive /\ server[c] = "up"

\* The server is told to end, and killed if it does not; it may survive that for a while.
\* The key file is removed and the port waited for, whatever failed before.  The command
\* gives its verdict when nothing failed.
Stop(c) ==
  /\ At(c, "stopping")
  /\ \/ /\ UNCHANGED faults
        /\ told' = IF cmd[c].value # "error" /\ Graceful(c)
                   THEN told \cup {[plan |-> cmd[c].plan, verdict |-> cmd[c].value]}
                   ELSE told
        /\ server' = [server EXCEPT ![c] = "none"]
     \/ /\ Fault /\ UNCHANGED told
        /\ server' \in {server, [server EXCEPT ![c] = "none"]}
  /\ cmd' = [cmd EXCEPT ![c] = Quiet]
  /\ UNCHANGED <<Disk, Exclusion, asked>>

-----------------------------------------------------------------------------
(* The experiment's lock                                                   *)

\* Mutant: a busy lock is not an error
LockRegardless(c) ==
  /\ At(c, "loading") /\ server[c] = "up"
  /\ \/ lock = Nobody /\ lock' = c /\ Goes(c, "owning") /\ UNCHANGED faults
     \/ lock # Nobody /\ UNCHANGED <<lock, faults>> /\ Goes(c, "owning")
     \/ Fault /\ UNCHANGED lock /\ Goes(c, "stopping")
  /\ UNCHANGED <<Disk, owner, lapsed, server, Ghosts>>

\* flock --nonblock, once the server is healthy
Lock(c) ==
  /\ At(c, "loading") /\ server[c] = "up"
  /\ \/ lock = Nobody /\ lock' = c /\ Goes(c, "owning") /\ UNCHANGED faults
     \/ lock # Nobody /\ UNCHANGED <<lock, faults>> /\ Goes(c, "stopping")
     \/ Fault /\ UNCHANGED lock /\ Goes(c, "stopping")
  /\ UNCHANGED <<Disk, owner, lapsed, server, Ghosts>>

FreedBy(c) == IF lock = c THEN Nobody ELSE lock

\* writeLockOwner
Own(c) ==
  /\ At(c, "owning")
  /\ \/ owner' = c /\ UNCHANGED <<lock, faults>> /\ Goes(c, "looking")
     \/ Fault /\ UNCHANGED owner /\ lock' = FreedBy(c) /\ Goes(c, "stopping")
  /\ UNCHANGED <<Disk, lapsed, server, Ghosts>>

\* releaseExperimentLock: what the work came to counts if the lock was held to its end
Unlock(c) ==
  /\ At(c, "unlocking")
  /\ lock' = FreedBy(c)
  /\ IF owner = c /\ lock = c
     THEN cmd' = [cmd EXCEPT ![c].pc = IF cmd[c].value = "error" THEN "stopping" ELSE "ending"]
     ELSE cmd' = [cmd EXCEPT ![c].pc = "stopping", ![c].value = "error"]
  /\ UNCHANGED <<Disk, owner, lapsed, server, Ghosts, faults>>

\* The process that holds the lock for a command is killed
HolderKilled ==
  /\ lock # Nobody /\ Fault
  /\ lock' = Nobody /\ lapsed' = TRUE
  /\ UNCHANGED <<Disk, owner, server, cmd, Ghosts>>

\* A dead command's lock is freed; its server and its temporary file are not
Crash(c) ==
  /\ ~At(c, "idle") /\ Fault
  /\ cmd' = [cmd EXCEPT ![c] = Quiet]
  /\ lock' = FreedBy(c)
  /\ litter' = IF c \in litter THEN (litter \ {c}) \cup {Nobody} ELSE litter
  /\ UNCHANGED <<files, owner, lapsed, server, Ghosts>>

-----------------------------------------------------------------------------
(* The work under the lock                                                 *)

\* writeImmutableJson is called for an item; the work goes on at "next" when it is linked
Writes(c, item, draft, next) ==
  cmd' = [cmd EXCEPT ![c].pc = "staging", ![c].item = item, ![c].draft = draft, ![c].next = next]

\* Mutant: the plan on disk is not compared
LookTrusting(c) ==
  /\ At(c, "looking")
  /\ IF litter # {} THEN Throws(c)
     ELSE IF Plan \in DOMAIN files
     THEN cmd' = [cmd EXCEPT ![c].pc = "counting", ![c].known = DOMAIN files]
     ELSE cmd' = [cmd EXCEPT ![c].pc = "staging", ![c].item = Plan, ![c].draft = cmd[c].plan,
                             ![c].next = "counting", ![c].known = DOMAIN files]
  /\ UNCHANGED <<Disk, Exclusion, server, Ghosts, faults>>

\* assertExactArtifacts; then the plan is compared or written
Look(c) ==
  /\ At(c, "looking")
  /\ IF litter # {} THEN Throws(c)
     ELSE IF Plan \in DOMAIN files
     THEN IF files[Plan] = cmd[c].plan
               /\ (ReportItem \in DOMAIN files => Runs \subseteq DOMAIN files)
          THEN cmd' = [cmd EXCEPT ![c].pc = "counting", ![c].known = DOMAIN files]
          ELSE Throws(c)
     ELSE cmd' = [cmd EXCEPT ![c].pc = "staging", ![c].item = Plan, ![c].draft = cmd[c].plan,
                             ![c].next = "counting", ![c].known = DOMAIN files]
  /\ UNCHANGED <<Disk, Exclusion, server, Ghosts, faults>>

\* The temporary file; a failed write leaves it
Stage(c) ==
  /\ At(c, "staging")
  /\ \/ litter' = litter \cup {c} /\ Goes(c, "linking") /\ UNCHANGED faults
     \/ Fault /\ litter' \in {litter, litter \cup {Nobody}} /\ Throws(c)
  /\ UNCHANGED <<files, Exclusion, server, Ghosts>>

\* The directory with one more name in it
Named(item, draft) ==
  files' = [k \in DOMAIN files \cup {item} |-> IF k = item THEN draft ELSE files[k]]

\* Mutant: the temporary file is renamed to its name
LinkByRename(c) ==
  /\ At(c, "linking")
  /\ Named(cmd[c].item, cmd[c].draft)
  /\ Goes(c, "tidying")
  /\ UNCHANGED <<litter, Exclusion, server, Ghosts, faults>>

\* link fails where the name is taken
Link(c) ==
  /\ At(c, "linking")
  /\ IF cmd[c].item \notin DOMAIN files
     THEN /\ Named(cmd[c].item, cmd[c].draft)
          /\ Goes(c, "tidying") /\ UNCHANGED litter
     ELSE Throws(c) /\ litter' = litter \ {c} /\ UNCHANGED files
  /\ UNCHANGED <<Exclusion, server, Ghosts, faults>>

\* A temporary name that could not be removed stays
Tidy(c) ==
  /\ At(c, "tidying")
  /\ \/ litter' = litter \ {c} /\ Goes(c, cmd[c].next) /\ UNCHANGED faults
     \/ Fault /\ litter' = (litter \ {c}) \cup {Nobody} /\ Throws(c)
  /\ UNCHANGED <<files, Exclusion, server, Ghosts>>

\* The prompt's tokens are counted by the server
CountTokens(c) ==
  /\ At(c, "counting")
  /\ \/ server[c] = "up" /\ Goes(c, "running") /\ UNCHANGED faults
     \/ server[c] # "up" /\ Throws(c) /\ UNCHANGED faults
     \/ Fault /\ Throws(c)
  /\ UNCHANGED <<Disk, Exclusion, server, Ghosts>>

\* A run that was recorded before is read back
Resume(c) ==
  /\ At(c, "running") /\ cmd[c].at \in Runs /\ cmd[c].at \in cmd[c].known
  /\ LET i == cmd[c].at
         run == files[i]
     IN IF Accepted(run, cmd[c].plan)
        THEN cmd' = [cmd EXCEPT ![c].got = @ \cup {<<i, run>>}, ![c].at = i + 1]
        ELSE Throws(c)
  /\ UNCHANGED <<Disk, Exclusion, server, Ghosts, faults>>

\* A run is done, and is to be written
Records(c, run) ==
  LET i == cmd[c].at
  IN /\ cmd' = [cmd EXCEPT ![c] =
                 [cmd[c] EXCEPT !.pc = "staging", !.item = i, !.draft = run, !.next = "running",
                                !.at = i + 1, !.got = cmd[c].got \cup {<<i, run>>}]]
     /\ asked' = IF i \in DOMAIN files THEN asked \cup {i} ELSE asked

\* createRun.  A server that is gone answers nothing; one that goes while it is asked, or
\* after, may have answered, and its exit is or is not yet known.
Ask(c, x) ==
  /\ At(c, "running") /\ cmd[c].at \in Runs /\ cmd[c].at \notin cmd[c].known
  /\ server[c] # "up" => x.response = "transport"
  /\ Records(c, Recorded(cmd[c].plan, x, server[c] = "reaped"))
  /\ UNCHANGED <<Disk, Exclusion, server, told, faults>>

AskAndExit(c, x) ==
  /\ At(c, "running") /\ cmd[c].at \in Runs /\ cmd[c].at \notin cmd[c].known
  /\ server[c] = "up" /\ Fault
  /\ \E known \in BOOLEAN :
       /\ server' = [server EXCEPT ![c] = IF known THEN "reaped" ELSE "exited"]
       /\ Records(c, Recorded(cmd[c].plan, x, known))
  /\ UNCHANGED <<Disk, Exclusion, told>>

\* The report is recomputed and compared with the one on disk, or written
Report(c) ==
  /\ At(c, "running") /\ cmd[c].at = ReportItem
  /\ LET report == ReportOn(cmd[c].plan, cmd[c].got)
     IN IF ReportItem \in cmd[c].known
        THEN IF files[ReportItem] = report THEN Goes(c, "checking") ELSE Throws(c)
        ELSE Writes(c, ReportItem, report, "checking")
  /\ UNCHANGED <<Disk, Exclusion, server, Ghosts, faults>>

\* assertExactArtifacts again, and the verdict
Check(c) ==
  /\ At(c, "checking")
  /\ IF litter = {} /\ DOMAIN files = Items
     THEN cmd' = [cmd EXCEPT ![c].pc = "unlocking",
                             ![c].value = IF Passed(cmd[c].got) THEN "PASS" ELSE "FAIL"]
     ELSE Throws(c)
  /\ UNCHANGED <<Disk, Exclusion, server, Ghosts, faults>>

-----------------------------------------------------------------------------

\* What a command does by itself
Step(c) ==
  \/ LoadFails(c) \/ Lock(c) \/ Own(c) \/ Look(c) \/ Stage(c) \/ Link(c) \/ Tidy(c)
  \/ CountTokens(c) \/ Resume(c) \/ Report(c) \/ Check(c)
  \/ Unlock(c) \/ WorkEnds(c) \/ Stop(c)
  \/ \E x \in Completions : Ask(c, x) \/ AskAndExit(c, x)

Next ==
  \/ HolderKilled
  \/ \E c \in Commands :
       \/ Step(c) \/ ServerExits(c) \/ Reaped(c) \/ Crash(c)
       \/ \E p \in Plans : Start(c, p)

Spec == Init /\ [][Next]_vars

-----------------------------------------------------------------------------

OnDisk == {<<i, files[i]>> : i \in Runs}

\* Every variable has its type
TypeOK ==
  /\ DOMAIN files \subseteq Items
  /\ litter \subseteq Commands \cup {Nobody}
  /\ lock \in Commands \cup {Nobody} /\ owner \in Commands \cup {Nobody}
  /\ server \in [Commands -> {"none", "up", "exited", "reaped"}]
  /\ told \subseteq [plan : Plans, verdict : {"PASS", "FAIL"}]
  /\ asked \subseteq Runs

(* A verdict stands on evidence that is on disk: a report is the one its   *)
(* runs give, PASS was told for runs of that plan that all succeeded, and  *)
(* no two commands that reached a verdict disagree, though lock holders    *)
(* are killed and commands die between any two steps.                      *)
EvidenceStands ==
  /\ TypeOK
  /\ ReportItem \in DOMAIN files =>
       Runs \subseteq DOMAIN files /\ files[ReportItem] = ReportOn(files[Plan], OnDisk)
  /\ \A t \in told :
       /\ DOMAIN files = Items /\ files[Plan] = t.plan
       /\ \A i \in Runs : files[i].plan = t.plan
       /\ t.verdict = "PASS" <=> \A i \in Runs : Succeeded(files[i])
  /\ \A t, u \in told : t = u

(* While no lock holder is killed the model is asked for each run once.    *)
NoRunRepeated == ~lapsed => asked = {}

(* What was linked stays as it is, by whomever and under whatever lock.    *)
ArtifactsStand ==
  [][\A item \in DOMAIN files : item \in DOMAIN files' /\ files'[item] = files[item]]_vars

(* "Resume rehashes and reparses raw provider bytes ... and rejects stale, *)
(* substituted, tampered, symlinked, or extra artifacts", and those only:  *)
(* a run the benchmark itself recorded under this plan is accepted.        *)
OwnRunsAccepted == \A i \in Runs \cap DOMAIN files : Accepted(files[i], files[Plan])
=============================================================================
