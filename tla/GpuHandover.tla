---------------------------- MODULE GpuHandover -----------------------------
(***************************************************************************)
(* Who has the GPU.  Several processes (web servers, command-line drivers) *)
(* run directors, each with its own llama-server, and speech batches, each *)
(* with its own Python worker, one after the other in every process and    *)
(* unaware of other processes but for the lease: a kernel lock kept by a   *)
(* holder child, which dies with its process, and a quarantine marker file,*)
(* which does not.                                                         *)
(*                                                                         *)
(* A director is single-use, as in the code, and a batch is one            *)
(* beginManagedBatch.  A step is a synchronous block or an event of a      *)
(* child process.  Every bounded wait may run out.                         *)
(***************************************************************************)
EXTENDS Naturals, FiniteSets

CONSTANTS
  Hosts,        \* processes
  Directors,    \* instances of GemmaDirectorModel with their OwnedLlamaLifecycle
  Batches,      \* managed batches of QwenTtsSpeechEngine
  HostOf,       \* the process each of them lives in
  Nobody,
  Platform,     \* linux: flock holder and nvidia-smi; darwin: kernel-lock helper, no inspection
  Faults,       \* whether children survive SIGKILL, files cannot be written, ports stay busy and
                \* the GPU's use cannot be told
  Crashes       \* whether processes die

Users == Directors \cup Batches

ASSUME UsersAssumption ==
  /\ HostOf \in [Users -> Hosts]
  /\ Directors \cap Batches = {} /\ Nobody \notin Users
  /\ IsFiniteSet(Users)

ASSUME PlatformAssumption ==
  Platform \in {"linux", "darwin"} /\ Faults \in BOOLEAN /\ Crashes \in BOOLEAN

VARIABLES
  up,           \* the processes that live
  stopping,     \* those whose shutdown has begun
  lock,         \* whose holder has the kernel lock
  marker,       \* whether the quarantine marker exists
  lease,        \* how far each user's acquire has come
  director,     \* op: the chapter operation; start, server, cleanup: the lifecycle; release
  batch         \* pc; worker: whether its process lives

vars == <<up, stopping, lock, marker, lease, director, batch>>

NewDirector ==
  [op |-> "idle", start |-> "none", server |-> FALSE, cleanup |-> "none", release |-> "none"]

Init ==
  /\ up = Hosts /\ stopping = {}
  /\ lock = Nobody /\ marker = FALSE
  /\ lease = [u \in Users |-> "none"]
  /\ director = [d \in Directors |-> NewDirector]
  /\ batch = [q \in Batches |-> [pc |-> "idle", worker |-> FALSE]]

-----------------------------------------------------------------------------

Alive(u) == HostOf[u] \in up

\* The users whose model process exists, with its own process or without
Loaded == {d \in Directors : director[d].server} \cup {q \in Batches : batch[q].worker}

Began(u) == IF u \in Directors THEN director[u].op # "idle" ELSE batch[u].pc # "idle"

Ended(u) ==
  IF u \in Directors THEN director[u].release \in {"done", "failed"} ELSE batch[u].pc = "over"

\* GenerationRunner: one operation at a time, none after beginShutdown
MayBegin(u) ==
  /\ Alive(u) /\ HostOf[u] \notin stopping /\ ~Began(u)
  /\ \A v \in Users \ {u} : HostOf[v] = HostOf[u] /\ Began(v) => Ended(v)

\* The signal given to acquire: the process's, and the director's own
Aborted(u) ==
  \/ HostOf[u] \in stopping
  \/ u \in Directors /\ director[u].release # "none"

Unlocked(u) == IF lock = u THEN Nobody ELSE lock

-----------------------------------------------------------------------------
(* FileGpuLeaseCoordinator.acquire                                         *)

LeaseGoes(u, to) == lease' = [lease EXCEPT ![u] = to]

\* The holder prints its token
AcquireLock(u) ==
  /\ Alive(u) /\ lease[u] = "spawning" /\ lock = Nobody /\ ~Aborted(u)
  /\ lock' = u /\ LeaseGoes(u, "locked")
  /\ UNCHANGED <<up, stopping, marker, director, batch>>

\* It exits because the lock is held, is killed by the signal, or does not start
AcquireRefused(u) ==
  /\ Alive(u) /\ lease[u] = "spawning"
  /\ lock # Nobody \/ Aborted(u) \/ Faults
  /\ LeaseGoes(u, "refused")
  /\ UNCHANGED <<up, stopping, lock, marker, director, batch>>

\* On linux the signal reaches the holder until acquire returns
HolderTerminated(u) ==
  /\ Platform = "linux" /\ Alive(u) /\ Aborted(u)
  /\ lease[u] \in {"locked", "unmarked"} /\ lock = u
  /\ lock' = Nobody
  /\ UNCHANGED <<up, stopping, marker, lease, director, batch>>

\* Mutant: the marker is not looked for
MarkerIgnored(u) ==
  /\ Alive(u) /\ lease[u] = "locked"
  /\ LeaseGoes(u, "unmarked")
  /\ UNCHANGED <<up, stopping, lock, marker, director, batch>>

\* assertNotQuarantined, under the lock
CheckMarker(u) ==
  /\ Alive(u) /\ lease[u] = "locked"
  /\ IF marker THEN LeaseGoes(u, "refused") /\ lock' = Unlocked(u)
     ELSE LeaseGoes(u, "unmarked") /\ UNCHANGED lock
  /\ UNCHANGED <<up, stopping, marker, director, batch>>

\* classifyComputeApp: a live process outside this process's tree
Foreign(u) == {v \in Loaded : HostOf[v] # HostOf[u]}

\* Mutant: whatever runs on the GPU, and whoever was aborted meanwhile, the lease is handed out
InspectNothing(u) ==
  /\ Alive(u) /\ lease[u] = "unmarked"
  /\ LeaseGoes(u, "held")
  /\ UNCHANGED <<up, stopping, lock, marker, director, batch>>

\* diagnoseExistingCompute, and the lease is handed out.  Nvidia-smi may fail, or report memory
\* that no process accounts for
Inspect(u) ==
  /\ Alive(u) /\ lease[u] = "unmarked"
  /\ \/ /\ Platform = "linux" /\ (Foreign(u) # {} \/ Aborted(u) \/ Faults)
        /\ LeaseGoes(u, "refused") /\ lock' = Unlocked(u)
     \/ /\ Platform = "linux" => Foreign(u) = {} /\ ~Aborted(u)
        /\ LeaseGoes(u, "held") /\ UNCHANGED lock
  /\ UNCHANGED <<up, stopping, marker, director, batch>>

\* GpuLease.release: the holder ends, or survives and keeps the lock
Released(u) ==
  /\ LeaseGoes(u, "released")
  /\ lock' = Unlocked(u) \/ (Faults /\ UNCHANGED lock)

Acquire(u) ==
  AcquireLock(u) \/ AcquireRefused(u) \/ HolderTerminated(u) \/ CheckMarker(u) \/ Inspect(u)

-----------------------------------------------------------------------------
(* OwnedLlamaLifecycle                                                     *)

Changes(d, field, to) == director' = [director EXCEPT ![d][field] = to]

Releasing(d) == director[d].cleanup # "none"

\* start, called by ensureRuntimeReady once there is a lease
StartServer(d) ==
  /\ Alive(d) /\ lease[d] = "held" /\ director[d].start = "none"
  /\ Changes(d, "start", IF Releasing(d) THEN "failed" ELSE "writing")
  /\ UNCHANGED <<up, stopping, lock, marker, lease, batch>>

\* Mutant: releasing is not looked at again after the key file is written
SpawnUnchecked(d) ==
  /\ Alive(d) /\ director[d].start = "writing"
  /\ \/ director' = [director EXCEPT ![d].start = "loading", ![d].server = TRUE]
     \/ Faults /\ Changes(d, "start", "failed")
  /\ UNCHANGED <<up, stopping, lock, marker, lease, batch>>

\* The key file is written: the last check and the spawn are one block
Spawn(d) ==
  /\ Alive(d) /\ director[d].start = "writing"
  /\ \/ ~Releasing(d) /\ director' = [director EXCEPT ![d].start = "loading", ![d].server = TRUE]
     \/ (Releasing(d) \/ Faults) /\ Changes(d, "start", "failed")
  /\ UNCHANGED <<up, stopping, lock, marker, lease, batch>>

\* waitForHealth
ServerHealthy(d) ==
  /\ Alive(d) /\ director[d].start = "loading" /\ director[d].server
  /\ Changes(d, "start", "healthy")
  /\ UNCHANGED <<up, stopping, lock, marker, lease, batch>>

\* It exited, or the startup deadline passed and it may still be loading
ServerUnhealthy(d) ==
  /\ Alive(d) /\ director[d].start = "loading"
  /\ Changes(d, "start", "failed")
  /\ UNCHANGED <<up, stopping, lock, marker, lease, batch>>

ServerExits(d) ==
  /\ director[d].server
  /\ Changes(d, "server", FALSE)
  /\ UNCHANGED <<up, stopping, lock, marker, lease, batch>>

\* reapChild: SIGTERM, then SIGKILL, each with a bounded wait
Reaped(d, next) ==
  /\ \/ director' = [director EXCEPT ![d].server = FALSE, ![d].cleanup = next]
     \/ Faults /\ director[d].server /\ Changes(d, "cleanup", "failed")
  /\ UNCHANGED <<up, stopping, lock, marker, lease, batch>>

Reap(d) == Alive(d) /\ director[d].cleanup = "reap" /\ Reaped(d, "settle")

ReapAgain(d) == Alive(d) /\ director[d].cleanup = "reapAgain" /\ Reaped(d, "port")

\* Mutant: the wait for a start that never settles is not bounded
SettleUnbounded(d) ==
  /\ Alive(d) /\ director[d].cleanup = "settle"
  /\ director[d].start \notin {"writing", "loading"}
  /\ Changes(d, "cleanup", "reapAgain")
  /\ UNCHANGED <<up, stopping, lock, marker, lease, batch>>

\* awaitStartupSettled: startup settles, or thirty seconds pass
Settle(d) ==
  /\ Alive(d) /\ director[d].cleanup = "settle"
  /\ Changes(d, "cleanup",
       IF director[d].start \in {"writing", "loading"} THEN "failed" ELSE "reapAgain")
  /\ UNCHANGED <<up, stopping, lock, marker, lease, batch>>

\* The key file is removed and the port probed until it is free
FreePort(d) ==
  /\ Alive(d) /\ director[d].cleanup = "port"
  /\ \E result \in {"done"} \cup (IF Faults THEN {"failed"} ELSE {}) :
       Changes(d, "cleanup", result)
  /\ UNCHANGED <<up, stopping, lock, marker, lease, batch>>

Cleanup(d) == Reap(d) \/ Settle(d) \/ ReapAgain(d) \/ FreePort(d)

Lifecycle(d) ==
  StartServer(d) \/ Spawn(d) \/ ServerHealthy(d) \/ ServerUnhealthy(d) \/ ServerExits(d) \/ Cleanup(d)

-----------------------------------------------------------------------------
(* GemmaDirectorModel, and DirectAudiobook around it                       *)

\* directChapter calls ensureRuntimeReady, which asks for the lease
Direct(d) ==
  /\ MayBegin(d)
  /\ Changes(d, "op", "starting") /\ LeaseGoes(d, "spawning")
  /\ UNCHANGED <<up, stopping, lock, marker, batch>>

DirectReady(d) ==
  /\ Alive(d) /\ director[d].op = "starting" /\ director[d].start = "healthy"
  /\ Changes(d, "op", "directing")
  /\ UNCHANGED <<up, stopping, lock, marker, lease, batch>>

\* The last chapter is done, one failed, or the deadline passed, whatever is still under way
DirectOver(d) ==
  /\ Alive(d) /\ director[d].op \in {"starting", "directing"}
  /\ Changes(d, "op", "over")
  /\ UNCHANGED <<up, stopping, lock, marker, lease, batch>>

\* release: abort, and call the lifecycle's release, which is memoised
ReleaseDirector(d) ==
  /\ Alive(d) /\ director[d].op = "over" /\ director[d].release = "none"
  /\ director' = [director EXCEPT ![d].release = "lifecycle",
                                  ![d].cleanup = IF @ = "none" THEN "reap" ELSE @]
  /\ UNCHANGED <<up, stopping, lock, marker, lease, batch>>

\* Mutant: the lease is given up whether or not the cleanup succeeded
AfterCleanupRegardless(d) ==
  /\ Alive(d) /\ director[d].release = "lifecycle"
  /\ director[d].cleanup \in {"done", "failed"} /\ Changes(d, "release", "lease")
  /\ UNCHANGED <<up, stopping, lock, marker, lease, batch>>

AfterCleanup(d) ==
  /\ Alive(d) /\ director[d].release = "lifecycle"
  /\ \/ director[d].cleanup = "done" /\ Changes(d, "release", "lease")
     \/ /\ director[d].cleanup = "failed"
        /\ Changes(d, "release", IF lease[d] = "held" THEN "quarantine" ELSE "failed")
  /\ UNCHANGED <<up, stopping, lock, marker, lease, batch>>

\* The marker is written, or cannot be; the lease is kept either way
Quarantine(d) ==
  /\ Alive(d) /\ director[d].release = "quarantine"
  /\ Changes(d, "release", "failed")
  /\ marker' = TRUE \/ (Faults /\ UNCHANGED marker)
  /\ UNCHANGED <<up, stopping, lock, lease, batch>>

\* The lease there is by now, if any
ReleaseLease(d) ==
  /\ Alive(d) /\ director[d].release = "lease"
  /\ \/ /\ lease[d] = "held" /\ Released(d)
        /\ \/ lock' # d /\ Changes(d, "release", "done")
           \/ Faults /\ Changes(d, "release", "failed")
     \/ /\ lease[d] # "held" /\ UNCHANGED <<lock, lease>>
        /\ Changes(d, "release", "done")
  /\ UNCHANGED <<up, stopping, marker, batch>>

Release(d) == ReleaseDirector(d) \/ AfterCleanup(d) \/ Quarantine(d) \/ ReleaseLease(d)

-----------------------------------------------------------------------------
(* QwenTtsSpeechEngine and its worker                                      *)

BatchGoes(q, pc) == batch' = [batch EXCEPT ![q].pc = pc]

\* beginManagedBatch
BeginBatch(q) ==
  /\ MayBegin(q)
  /\ BatchGoes(q, "acquiring") /\ LeaseGoes(q, "spawning")
  /\ UNCHANGED <<up, stopping, lock, marker, director>>

BatchRefused(q) ==
  /\ Alive(q) /\ batch[q].pc = "acquiring" /\ lease[q] = "refused"
  /\ BatchGoes(q, "over")
  /\ UNCHANGED <<up, stopping, lock, marker, lease, director>>

StartWorker(q) ==
  /\ Alive(q) /\ batch[q].pc = "acquiring" /\ lease[q] = "held"
  /\ batch' = [batch EXCEPT ![q] = [pc |-> "rendering", worker |-> TRUE]]
  /\ UNCHANGED <<up, stopping, lock, marker, lease, director>>

WorkerExits(q) ==
  /\ batch[q].worker
  /\ batch' = [batch EXCEPT ![q].worker = FALSE]
  /\ UNCHANGED <<up, stopping, lock, marker, lease, director>>

\* renderWithSeedRetries after a health-gate failure
ReplaceWorker(q) ==
  /\ Alive(q) /\ batch[q].pc = "rendering" /\ ~batch[q].worker /\ ~Aborted(q)
  /\ batch' = [batch EXCEPT ![q].worker = TRUE]
  /\ UNCHANGED <<up, stopping, lock, marker, lease, director>>

\* finish or abort: the worker is told to go
StopWorker(q) ==
  /\ Alive(q) /\ batch[q].pc = "rendering"
  /\ BatchGoes(q, "stopping")
  /\ UNCHANGED <<up, stopping, lock, marker, lease, director>>

\* Mutant: the worker's exit is not awaited
EndBatchAtOnce(q) ==
  /\ Alive(q) /\ batch[q].pc = "stopping"
  /\ BatchGoes(q, "over") /\ Released(q)
  /\ UNCHANGED <<up, stopping, marker, director>>

EndBatch(q) ==
  /\ Alive(q) /\ batch[q].pc = "stopping" /\ ~batch[q].worker
  /\ BatchGoes(q, "over") /\ Released(q)
  /\ UNCHANGED <<up, stopping, marker, director>>

Speech(q) ==
  \/ BeginBatch(q) \/ BatchRefused(q) \/ StartWorker(q) \/ WorkerExits(q) \/ ReplaceWorker(q)
  \/ StopWorker(q) \/ EndBatch(q)

-----------------------------------------------------------------------------
(* Processes and the operator                                              *)

\* ShutdownController.prepare: abort everything and release every lifecycle there is
Stop(h) ==
  /\ h \in up \ stopping
  /\ stopping' = stopping \cup {h}
  /\ director' = [d \in Directors |->
       IF HostOf[d] = h /\ director[d].op # "idle" /\ ~Releasing(d)
       THEN [director[d] EXCEPT !.cleanup = "reap"] ELSE director[d]]
  /\ UNCHANGED <<up, lock, marker, lease, batch>>

\* Mutant: the holder does not notice that its input has ended
CrashKeepsHolder(h) ==
  /\ Crashes /\ h \in up
  /\ up' = up \ {h} /\ stopping' = stopping \ {h}
  /\ lease' = [u \in Users |-> IF HostOf[u] = h THEN "none" ELSE lease[u]]
  /\ director' = [d \in Directors |->
       IF HostOf[d] = h THEN [NewDirector EXCEPT !.server = director[d].server] ELSE director[d]]
  /\ batch' = [q \in Batches |->
       IF HostOf[q] = h THEN [pc |-> "idle", worker |-> batch[q].worker] ELSE batch[q]]
  /\ UNCHANGED <<lock, marker>>

\* A process dies: its holders see their input end, its model processes may stay
Crash(h) ==
  /\ Crashes /\ h \in up
  /\ up' = up \ {h} /\ stopping' = stopping \ {h}
  /\ lock' = IF lock \in Users /\ HostOf[lock] = h THEN Nobody ELSE lock
  /\ lease' = [u \in Users |-> IF HostOf[u] = h THEN "none" ELSE lease[u]]
  /\ director' = [d \in Directors |->
       IF HostOf[d] = h THEN [NewDirector EXCEPT !.server = director[d].server] ELSE director[d]]
  /\ batch' = [q \in Batches |->
       IF HostOf[q] = h THEN [pc |-> "idle", worker |-> batch[q].worker] ELSE batch[q]]
  /\ UNCHANGED marker

\* The operator has verified that no model process remains and none is about to be spawned
RemoveMarker ==
  /\ marker /\ Loaded = {}
  /\ \A d \in Directors : director[d].start = "writing" => Releasing(d)
  /\ marker' = FALSE
  /\ UNCHANGED <<up, stopping, lock, lease, director, batch>>

Next ==
  \/ \E u \in Users : Acquire(u)
  \/ \E d \in Directors : Lifecycle(d) \/ Direct(d) \/ DirectReady(d) \/ DirectOver(d) \/ Release(d)
  \/ \E q \in Batches : Speech(q)
  \/ \E h \in Hosts : Stop(h) \/ Crash(h)
  \/ RemoveMarker

Spec == Init /\ [][Next]_vars

\* Bounded waits end, deadlines pass, and a worker sent SIGKILL goes.  Nothing makes a file
\* operation finish, a server start or an operator act.
Fairness ==
  /\ \A u \in Users : WF_vars(Acquire(u))
  /\ \A d \in Directors : WF_vars(DirectOver(d)) /\ WF_vars(Release(d)) /\ WF_vars(Cleanup(d))
  /\ \A q \in Batches :
       /\ WF_vars(BatchRefused(q)) /\ WF_vars(StartWorker(q)) /\ WF_vars(EndBatch(q))
       /\ WF_vars(batch[q].pc = "stopping" /\ WorkerExits(q))

FairSpec == Spec /\ Fairness

-----------------------------------------------------------------------------

DirectorRecords ==
  [op: {"idle", "starting", "directing", "over"},
   start: {"none", "writing", "loading", "healthy", "failed"},
   server: BOOLEAN,
   cleanup: {"none", "reap", "settle", "reapAgain", "port", "done", "failed"},
   release: {"none", "lifecycle", "quarantine", "lease", "done", "failed"}]

BatchRecords == [pc: {"idle", "acquiring", "rendering", "stopping", "over"}, worker: BOOLEAN]

TypeOK ==
  /\ up \subseteq Hosts /\ stopping \subseteq up
  /\ lock = Nobody \/ (lock \in Users /\ Alive(lock))
  /\ marker \in BOOLEAN
  /\ lease \in [Users -> {"none", "spawning", "locked", "unmarked", "held", "refused", "released"}]
  /\ director \in [Directors -> DirectorRecords]
  /\ batch \in [Batches -> BatchRecords]

(* A model process whose owner lives runs under its owner's kernel lock,   *)
(* from its spawn to its exit: through failed starts, raced deadlines,     *)
(* replaced workers, shutdowns and cleanups that fail.                     *)
ResidentUnderLease == \A u \in Loaded : Alive(u) => lock = u

(* No server comes into being after release began, however far its start   *)
(* had come: release closes the gate in the same synchronous block.        *)
SpawnsInTime ==
  \A d \in Directors : director'[d].server /\ ~director[d].server => ~Releasing(d)

NoSpawnAfterRelease == [][SpawnsInTime]_vars

(* A cleanup that could not be proven blocks the GPU: while the marker is  *)
(* there nobody gets a lease, even after the process that wrote it died.   *)
NoLeaseWhileMarked == marker => \A u \in Users : lease'[u] = "held" => lease[u] = "held"

MarkerBlocks == [][NoLeaseWhileMarked]_vars

(* A director whose release has succeeded is not left with a lease, which  *)
(* nothing would give up: not even one whose acquisition was under way     *)
(* when its chapter ran out of time.                                       *)
ReleaseFreesLease ==
  \A d \in Directors : director[d].release = "done" => lease[d] # "held"

(* Every released director and every stopped batch comes to an end, with a *)
(* start that hangs, a server that will not die or a port that stays busy. *)
EveryReleaseSettles ==
  /\ \A d \in Directors : director[d].op = "starting" ~> director[d].release \in {"done", "failed"}
  /\ \A q \in Batches : batch[q].pc = "stopping" ~> batch[q].pc = "over"

-----------------------------------------------------------------------------
(* What makes these inductive                                              *)

\* Whoever was given the kernel lock and not told to let go has it
LockInv ==
  \A u \in Users :
    \/ lease[u] = "held"
    \/ lease[u] \in {"locked", "unmarked"} /\ (Platform = "darwin" \/ ~Aborted(u))
    => lock = u

\* A server lives, or may still be spawned, under a lease; a cleanup that got past its first
\* reaping has no server; and the lease is not asked for before the director begins, nor
\* given up before the cleanup is done
DirectorInv ==
  \A d \in Directors :
    /\ director[d].op = "idle" => lease[d] = "none"
    /\ director[d].server /\ Alive(d) => lease[d] = "held"
    /\ director[d].start = "writing" /\ ~Releasing(d) => lease[d] = "held"
    /\ director[d].cleanup \in {"settle", "reapAgain", "port", "done"} => ~director[d].server
    /\ director[d].release = "lease" => director[d].cleanup = "done"
    /\ director[d].release = "quarantine" => lease[d] = "held"

\* A batch has its lease from the first worker to the exit of the last
BatchInv ==
  \A q \in Batches :
    /\ batch[q].pc = "idle" => lease[q] = "none"
    /\ batch[q].pc \in {"rendering", "stopping"} => lease[q] = "held"
    /\ batch[q].worker /\ Alive(q) => batch[q].pc \in {"rendering", "stopping"}

\* An acquisition that found no marker before one was written has lost its lock by then
MarkerInv ==
  marker => \A u \in Users : lease[u] = "unmarked" => Platform = "linux" /\ Aborted(u)

HandoverInv == TypeOK /\ LockInv /\ DirectorInv /\ BatchInv /\ MarkerInv

\* Who looks at the GPU, or shares it with nobody who dies, has no other model beside its own
Exclusive == Platform = "linux" \/ ~Crashes

AloneInv ==
  /\ ~Crashes => up = Hosts
  /\ Exclusive => \A u \in Users : lease[u] = "held" => Loaded \subseteq {u}

-----------------------------------------------------------------------------
(* What the processes promise each other, see ExclusiveGpu                 *)

Owner(u) == lease[u] = "held"

Holder == IF \E u \in Users : Owner(u) THEN CHOOSE u \in Users : Owner(u) ELSE Nobody

Gpu == INSTANCE ExclusiveGpu WITH
  owner <- Holder,
  loaded <- Loaded,
  quarantined <- marker

(* The lease, the runtimes and the marker together implement an exclusive  *)
(* GPU, with every process free to die at any moment.                      *)
GpuExclusive == Gpu!Spec
=============================================================================
