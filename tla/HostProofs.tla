----------------------------- MODULE HostProofs -----------------------------
(***************************************************************************)
(* Proofs about what shares the host.  GpuHandover: for any number of      *)
(* processes, directors and batches in any distribution, with faults and   *)
(* crashes.  BenchmarkExperiment, beside it: for any number of commands,   *)
(* runs, plans and completions, with lock holders killed.                  *)
(***************************************************************************)
EXTENDS Host, TLAPS

-----------------------------------------------------------------------------
(* What a change of one field of one director does                         *)

(* A director's operation moves on and nothing else about it.              *)
LEMMA OpChanged ==
  ASSUME TypeOK, NEW d \in Directors,
         NEW x \in {"idle", "starting", "directing", "over"},
         Changes(d, "op", x)
  PROVE  /\ director' \in [Directors -> DirectorRecords]
         /\ \A e \in Directors : e # d => director'[e] = director[e]
         /\ director'[d].op = x
         /\ director'[d].start = director[d].start
         /\ director'[d].server = director[d].server
         /\ director'[d].cleanup = director[d].cleanup
         /\ director'[d].release = director[d].release
<1>1. director \in [Directors -> DirectorRecords] /\ director[d] \in DirectorRecords
  BY DEF TypeOK
<1>2. [director[d] EXCEPT !.op = x] \in DirectorRecords
  BY <1>1 DEF DirectorRecords
<1>3. QED
  BY <1>1, <1>2 DEF Changes, DirectorRecords

(* A start moves on and nothing else.                                      *)
LEMMA StartChanged ==
  ASSUME TypeOK, NEW d \in Directors,
         NEW x \in {"none", "writing", "loading", "healthy", "failed"},
         Changes(d, "start", x)
  PROVE  /\ director' \in [Directors -> DirectorRecords]
         /\ \A e \in Directors : e # d => director'[e] = director[e]
         /\ director'[d].start = x
         /\ director'[d].op = director[d].op
         /\ director'[d].server = director[d].server
         /\ director'[d].cleanup = director[d].cleanup
         /\ director'[d].release = director[d].release
<1>1. director \in [Directors -> DirectorRecords] /\ director[d] \in DirectorRecords
  BY DEF TypeOK
<1>2. [director[d] EXCEPT !.start = x] \in DirectorRecords
  BY <1>1 DEF DirectorRecords
<1>3. QED
  BY <1>1, <1>2 DEF Changes, DirectorRecords

(* A server appears or goes and nothing else.                              *)
LEMMA ServerChanged ==
  ASSUME TypeOK, NEW d \in Directors,
         NEW x \in BOOLEAN,
         Changes(d, "server", x)
  PROVE  /\ director' \in [Directors -> DirectorRecords]
         /\ \A e \in Directors : e # d => director'[e] = director[e]
         /\ director'[d].server = x
         /\ director'[d].op = director[d].op
         /\ director'[d].start = director[d].start
         /\ director'[d].cleanup = director[d].cleanup
         /\ director'[d].release = director[d].release
<1>1. director \in [Directors -> DirectorRecords] /\ director[d] \in DirectorRecords
  BY DEF TypeOK
<1>2. [director[d] EXCEPT !.server = x] \in DirectorRecords
  BY <1>1 DEF DirectorRecords
<1>3. QED
  BY <1>1, <1>2 DEF Changes, DirectorRecords

(* A cleanup moves on and nothing else.                                    *)
LEMMA CleanupChanged ==
  ASSUME TypeOK, NEW d \in Directors,
         NEW x \in {"none", "reap", "settle", "reapAgain", "port", "done", "failed"},
         Changes(d, "cleanup", x)
  PROVE  /\ director' \in [Directors -> DirectorRecords]
         /\ \A e \in Directors : e # d => director'[e] = director[e]
         /\ director'[d].cleanup = x
         /\ director'[d].op = director[d].op
         /\ director'[d].start = director[d].start
         /\ director'[d].server = director[d].server
         /\ director'[d].release = director[d].release
<1>1. director \in [Directors -> DirectorRecords] /\ director[d] \in DirectorRecords
  BY DEF TypeOK
<1>2. [director[d] EXCEPT !.cleanup = x] \in DirectorRecords
  BY <1>1 DEF DirectorRecords
<1>3. QED
  BY <1>1, <1>2 DEF Changes, DirectorRecords

(* A release moves on and nothing else.                                    *)
LEMMA ReleaseChanged ==
  ASSUME TypeOK, NEW d \in Directors,
         NEW x \in {"none", "lifecycle", "quarantine", "lease", "done", "failed"},
         Changes(d, "release", x)
  PROVE  /\ director' \in [Directors -> DirectorRecords]
         /\ \A e \in Directors : e # d => director'[e] = director[e]
         /\ director'[d].release = x
         /\ director'[d].op = director[d].op
         /\ director'[d].start = director[d].start
         /\ director'[d].server = director[d].server
         /\ director'[d].cleanup = director[d].cleanup
<1>1. director \in [Directors -> DirectorRecords] /\ director[d] \in DirectorRecords
  BY DEF TypeOK
<1>2. [director[d] EXCEPT !.release = x] \in DirectorRecords
  BY <1>1 DEF DirectorRecords
<1>3. QED
  BY <1>1, <1>2 DEF Changes, DirectorRecords

-----------------------------------------------------------------------------
(* The inductive invariant                                                 *)

(* In the beginning nobody has anything.                                   *)
LEMMA InvInit == Init => HandoverInv
<1> SUFFICES ASSUME Init PROVE HandoverInv
  OBVIOUS
<1>1. NewDirector \in DirectorRecords
  BY DEF NewDirector, DirectorRecords
<1>2. TypeOK
  BY <1>1 DEF Init, TypeOK, BatchRecords
<1>3. LockInv /\ MarkerInv
  BY DEF Init, LockInv, MarkerInv
<1>4. DirectorInv
  BY DEF Init, DirectorInv, NewDirector, Users
<1>5. BatchInv
  BY DEF Init, BatchInv, Users
<1>6. QED
  BY <1>2, <1>3, <1>4, <1>5 DEF HandoverInv

(* Locks and markers survive every step that touches neither them nor a    *)
(* lease and takes back no abort.                                          *)
LEMMA LocksKept ==
  ASSUME LockInv, MarkerInv, UNCHANGED <<lock, marker, lease>>,
         \A u \in Users : Aborted(u) => Aborted(u)'
  PROVE  LockInv' /\ MarkerInv'
  BY DEF LockInv, MarkerInv

(* The steps of an acquisition keep the invariant: only the lease of one   *)
(* user moves, and the lock follows.                                       *)
LEMMA AcquireKeeps ==
  ASSUME HandoverInv, NEW u \in Users, Acquire(u)
  PROVE  HandoverInv'
<1> USE UsersAssumption
<1>1. /\ UNCHANGED <<up, stopping, marker, director, batch>>
      /\ \E to \in {"locked", "unmarked", "held", "refused"} : LeaseGoes(u, to) \/ UNCHANGED lease
      /\ lease[u] \in {"spawning", "locked", "unmarked"}
  BY DEF Acquire, AcquireLock, AcquireRefused, HolderTerminated, CheckMarker, Inspect
<1>2. /\ \A v \in Users : v # u => lease'[v] = lease[v]
      /\ \A v \in Users : Aborted(v)' <=> Aborted(v)
      /\ lease[u] # "held" /\ lease[u] # "none"
  BY <1>1 DEF HandoverInv, TypeOK, LeaseGoes, Aborted
<1>3. TypeOK'
  <2>1. lease' \in [Users -> {"none", "spawning", "locked", "unmarked", "held", "refused", "released"}]
    BY <1>1 DEF HandoverInv, TypeOK, LeaseGoes
  <2>2. lock' \in {lock, u, Nobody} /\ Alive(u)
    BY DEF Acquire, AcquireLock, AcquireRefused, HolderTerminated, CheckMarker, Inspect, Unlocked
  <2>3. QED
    BY <1>1, <2>1, <2>2 DEF HandoverInv, TypeOK, Alive
<1>4. LockInv'
  <2> USE <1>1, <1>2 DEF HandoverInv, TypeOK, LockInv, LeaseGoes
  <2>1. CASE AcquireLock(u)
    BY <2>1 DEF AcquireLock
  <2>2. CASE AcquireRefused(u)
    BY <2>2 DEF AcquireRefused
  <2>3. CASE HolderTerminated(u)
    BY <2>3 DEF HolderTerminated
  <2>4. CASE CheckMarker(u)
    BY <2>4 DEF CheckMarker, Unlocked
  <2>5. CASE Inspect(u)
    BY <2>5, PlatformAssumption DEF Inspect, Unlocked
  <2>6. QED
    BY <2>1, <2>2, <2>3, <2>4, <2>5 DEF Acquire
<1>5. DirectorInv'
  BY <1>1, <1>2 DEF HandoverInv, DirectorInv, Users, Releasing, Alive
<1>6. BatchInv'
  BY <1>1, <1>2 DEF HandoverInv, BatchInv, Users, Alive
<1>7. MarkerInv'
  <2>1. marker => lease'[u] # "unmarked" \/ lease[u] = "unmarked"
    BY <1>1 DEF HandoverInv, TypeOK, LeaseGoes, Acquire, AcquireLock, AcquireRefused,
                HolderTerminated, CheckMarker, Inspect
  <2>2. QED
    BY <1>1, <1>2, <2>1 DEF HandoverInv, MarkerInv
<1>8. QED
  BY <1>3, <1>4, <1>5, <1>6, <1>7 DEF HandoverInv

(* The steps of a llama-server's lifecycle keep the invariant: no lease    *)
(* moves, and a server appears only where the lease is held and no cleanup *)
(* has begun.                                                              *)
LEMMA LifecycleKeeps ==
  ASSUME HandoverInv, NEW d \in Directors, Lifecycle(d)
  PROVE  HandoverInv'
<1> USE UsersAssumption
<1>1. UNCHANGED <<up, stopping, lock, marker, lease, batch>>
  BY DEF Lifecycle, StartServer, Spawn, ServerHealthy, ServerUnhealthy, ServerExits,
         Cleanup, Reap, ReapAgain, Reaped, Settle, FreePort
<1>2. TypeOK /\ DirectorInv /\ director[d] \in DirectorRecords
  BY DEF HandoverInv, TypeOK
<1> SUFFICES
      /\ director' \in [Directors -> DirectorRecords]
      /\ \A e \in Directors : e # d => director'[e] = director[e]
      /\ director'[d].op = director[d].op
      /\ director'[d].release = director[d].release
      /\ director[d].cleanup # "none" => director'[d].cleanup # "none"
      /\ director'[d].server =>
           director[d].server \/ (director[d].start = "writing" /\ ~Releasing(d))
      /\ director'[d].start = "writing" /\ director'[d].cleanup = "none" =>
           director[d].cleanup = "none" /\ (director[d].start = "writing" \/ lease[d] = "held")
      /\ director'[d].cleanup \in {"settle", "reapAgain", "port", "done"} =>
           ~director'[d].server
      /\ director[d].cleanup = "done" => director'[d].cleanup = "done"
  <2>1. TypeOK'
    BY <1>1, <1>2 DEF TypeOK, Alive
  <2>2. \A u \in Users : Aborted(u) => Aborted(u)'
    BY <1>1, <1>2 DEF Aborted
  <2>3. LockInv' /\ MarkerInv'
    BY <1>1, <2>2, LocksKept DEF HandoverInv
  <2>4. BatchInv'
    BY <1>1 DEF HandoverInv, BatchInv, Alive
  <2>5. DirectorInv'
    BY <1>1, <1>2 DEF DirectorInv, Alive, Releasing
  <2>6. QED
    BY <2>1, <2>3, <2>4, <2>5 DEF HandoverInv
<1> USE <1>1, <1>2 DEF DirectorInv, Releasing
<1>3. CASE StartServer(d)
  BY <1>3, StartChanged DEF StartServer
<1>4. CASE Spawn(d)
  <2>1. CASE Changes(d, "start", "failed")
    BY <1>4, <2>1, StartChanged DEF Spawn
  <2>2. CASE ~Releasing(d) /\ director' = [director EXCEPT ![d].start = "loading", ![d].server = TRUE]
    <3>1. [director[d] EXCEPT !.start = "loading", !.server = TRUE] \in DirectorRecords
      BY DEF DirectorRecords
    <3>2. director \in [Directors -> DirectorRecords]
      BY DEF TypeOK
    <3>3. QED
      BY <1>4, <2>2, <3>1, <3>2 DEF Spawn, DirectorRecords
  <2>3. QED
    BY <1>4, <2>1, <2>2 DEF Spawn
<1>5. CASE ServerHealthy(d)
  BY <1>5, StartChanged DEF ServerHealthy
<1>6. CASE ServerUnhealthy(d)
  BY <1>6, StartChanged DEF ServerUnhealthy
<1>7. CASE ServerExits(d)
  BY <1>7, ServerChanged DEF ServerExits
<1>8. ASSUME NEW next \in {"settle", "port"}, Reaped(d, next),
             director[d].cleanup \in {"reap", "reapAgain"}
      PROVE  /\ director' \in [Directors -> DirectorRecords]
             /\ \A e \in Directors : e # d => director'[e] = director[e]
             /\ director'[d].op = director[d].op
             /\ director'[d].release = director[d].release
             /\ director'[d].start = director[d].start
             /\ director'[d].server => director[d].server
             /\ director'[d].cleanup \in {next, "failed"}
             /\ director'[d].cleanup = next => ~director'[d].server
  <2>1. CASE director[d].server /\ Changes(d, "cleanup", "failed")
    BY <1>8, <2>1, CleanupChanged
  <2>2. CASE director' = [director EXCEPT ![d].server = FALSE, ![d].cleanup = next]
    <3>1. [director[d] EXCEPT !.server = FALSE, !.cleanup = next] \in DirectorRecords
      BY <1>8 DEF DirectorRecords
    <3>2. director \in [Directors -> DirectorRecords]
      BY DEF TypeOK
    <3>3. QED
      BY <1>8, <2>2, <3>1, <3>2 DEF DirectorRecords
  <2>3. QED
    BY <1>8, <2>1, <2>2 DEF Reaped
<1>9. CASE Reap(d)
  BY <1>8, <1>9 DEF Reap
<1>10. CASE ReapAgain(d)
  BY <1>8, <1>10 DEF ReapAgain
<1>11. CASE Settle(d)
  BY <1>11, CleanupChanged DEF Settle
<1>12. CASE FreePort(d)
  BY <1>12, CleanupChanged DEF FreePort
<1>13. QED
  BY <1>3, <1>4, <1>5, <1>6, <1>7, <1>9, <1>10, <1>11, <1>12 DEF Lifecycle, Cleanup

(* Directing and releasing keep the invariant: a lease is asked for by a   *)
(* director that has none, and given up after the cleanup only.            *)
LEMMA DirectorKeeps ==
  ASSUME HandoverInv, NEW d \in Directors,
         Direct(d) \/ DirectReady(d) \/ DirectOver(d) \/ Release(d)
  PROVE  HandoverInv'
<1> USE UsersAssumption
<1>1. UNCHANGED <<up, stopping, batch>> /\ Alive(d) /\ d \in Users /\ d \notin Batches
  BY DEF Direct, DirectReady, DirectOver, Release, ReleaseDirector, AfterCleanup,
         Quarantine, ReleaseLease, Users, MayBegin
<1>2. TypeOK /\ LockInv /\ DirectorInv /\ BatchInv /\ MarkerInv /\ director[d] \in DirectorRecords
  BY DEF HandoverInv, TypeOK
\* What is left to show of a step that moves no lease
<1>3. ASSUME UNCHANGED <<lock, marker, lease>>,
             director' \in [Directors -> DirectorRecords],
             \A e \in Directors : e # d => director'[e] = director[e],
             director'[d].op = "idle" => director[d].op = "idle",
             director'[d].start = director[d].start,
             director'[d].server = director[d].server,
             director'[d].cleanup = director[d].cleanup
               \/ (director[d].cleanup = "none" /\ director'[d].cleanup = "reap"),
             director'[d].release = "none" => director[d].release = "none",
             director'[d].release = "lease" => director'[d].cleanup = "done",
             director'[d].release = "quarantine" => lease[d] = "held"
      PROVE  HandoverInv'
  <2>1. TypeOK'
    BY <1>1, <1>2, <1>3 DEF TypeOK, Alive
  <2>2. \A u \in Users : Aborted(u) => Aborted(u)'
    BY <1>1, <1>3 DEF Aborted
  <2>3. LockInv' /\ MarkerInv'
    BY <1>2, <1>3, <2>2, LocksKept
  <2>4. BatchInv'
    BY <1>1, <1>2, <1>3 DEF BatchInv, Alive
  <2>5. DirectorInv'
    BY <1>1, <1>2, <1>3 DEF DirectorInv, Alive, Releasing
  <2>6. QED
    BY <2>1, <2>3, <2>4, <2>5 DEF HandoverInv
<1>4. CASE Direct(d)
  <2>1. lease[d] = "none" /\ director[d].op = "idle" /\ lease' = [lease EXCEPT ![d] = "spawning"]
    BY <1>1, <1>2, <1>4 DEF Direct, MayBegin, Began, DirectorInv, LeaseGoes
  <2>2. /\ director' \in [Directors -> DirectorRecords]
        /\ \A e \in Directors : e # d => director'[e] = director[e]
        /\ director'[d].op = "starting"
        /\ director'[d].start = director[d].start
        /\ director'[d].server = director[d].server
        /\ director'[d].cleanup = director[d].cleanup
        /\ director'[d].release = director[d].release
    BY <1>2, <1>4, OpChanged DEF Direct
  <2>3. UNCHANGED <<lock, marker>>
    BY <1>4 DEF Direct
  <2>4. TypeOK'
    BY <1>1, <1>2, <2>1, <2>2, <2>3 DEF TypeOK, Alive
  <2>5. \A u \in Users : /\ Aborted(u)' <=> Aborted(u)
                         /\ u # d => lease'[u] = lease[u]
                         /\ lease'[d] = "spawning"
    BY <1>1, <1>2, <2>1, <2>2 DEF TypeOK, Aborted
  <2>6. LockInv' /\ MarkerInv'
    BY <1>2, <2>1, <2>3, <2>5 DEF LockInv, MarkerInv
  <2>7. BatchInv'
    BY <1>1, <1>2, <2>5 DEF BatchInv, Users, Alive
  <2>8. DirectorInv'
    BY <1>1, <1>2, <2>1, <2>2, <2>5 DEF DirectorInv, Users, Alive, Releasing
  <2>9. QED
    BY <2>4, <2>6, <2>7, <2>8 DEF HandoverInv
<1>5. CASE DirectReady(d)
  BY <1>2, <1>3, <1>5, OpChanged DEF DirectReady, DirectorInv
<1>6. CASE DirectOver(d)
  BY <1>2, <1>3, <1>6, OpChanged DEF DirectOver, DirectorInv
<1>7. CASE ReleaseDirector(d)
  <2>1. PICK c \in {director[d].cleanup, "reap"} :
          /\ director' = [director EXCEPT ![d].release = "lifecycle", ![d].cleanup = c]
          /\ c # director[d].cleanup => director[d].cleanup = "none"
    BY <1>2, <1>7 DEF ReleaseDirector, TypeOK
  <2>2. [director[d] EXCEPT !.release = "lifecycle", !.cleanup = c] \in DirectorRecords
    BY <1>2 DEF DirectorRecords
  <2>3. /\ director' \in [Directors -> DirectorRecords]
        /\ \A e \in Directors : e # d => director'[e] = director[e]
        /\ director'[d].op = director[d].op
        /\ director'[d].start = director[d].start
        /\ director'[d].server = director[d].server
        /\ director'[d].cleanup = c
        /\ director'[d].release = "lifecycle"
    BY <1>2, <2>1, <2>2 DEF TypeOK, DirectorRecords
  <2>4. UNCHANGED <<lock, marker, lease>>
    BY <1>7 DEF ReleaseDirector
  <2>5. QED
    BY <1>3, <2>1, <2>3, <2>4
<1>8. CASE AfterCleanup(d)
  BY <1>2, <1>3, <1>8, ReleaseChanged DEF AfterCleanup, DirectorInv
<1>9. CASE Quarantine(d)
  <2>1. lease[d] = "held" /\ lock = d /\ UNCHANGED <<lock, lease>> /\ marker' \in {TRUE, marker}
    BY <1>1, <1>2, <1>9 DEF Quarantine, DirectorInv, LockInv
  <2>2. /\ director' \in [Directors -> DirectorRecords]
        /\ \A e \in Directors : e # d => director'[e] = director[e]
        /\ director'[d].op = director[d].op
        /\ director'[d].start = director[d].start
        /\ director'[d].server = director[d].server
        /\ director'[d].cleanup = director[d].cleanup
        /\ director'[d].release = "failed" /\ director[d].release = "quarantine"
    BY <1>2, <1>9, ReleaseChanged DEF Quarantine
  <2>3. TypeOK'
    BY <1>1, <1>2, <2>1, <2>2 DEF TypeOK, Alive
  <2>4. \A u \in Users : Aborted(u)' <=> Aborted(u)
    BY <1>1, <2>2 DEF Aborted
  <2>5. LockInv' /\ DirectorInv' /\ BatchInv'
    BY <1>1, <1>2, <2>1, <2>2, <2>4 DEF LockInv, DirectorInv, BatchInv, Alive, Releasing
  \* Nobody else has the lock, so nobody is past its check and still to be served
  <2>6. \A u \in Users : lease[u] = "unmarked" => Platform = "linux" /\ Aborted(u)
    BY <1>2, <2>1, PlatformAssumption DEF LockInv
  <2>7. MarkerInv'
    BY <2>1, <2>4, <2>6 DEF MarkerInv
  <2>8. QED
    BY <2>3, <2>5, <2>7 DEF HandoverInv
<1>10. CASE ReleaseLease(d)
  <2>1. /\ director[d].release = "lease" /\ director[d].cleanup = "done" /\ ~director[d].server
        /\ UNCHANGED marker
    BY <1>2, <1>10 DEF ReleaseLease, DirectorInv
  <2>2. PICK result \in {"done", "failed"} : Changes(d, "release", result)
    BY <1>10 DEF ReleaseLease
  <2>3. /\ director' \in [Directors -> DirectorRecords]
        /\ \A e \in Directors : e # d => director'[e] = director[e]
        /\ director'[d].op = director[d].op
        /\ director'[d].start = director[d].start
        /\ director'[d].server = director[d].server
        /\ director'[d].cleanup = director[d].cleanup
        /\ director'[d].release = result
    BY <1>2, <2>2, ReleaseChanged
  <2>4. \A u \in Users : Aborted(u)' <=> Aborted(u)
    BY <1>1, <2>1, <2>3 DEF Aborted
  <2>5. CASE lease[d] # "held"
    BY <1>3, <1>10, <2>1, <2>3, <2>5 DEF ReleaseLease
  <2>6. CASE lease[d] = "held"
    <3>1. /\ lease' = [lease EXCEPT ![d] = "released"]
          /\ lock = d /\ lock' \in {lock, Nobody}
          /\ director[d].op # "idle"
      <4>1. lock = d /\ director[d].op # "idle"
        BY <1>1, <1>2, <2>6 DEF LockInv, DirectorInv
      <4>2. Released(d)
        BY <1>10, <2>6 DEF ReleaseLease
      <4>3. QED
        BY <4>1, <4>2 DEF Released, LeaseGoes, Unlocked
    <3>2. /\ lease'[d] = "released" /\ \A u \in Users : u # d => lease'[u] = lease[u]
      BY <1>1, <1>2, <3>1 DEF TypeOK
    <3>3. TypeOK'
      BY <1>1, <1>2, <2>1, <2>3, <3>1 DEF TypeOK, Alive
    <3>4. LockInv' /\ MarkerInv'
      BY <1>2, <2>1, <2>4, <3>1, <3>2 DEF LockInv, MarkerInv
    <3>5. BatchInv'
      BY <1>1, <1>2, <3>2 DEF BatchInv, Users, Alive
    <3>6. DirectorInv'
      BY <1>1, <1>2, <2>1, <2>3, <3>1, <3>2 DEF DirectorInv, Users, Alive, Releasing
    <3>7. QED
      BY <3>3, <3>4, <3>5, <3>6 DEF HandoverInv
  <2>7. QED
    BY <2>5, <2>6
<1>11. QED
  BY <1>4, <1>5, <1>6, <1>7, <1>8, <1>9, <1>10 DEF Release

(* The steps of a speech batch keep the invariant: workers come and go     *)
(* under the lease, which goes after the last of them.                     *)
LEMMA SpeechKeeps ==
  ASSUME HandoverInv, NEW q \in Batches, Speech(q)
  PROVE  HandoverInv'
<1> USE UsersAssumption
<1>1. UNCHANGED <<up, stopping, marker, director>> /\ q \in Users /\ q \notin Directors
  BY DEF Speech, BeginBatch, BatchRefused, StartWorker, WorkerExits, ReplaceWorker,
         StopWorker, EndBatch, Users
<1>2. TypeOK /\ LockInv /\ DirectorInv /\ BatchInv /\ MarkerInv /\ batch[q] \in BatchRecords
  BY DEF HandoverInv, TypeOK
<1>3. /\ batch' \in [Batches -> BatchRecords]
      /\ \A p \in Batches : p # q => batch'[p] = batch[p]
  <2> USE <1>2 DEF TypeOK, BatchRecords, BatchGoes
  <2>1. CASE BeginBatch(q)
    BY <2>1 DEF BeginBatch
  <2>2. CASE BatchRefused(q)
    BY <2>2 DEF BatchRefused
  <2>3. CASE StartWorker(q)
    BY <2>3 DEF StartWorker
  <2>4. CASE WorkerExits(q)
    BY <2>4 DEF WorkerExits
  <2>5. CASE ReplaceWorker(q)
    BY <2>5 DEF ReplaceWorker
  <2>6. CASE StopWorker(q)
    BY <2>6 DEF StopWorker
  <2>7. CASE EndBatch(q)
    BY <2>7 DEF EndBatch
  <2>8. QED
    BY <2>1, <2>2, <2>3, <2>4, <2>5, <2>6, <2>7 DEF Speech
<1>4. \A u \in Users : Aborted(u)' <=> Aborted(u)
  BY <1>1 DEF Aborted
\* What is left to show of a step that moves no lease
<1>5. ASSUME UNCHANGED <<lock, lease>>,
             batch'[q].pc = "idle" => batch[q].pc = "idle",
             batch'[q].pc \in {"rendering", "stopping"} => lease[q] = "held",
             batch'[q].worker /\ Alive(q) => batch'[q].pc \in {"rendering", "stopping"}
      PROVE  HandoverInv'
  <2>1. TypeOK'
    BY <1>1, <1>2, <1>3, <1>5 DEF TypeOK, Alive
  <2>2. LockInv' /\ MarkerInv'
    BY <1>1, <1>2, <1>4, <1>5, LocksKept
  <2>3. DirectorInv'
    BY <1>1, <1>2, <1>5 DEF DirectorInv, Alive, Releasing
  <2>4. BatchInv'
    BY <1>1, <1>2, <1>3, <1>5 DEF BatchInv, Alive
  <2>5. QED
    BY <2>1, <2>2, <2>3, <2>4 DEF HandoverInv
\* What is left to show of a step that moves the lease of q
<1>6. ASSUME NEW to \in {"spawning", "released"},
             lease' = [lease EXCEPT ![q] = to],
             lock' = lock \/ (lock = q /\ lock' = Nobody),
             batch'[q].pc \notin {"idle", "rendering", "stopping"},
             batch'[q].worker => ~Alive(q)
      PROVE  HandoverInv'
  <2>1. lease'[q] = to /\ \A u \in Users : u # q => lease'[u] = lease[u]
    BY <1>1, <1>2, <1>6 DEF TypeOK
  <2>2. TypeOK'
    BY <1>1, <1>2, <1>3, <1>6 DEF TypeOK, Alive
  <2>3. LockInv' /\ MarkerInv'
    BY <1>1, <1>2, <1>4, <1>6, <2>1 DEF LockInv, MarkerInv
  <2>4. DirectorInv'
    BY <1>1, <1>2, <2>1 DEF DirectorInv, Users, Alive, Releasing
  <2>5. BatchInv'
    BY <1>1, <1>2, <1>3, <1>6, <2>1 DEF BatchInv, Users, Alive
  <2>6. QED
    BY <2>2, <2>3, <2>4, <2>5 DEF HandoverInv
<1>7. CASE BeginBatch(q)
  <2>1. batch[q].pc = "idle" /\ Alive(q)
    BY <1>1, <1>7 DEF BeginBatch, MayBegin, Began
  <2>2. ~batch[q].worker
    BY <1>2, <2>1 DEF BatchInv
  <2>3. batch'[q].pc = "acquiring" /\ batch'[q].worker = batch[q].worker
    BY <1>2, <1>7 DEF BeginBatch, BatchGoes, TypeOK, BatchRecords
  <2>4. lease' = [lease EXCEPT ![q] = "spawning"] /\ lock' = lock
    BY <1>7 DEF BeginBatch, LeaseGoes
  <2>5. QED
    BY <1>6, <2>2, <2>3, <2>4
<1>8. CASE BatchRefused(q)
  <2>1. batch'[q].pc = "over" /\ batch'[q].worker = batch[q].worker
    BY <1>2, <1>8 DEF BatchRefused, BatchGoes, TypeOK, BatchRecords
  <2>2. batch[q].pc = "acquiring" /\ UNCHANGED <<lock, lease>>
    BY <1>8 DEF BatchRefused
  <2>3. QED
    BY <1>2, <1>5, <2>1, <2>2 DEF BatchInv
<1>9. CASE StartWorker(q)
  <2>1. batch'[q].pc = "rendering"
    BY <1>2, <1>9 DEF StartWorker, TypeOK, BatchRecords
  <2>2. lease[q] = "held" /\ UNCHANGED <<lock, lease>>
    BY <1>9 DEF StartWorker
  <2>3. QED
    BY <1>5, <2>1, <2>2
<1>10. CASE WorkerExits(q)
  <2>1. batch'[q].pc = batch[q].pc /\ ~batch'[q].worker
    BY <1>2, <1>10 DEF WorkerExits, TypeOK, BatchRecords
  <2>2. UNCHANGED <<lock, lease>>
    BY <1>10 DEF WorkerExits
  <2>3. QED
    BY <1>2, <1>5, <2>1, <2>2 DEF BatchInv
<1>11. CASE ReplaceWorker(q)
  <2>1. batch'[q].pc = "rendering" /\ batch[q].pc = "rendering"
    BY <1>2, <1>11 DEF ReplaceWorker, TypeOK, BatchRecords
  <2>2. UNCHANGED <<lock, lease>>
    BY <1>11 DEF ReplaceWorker
  <2>3. QED
    BY <1>2, <1>5, <2>1, <2>2 DEF BatchInv
<1>12. CASE StopWorker(q)
  <2>1. batch'[q].pc = "stopping" /\ batch[q].pc = "rendering"
    BY <1>2, <1>12 DEF StopWorker, BatchGoes, TypeOK, BatchRecords
  <2>2. UNCHANGED <<lock, lease>>
    BY <1>12 DEF StopWorker
  <2>3. QED
    BY <1>2, <1>5, <2>1, <2>2 DEF BatchInv
<1>13. CASE EndBatch(q)
  <2>1. batch[q].pc = "stopping" /\ ~batch[q].worker
    BY <1>13 DEF EndBatch
  <2>2. batch'[q].pc = "over" /\ ~batch'[q].worker
    BY <1>2, <1>13, <2>1 DEF EndBatch, BatchGoes, TypeOK, BatchRecords
  <2>3. /\ lease' = [lease EXCEPT ![q] = "released"]
        /\ lock' = lock \/ (lock = q /\ lock' = Nobody)
    BY <1>13 DEF EndBatch, Released, LeaseGoes, Unlocked
  <2>4. QED
    BY <1>6, <2>2, <2>3
<1>14. QED
  BY <1>7, <1>8, <1>9, <1>10, <1>11, <1>12, <1>13 DEF Speech

(* A shutdown keeps the invariant: cleanups begin where there were none.   *)
LEMMA StopKeeps ==
  ASSUME HandoverInv, NEW h \in Hosts, Stop(h)
  PROVE  HandoverInv'
<1> USE UsersAssumption
<1>1. UNCHANGED <<up, lock, marker, lease, batch>> /\ stopping' = stopping \cup {h} /\ h \in up
  BY DEF Stop
<1>2. TypeOK /\ LockInv /\ DirectorInv /\ BatchInv /\ MarkerInv
  BY DEF HandoverInv
<1>3. \A d \in Directors : director[d] \in DirectorRecords
  BY <1>2 DEF TypeOK
<1>4. \A d \in Directors : [director[d] EXCEPT !.cleanup = "reap"] \in DirectorRecords
  BY <1>3 DEF DirectorRecords
<1>5. director' \in [Directors -> DirectorRecords]
  BY <1>3, <1>4 DEF Stop
<1>6. \A d \in Directors :
        /\ director'[d].op = director[d].op
        /\ director'[d].start = director[d].start
        /\ director'[d].server = director[d].server
        /\ director'[d].release = director[d].release
        /\ director'[d].cleanup = director[d].cleanup
             \/ (director[d].cleanup = "none" /\ director'[d].cleanup = "reap")
  BY <1>3 DEF Stop, DirectorRecords, Releasing
<1>7. TypeOK'
  BY <1>1, <1>2, <1>5 DEF TypeOK, Alive
<1>8. \A u \in Users : Aborted(u) => Aborted(u)'
  BY <1>1, <1>6 DEF Aborted
<1>9. LockInv' /\ MarkerInv'
  BY <1>1, <1>2, <1>8, LocksKept
<1>10. DirectorInv'
  BY <1>1, <1>2, <1>6 DEF DirectorInv, Alive, Releasing
<1>11. BatchInv'
  BY <1>1, <1>2 DEF BatchInv, Alive
<1>12. QED
  BY <1>7, <1>9, <1>10, <1>11 DEF HandoverInv

(* The death of a process keeps the invariant: it takes with it the lock   *)
(* and the leases of its users, but not their model processes.             *)
LEMMA CrashKeeps ==
  ASSUME HandoverInv, NEW h \in Hosts, Crash(h)
  PROVE  HandoverInv'
<1> USE UsersAssumption
<1>1. /\ up' = up \ {h} /\ stopping' = stopping \ {h} /\ UNCHANGED marker
      /\ lock' = IF lock \in Users /\ HostOf[lock] = h THEN Nobody ELSE lock
      /\ lease' = [u \in Users |-> IF HostOf[u] = h THEN "none" ELSE lease[u]]
  BY DEF Crash
<1>2. TypeOK /\ LockInv /\ DirectorInv /\ BatchInv /\ MarkerInv
  BY DEF HandoverInv
<1>3. \A d \in Directors : director[d] \in DirectorRecords
  BY <1>2 DEF TypeOK
<1>4. \A d \in Directors :
        /\ [NewDirector EXCEPT !.server = director[d].server] \in DirectorRecords
        /\ [NewDirector EXCEPT !.server = director[d].server].op = "idle"
        /\ [NewDirector EXCEPT !.server = director[d].server].start = "none"
        /\ [NewDirector EXCEPT !.server = director[d].server].cleanup = "none"
        /\ [NewDirector EXCEPT !.server = director[d].server].release = "none"
  BY <1>3 DEF NewDirector, DirectorRecords
<1>5. /\ director' \in [Directors -> DirectorRecords]
      /\ \A d \in Directors :
           IF HostOf[d] = h
           THEN /\ director'[d].op = "idle" /\ director'[d].start = "none"
                /\ director'[d].cleanup = "none" /\ director'[d].release = "none"
           ELSE director'[d] = director[d]
  BY <1>3, <1>4 DEF Crash
<1>6. \A q \in Batches : batch[q] \in BatchRecords
  BY <1>2 DEF TypeOK
<1>7. \A q \in Batches : [pc |-> "idle", worker |-> batch[q].worker] \in BatchRecords
  BY <1>6 DEF BatchRecords
<1>8. /\ batch' \in [Batches -> BatchRecords]
      /\ \A q \in Batches :
           IF HostOf[q] = h THEN batch'[q].pc = "idle" ELSE batch'[q] = batch[q]
  BY <1>6, <1>7 DEF Crash
<1>9. TypeOK'
  BY <1>1, <1>2, <1>5, <1>8 DEF TypeOK, Alive
<1>10. \A u \in Users : HostOf[u] # h => (Aborted(u)' <=> Aborted(u))
  BY <1>1, <1>5 DEF Aborted
<1>11. LockInv' /\ MarkerInv'
  BY <1>1, <1>2, <1>10 DEF LockInv, MarkerInv
<1>12. DirectorInv'
  BY <1>1, <1>2, <1>5 DEF DirectorInv, Alive, Releasing, Users
<1>13. BatchInv'
  BY <1>1, <1>2, <1>8 DEF BatchInv, Alive, Users
<1>14. QED
  BY <1>9, <1>11, <1>12, <1>13 DEF HandoverInv

(* Every step keeps the invariant.                                         *)
LEMMA InvNext == HandoverInv /\ [Next]_vars => HandoverInv'
<1> SUFFICES ASSUME HandoverInv, [Next]_vars PROVE HandoverInv'
  OBVIOUS
<1>1. CASE RemoveMarker
  <2>1. UNCHANGED <<up, stopping, lock, lease, director, batch>> /\ marker' = FALSE
    BY <1>1 DEF RemoveMarker
  <2>2. QED
    BY <2>1 DEF HandoverInv, TypeOK, LockInv, DirectorInv, BatchInv, MarkerInv, Alive,
                Aborted, Releasing
<1>2. CASE UNCHANGED vars
  BY <1>2 DEF vars, HandoverInv, TypeOK, LockInv, DirectorInv, BatchInv, MarkerInv, Alive,
              Aborted, Releasing
<1>3. QED
  BY <1>1, <1>2, AcquireKeeps, LifecycleKeeps, DirectorKeeps, SpeechKeeps, StopKeeps,
     CrashKeeps DEF Next

(* The invariant holds throughout.                                         *)
LEMMA InvAlways == Spec => []HandoverInv
  BY InvInit, InvNext, PTL DEF Spec


-----------------------------------------------------------------------------
(* Who can bring what about                                                *)

(* A lease is handed out by the last step of acquire and by nothing else.  *)
LEMMA OnlyInspectHands ==
  ASSUME TypeOK, Next, NEW u \in Users, lease'[u] = "held", lease[u] # "held"
  PROVE  Inspect(u)
<1>1. lease \in [Users -> {"none", "spawning", "locked", "unmarked", "held", "refused", "released"}]
  BY DEF TypeOK
<1>2. ASSUME NEW v \in Users, Acquire(v) PROVE Inspect(u)
  BY <1>1, <1>2 DEF Acquire, AcquireLock, AcquireRefused, HolderTerminated, CheckMarker, Inspect,
                    LeaseGoes
<1>3. ASSUME NEW d \in Directors,
             Lifecycle(d) \/ Direct(d) \/ DirectReady(d) \/ DirectOver(d) \/ Release(d)
      PROVE  FALSE
  <2>1. d \in Users
    BY DEF Users
  <2>2. UNCHANGED lease \/ LeaseGoes(d, "spawning") \/ LeaseGoes(d, "released")
    BY <1>3 DEF Lifecycle, StartServer, Spawn, ServerHealthy, ServerUnhealthy, ServerExits, Cleanup,
                Reap, ReapAgain, Reaped, Settle, FreePort, Direct, DirectReady, DirectOver, Release,
                ReleaseDirector, AfterCleanup, Quarantine, ReleaseLease, Released
  <2>3. QED
    BY <1>1, <2>1, <2>2 DEF LeaseGoes
<1>4. ASSUME NEW q \in Batches, Speech(q) PROVE FALSE
  <2>1. q \in Users
    BY DEF Users
  <2>2. UNCHANGED lease \/ LeaseGoes(q, "spawning") \/ LeaseGoes(q, "released")
    BY <1>4 DEF Speech, BeginBatch, BatchRefused, StartWorker, WorkerExits, ReplaceWorker,
                StopWorker, EndBatch, Released
  <2>3. QED
    BY <1>1, <2>1, <2>2 DEF LeaseGoes
<1>5. ASSUME NEW h \in Hosts, Stop(h) \/ Crash(h) PROVE FALSE
  BY <1>1, <1>5 DEF Stop, Crash
<1>6. ~RemoveMarker
  BY DEF RemoveMarker
<1>7. QED
  BY <1>2, <1>3, <1>4, <1>5, <1>6 DEF Next

(* A server comes into being by Spawn and by nothing else.                 *)
LEMMA OnlySpawnSpawns ==
  ASSUME TypeOK, Next, NEW d \in Directors, director'[d].server, ~director[d].server
  PROVE  Spawn(d)
<1>1. /\ director \in [Directors -> DirectorRecords]
      /\ \A e \in Directors : director[e] \in DirectorRecords
  BY DEF TypeOK
<1>2. director' # director
  OBVIOUS
<1>3. ASSUME NEW e \in Directors, Lifecycle(e) PROVE Spawn(d)
  <2>1. CASE Spawn(e)
    <3>1. d = e
      BY <1>1, <2>1 DEF Spawn, Changes
    <3>2. QED
      BY <2>1, <3>1
  <2>2. CASE StartServer(e) \/ ServerHealthy(e) \/ ServerUnhealthy(e) \/ ServerExits(e)
    BY <1>1, <2>2 DEF StartServer, ServerHealthy, ServerUnhealthy, ServerExits, Changes,
                      DirectorRecords
  <2>3. CASE Cleanup(e)
    BY <1>1, <2>3 DEF Cleanup, Reap, ReapAgain, Reaped, Settle, FreePort, Changes, DirectorRecords
  <2>4. QED
    BY <1>3, <2>1, <2>2, <2>3 DEF Lifecycle
<1>4. ASSUME NEW e \in Directors, Direct(e) \/ DirectReady(e) \/ DirectOver(e) \/ Release(e)
      PROVE  FALSE
  BY <1>1, <1>4 DEF Direct, DirectReady, DirectOver, Release, ReleaseDirector, AfterCleanup,
                    Quarantine, ReleaseLease, Changes, DirectorRecords
<1>5. ASSUME NEW h \in Hosts, Stop(h) \/ Crash(h) PROVE FALSE
  BY <1>1, <1>5 DEF Stop, Crash, NewDirector, DirectorRecords
<1>6. ASSUME NEW u \in Users, Acquire(u) PROVE FALSE
  BY <1>2, <1>6 DEF Acquire, AcquireLock, AcquireRefused, HolderTerminated, CheckMarker, Inspect
<1>7. ASSUME NEW q \in Batches, Speech(q) PROVE FALSE
  BY <1>2, <1>7 DEF Speech, BeginBatch, BatchRefused, StartWorker, WorkerExits, ReplaceWorker,
                    StopWorker, EndBatch
<1>8. ~RemoveMarker
  BY <1>2 DEF RemoveMarker
<1>9. QED
  BY <1>3, <1>4, <1>5, <1>6, <1>7, <1>8 DEF Next

(* A worker comes into being by StartWorker or ReplaceWorker only.         *)
LEMMA OnlyTheseLoad ==
  ASSUME TypeOK, Next, NEW q \in Batches, batch'[q].worker, ~batch[q].worker
  PROVE  StartWorker(q) \/ ReplaceWorker(q)
<1>1. /\ batch \in [Batches -> BatchRecords]
      /\ \A p \in Batches : batch[p] \in BatchRecords
  BY DEF TypeOK
<1>2. batch' # batch
  OBVIOUS
<1>3. ASSUME NEW p \in Batches, Speech(p) PROVE StartWorker(q) \/ ReplaceWorker(q)
  <2>1. CASE StartWorker(p) \/ ReplaceWorker(p)
    <3>1. p = q
      BY <1>1, <2>1 DEF StartWorker, ReplaceWorker
    <3> QED
      BY <2>1, <3>1
  <2>2. CASE BeginBatch(p) \/ BatchRefused(p) \/ WorkerExits(p) \/ StopWorker(p) \/ EndBatch(p)
    BY <1>1, <2>2 DEF BeginBatch, BatchRefused, WorkerExits, StopWorker, EndBatch, BatchGoes,
                      BatchRecords
  <2> QED
    BY <1>3, <2>1, <2>2 DEF Speech
<1>4. ASSUME NEW u \in Users, Acquire(u) PROVE FALSE
  BY <1>2, <1>4 DEF Acquire, AcquireLock, AcquireRefused, HolderTerminated, CheckMarker, Inspect
<1>5. ASSUME NEW d \in Directors,
             Lifecycle(d) \/ Direct(d) \/ DirectReady(d) \/ DirectOver(d) \/ Release(d)
      PROVE  FALSE
  BY <1>2, <1>5 DEF Lifecycle, StartServer, Spawn, ServerHealthy, ServerUnhealthy, ServerExits,
                    Cleanup, Reap, ReapAgain, Reaped, Settle, FreePort, Direct, DirectReady,
                    DirectOver, Release, ReleaseDirector, AfterCleanup, Quarantine, ReleaseLease
<1>6. ASSUME NEW h \in Hosts, Stop(h) \/ Crash(h) PROVE FALSE
  BY <1>1, <1>2, <1>6 DEF Stop, Crash
<1>7. ~RemoveMarker
  BY <1>2 DEF RemoveMarker
<1> QED
  BY <1>3, <1>4, <1>5, <1>6, <1>7 DEF Next

(* A release succeeds by giving up its lease, or by finding none.          *)
LEMMA OnlyReleaseLeaseEnds ==
  ASSUME TypeOK, Next, NEW d \in Directors,
         director'[d].release = "done", director[d].release # "done"
  PROVE  ReleaseLease(d)
<1>1. /\ director \in [Directors -> DirectorRecords]
      /\ \A e \in Directors : director[e] \in DirectorRecords
  BY DEF TypeOK
<1>2. director' # director
  OBVIOUS
<1>3. ASSUME NEW e \in Directors, Lifecycle(e) PROVE FALSE
  <2>1. CASE Cleanup(e)
    BY <1>1, <2>1 DEF Cleanup, Reap, ReapAgain, Reaped, Settle, FreePort, Changes, DirectorRecords
  <2>2. CASE StartServer(e) \/ Spawn(e) \/ ServerHealthy(e) \/ ServerUnhealthy(e) \/ ServerExits(e)
    BY <1>1, <2>2 DEF StartServer, Spawn, ServerHealthy, ServerUnhealthy, ServerExits, Changes,
                      DirectorRecords
  <2>3. QED
    BY <1>3, <2>1, <2>2 DEF Lifecycle
<1>4. ASSUME NEW e \in Directors, Direct(e) \/ DirectReady(e) \/ DirectOver(e)
      PROVE  FALSE
  BY <1>1, <1>4 DEF Direct, DirectReady, DirectOver, Changes, DirectorRecords
<1>5. ASSUME NEW e \in Directors, Release(e) PROVE ReleaseLease(d)
  <2>1. CASE ReleaseLease(e)
    <3>1. d = e
      BY <1>1, <2>1 DEF ReleaseLease, Changes
    <3>2. QED
      BY <2>1, <3>1
  <2>2. CASE ReleaseDirector(e) \/ AfterCleanup(e) \/ Quarantine(e)
    BY <1>1, <2>2 DEF ReleaseDirector, AfterCleanup, Quarantine, Changes, DirectorRecords
  <2>3. QED
    BY <1>5, <2>1, <2>2 DEF Release
<1>6. ASSUME NEW h \in Hosts, Stop(h) \/ Crash(h) PROVE FALSE
  BY <1>1, <1>6 DEF Stop, Crash, NewDirector, DirectorRecords
<1>7. ASSUME NEW u \in Users, Acquire(u) PROVE FALSE
  BY <1>2, <1>7 DEF Acquire, AcquireLock, AcquireRefused, HolderTerminated, CheckMarker, Inspect
<1>8. ASSUME NEW q \in Batches, Speech(q) PROVE FALSE
  BY <1>2, <1>8 DEF Speech, BeginBatch, BatchRefused, StartWorker, WorkerExits, ReplaceWorker,
                    StopWorker, EndBatch
<1>9. ~RemoveMarker
  BY <1>2 DEF RemoveMarker
<1>10. QED
  BY <1>3, <1>4, <1>5, <1>6, <1>7, <1>8, <1>9 DEF Next

-----------------------------------------------------------------------------
(* What follows                                                            *)

(* Every variable stays in its type: in particular a kernel lock is never  *)
(* left to a process that has died.                                        *)
THEOREM TypeCorrect == Spec => []TypeOK
<1>1. HandoverInv => TypeOK
  BY DEF HandoverInv
<1>2. QED
  BY <1>1, InvAlways, PTL

(* Whatever model a living process has on the GPU, the kernel lock is its  *)
(* owner's.                                                                *)
THEOREM ResidentSafe == Spec => []ResidentUnderLease
<1>1. ASSUME HandoverInv, NEW u \in Loaded, Alive(u) PROVE lock = u
  <2>1. u \in Users /\ lease[u] = "held"
    BY <1>1 DEF HandoverInv, DirectorInv, BatchInv, Loaded, Users
  <2>2. QED
    BY <1>1, <2>1 DEF HandoverInv, LockInv
<1>2. HandoverInv => ResidentUnderLease
  BY <1>1 DEF ResidentUnderLease
<1>3. QED
  BY <1>2, InvAlways, PTL

(* Two living processes never have a model on the GPU at the same time,    *)
(* nor do two users of one process.                                        *)
THEOREM OneResident ==
  Spec => [](\A u, v \in Loaded : Alive(u) /\ Alive(v) => u = v)
<1>1. ResidentUnderLease => \A u, v \in Loaded : Alive(u) /\ Alive(v) => u = v
  BY DEF ResidentUnderLease
<1>2. QED
  BY <1>1, ResidentSafe, PTL

(* No server comes into being once its release has begun.                  *)
THEOREM NoLateSpawn == Spec => NoSpawnAfterRelease
<1>1. HandoverInv /\ [Next]_vars => [SpawnsInTime]_vars
  <2> SUFFICES ASSUME HandoverInv, Next, NEW d \in Directors,
                      director'[d].server, ~director[d].server
               PROVE  ~Releasing(d)
    BY DEF SpawnsInTime
  <2>1. director \in [Directors -> DirectorRecords] /\ director[d] \in DirectorRecords
    BY DEF HandoverInv, TypeOK
  <2>2. Spawn(d)
    BY OnlySpawnSpawns DEF HandoverInv
  <2>3. QED
    BY <2>1, <2>2 DEF Spawn, Changes, DirectorRecords
<1>2. QED
  BY <1>1, InvAlways, PTL DEF Spec, NoSpawnAfterRelease

(* Nobody is given the lease while the quarantine marker is there.         *)
THEOREM MarkerRespected == Spec => MarkerBlocks
<1>1. HandoverInv /\ [Next]_vars => [NoLeaseWhileMarked]_vars
  <2> SUFFICES ASSUME HandoverInv, Next, marker, NEW u \in Users,
                      lease'[u] = "held", lease[u] # "held"
               PROVE  FALSE
    BY DEF NoLeaseWhileMarked
  <2>1. Inspect(u)
    BY OnlyInspectHands DEF HandoverInv
  <2>2. Platform = "linux" /\ Aborted(u)
    BY <2>1 DEF Inspect, HandoverInv, MarkerInv
  <2>3. lease'[u] = "refused"
    BY <2>1, <2>2 DEF Inspect, LeaseGoes, HandoverInv, TypeOK
  <2>4. QED
    BY <2>3
<1>2. QED
  BY <1>1, InvAlways, PTL DEF Spec, MarkerBlocks

(* On Linux a release that succeeded leaves no lease behind, not even one  *)
(* that was still being acquired when it began.                            *)
THEOREM LeaseFreed == ASSUME Platform = "linux" PROVE Spec => []ReleaseFreesLease
<1>1. Init => ReleaseFreesLease
  BY DEF Init, ReleaseFreesLease, NewDirector
<1>2. TypeOK /\ ReleaseFreesLease /\ [Next]_vars => ReleaseFreesLease'
  <2> SUFFICES ASSUME TypeOK, ReleaseFreesLease, [Next]_vars, NEW d \in Directors,
                      director'[d].release = "done", lease'[d] = "held"
               PROVE  FALSE
    BY DEF ReleaseFreesLease
  <2>1. d \in Users
    BY DEF Users
  <2>2. CASE UNCHANGED vars
    BY <2>2 DEF vars, ReleaseFreesLease
  <2>3. CASE Next /\ director[d].release # "done"
    <3>1. ReleaseLease(d)
      BY <2>3, OnlyReleaseLeaseEnds
    <3>2. QED
      BY <2>1, <3>1 DEF ReleaseLease, Released, LeaseGoes, TypeOK
  <2>4. CASE Next /\ director[d].release = "done"
    <3>1. lease[d] # "held"
      BY <2>4 DEF ReleaseFreesLease
    <3>2. Inspect(d) /\ Aborted(d)
      BY <2>1, <2>4, <3>1, OnlyInspectHands DEF Aborted
    <3>3. lease'[d] = "refused"
      BY <2>1, <3>2 DEF Inspect, LeaseGoes, TypeOK
    <3>4. QED
      BY <3>3
  <2>5. QED
    BY <2>2, <2>3, <2>4
<1>3. QED
  BY <1>1, <1>2, TypeCorrect, PTL DEF Spec

-----------------------------------------------------------------------------
(* The refinement of ExclusiveGpu                                          *)

(* Where at most one user has the lease, it is the one the abstract owner  *)
(* is chosen to be.                                                        *)
LEMMA ChosenOwner ==
  ASSUME NEW L, NEW u \in Users, L[u] = "held", \A v \in Users : L[v] = "held" => v = u
  PROVE  (IF \E w \in Users : L[w] = "held" THEN CHOOSE w \in Users : L[w] = "held" ELSE Nobody)
           = u
<1>1. \E w \in Users : L[w] = "held"
  OBVIOUS
<1>2. (CHOOSE w \in Users : L[w] = "held") = u
  OBVIOUS
<1> QED
  BY <1>1, <1>2

\* Whoever has the lease is the owner, and without a lease there is none
OwnerMatches ==
  /\ \A u \in Users : Owner(u) => Holder = u /\ lock = u
  /\ (\A u \in Users : ~Owner(u)) => Holder = Nobody

(* The kernel lock makes the owner unique.                                 *)
LEMMA HolderIs == HandoverInv => OwnerMatches
<1> SUFFICES ASSUME HandoverInv PROVE OwnerMatches
  OBVIOUS
<1>1. ASSUME NEW u \in Users, Owner(u) PROVE Holder = u /\ lock = u
  <2>1. \A v \in Users : lease[v] = "held" => lock = v
    BY DEF HandoverInv, LockInv
  <2>2. \A v \in Users : lease[v] = "held" => v = u
    BY <1>1, <2>1 DEF Owner
  <2>3. lease[u] = "held"
    BY <1>1 DEF Owner
  <2> HIDE DEF Users
  <2>4. Holder = u
    BY <2>2, <2>3, ChosenOwner DEF Holder, Owner
  <2> QED
    BY <2>1, <2>3, <2>4
<1>2. (\A u \in Users : ~Owner(u)) => Holder = Nobody
  BY DEF Holder
<1> QED
  BY <1>1, <1>2 DEF OwnerMatches

(* A step that hands out no lease and ends none leaves the owner.          *)
LEMMA HolderKept ==
  ASSUME OwnerMatches, OwnerMatches', \A u \in Users : Owner(u)' <=> Owner(u)
  PROVE  Holder' = Holder
  BY DEF OwnerMatches

(* What is loaded follows from whose model processes there are.            *)
LEMMA LoadedFollows ==
  ASSUME NEW S, \A d \in Directors : director'[d].server <=> d \in S,
         \A q \in Batches : batch'[q].worker <=> q \in S, S \subseteq Users
  PROVE  Loaded' = S
<1>1. Loaded' = {d \in Directors : director'[d].server} \cup {q \in Batches : batch'[q].worker}
  BY DEF Loaded
<1> QED
  BY <1>1, UsersAssumption DEF Users

\* The invariants of a step, before and after it
Settled == HandoverInv /\ AloneInv /\ OwnerMatches

(* An acquisition that succeeds has found the GPU empty but for models     *)
(* under a lease, has the lock, and saw no marker.                         *)
LEMMA FoundFree ==
  ASSUME Exclusive, HandoverInv, AloneInv, NEW u \in Users, Inspect(u), lease'[u] = "held"
  PROVE  /\ lease' = [lease EXCEPT ![u] = "held"]
         /\ lock = u /\ ~marker /\ lease[u] = "unmarked"
         /\ \A v \in Loaded : v \in Users /\ lease[v] = "held"
<1>1. lease \in [Users -> {"none", "spawning", "locked", "unmarked", "held", "refused", "released"}]
  BY DEF HandoverInv, TypeOK
<1>2. /\ Platform = "linux" => Foreign(u) = {} /\ ~Aborted(u)
      /\ Alive(u) /\ lease[u] = "unmarked" /\ lease' = [lease EXCEPT ![u] = "held"]
  BY <1>1 DEF Inspect, LeaseGoes
<1>3. lock = u /\ ~marker
  BY <1>2, PlatformAssumption DEF HandoverInv, LockInv, MarkerInv
<1>4. \A v \in Loaded : v \in Users /\ Alive(v)
  <2>1. \A v \in Loaded : v \in Users
    BY DEF Loaded, Users
  <2>2. CASE Platform = "linux"
    BY <1>2, <2>1, <2>2 DEF Foreign, Alive
  <2>3. CASE ~Crashes
    BY <2>1, <2>3, UsersAssumption DEF AloneInv, Alive
  <2> QED
    BY <2>2, <2>3 DEF Exclusive
<1>5. \A v \in Loaded : lease[v] = "held"
  BY <1>4 DEF HandoverInv, DirectorInv, BatchInv, Loaded
<1> QED
  BY <1>2, <1>3, <1>4, <1>5

(* An acquisition takes the GPU or leaves everything as it is.             *)
LEMMA AcquireTakes ==
  ASSUME Exclusive, Settled, Settled', NEW u \in Users, Acquire(u)
  PROVE  Gpu!Take(u) \/ UNCHANGED <<Holder, Loaded, marker>>
<1>1. UNCHANGED <<Loaded, marker>>
  BY DEF Acquire, AcquireLock, AcquireRefused, HolderTerminated, CheckMarker, Inspect, Loaded
<1>2. lease \in [Users -> {"none", "spawning", "locked", "unmarked", "held", "refused", "released"}]
  BY DEF Settled, HandoverInv, TypeOK
<1>3. CASE Inspect(u) /\ lease' = [lease EXCEPT ![u] = "held"]
  <2>1. lock = u /\ ~marker /\ lease[u] = "unmarked" /\ \A v \in Loaded : v \in Users /\ lease[v] = "held"
    BY <1>2, <1>3, FoundFree DEF Settled
  <2>2. \A v \in Users : ~Owner(v)
    BY <2>1 DEF Settled, OwnerMatches, Owner
  <2>3. Holder = Nobody
    BY <2>2 DEF Settled, OwnerMatches
  <2>4. Loaded = {}
    BY <2>1, <2>2 DEF Owner
  <2>5. Holder' = u
    <3>1. Owner(u)'
      BY <1>2, <1>3 DEF Owner
    <3> QED
      BY <3>1 DEF Settled, OwnerMatches
  <2> QED
    BY <1>1, <2>1, <2>3, <2>4, <2>5 DEF Gpu!Take
<1>4. CASE ~(Inspect(u) /\ lease' = [lease EXCEPT ![u] = "held"])
  <2>1. UNCHANGED lease \/ \E to \in {"locked", "unmarked", "refused"} : LeaseGoes(u, to)
    BY <1>4 DEF Acquire, AcquireLock, AcquireRefused, HolderTerminated, CheckMarker, Inspect, LeaseGoes
  <2>2. lease[u] # "held"
    BY <1>2 DEF Acquire, AcquireLock, AcquireRefused, HolderTerminated, CheckMarker, Inspect
  <2>3. \A v \in Users : Owner(v)' <=> Owner(v)
    BY <1>2, <2>1, <2>2 DEF Owner, LeaseGoes
  <2> QED
    BY <1>1, <2>3, HolderKept DEF Settled
<1> QED
  BY <1>3, <1>4

(* A server's lifecycle loads the owner's model, unloads it, or neither.   *)
LEMMA LifecycleLoads ==
  ASSUME Exclusive, Settled, Settled', NEW d \in Directors, Lifecycle(d)
  PROVE  Gpu!Load(d) \/ Gpu!Unload(d) \/ UNCHANGED <<Holder, Loaded, marker>>
<1>1. UNCHANGED <<lock, marker, lease, batch>> /\ d \in Users
  BY DEF Lifecycle, StartServer, Spawn, ServerHealthy, ServerUnhealthy, ServerExits,
         Cleanup, Reap, ReapAgain, Reaped, Settle, FreePort, Users
<1>2. Holder' = Holder
  BY <1>1, HolderKept DEF Settled, Owner
<1>3. /\ director \in [Directors -> DirectorRecords]
      /\ \A e \in Directors : director[e] \in DirectorRecords
  BY DEF Settled, HandoverInv, TypeOK
<1>4. \A e \in Directors : e # d => director'[e] = director[e]
  BY <1>3 DEF Lifecycle, StartServer, Spawn, ServerHealthy, ServerUnhealthy, ServerExits,
         Cleanup, Reap, ReapAgain, Reaped, Settle, FreePort, Changes
<1>5. CASE director'[d].server <=> director[d].server
  BY <1>1, <1>2, <1>4, <1>5 DEF Loaded
<1>6. CASE director'[d].server /\ ~director[d].server
  <2>1. Spawn(d)
    <3>1. CASE Cleanup(d)
      BY <1>3, <1>6, <3>1 DEF Cleanup, Reap, ReapAgain, Reaped, Settle, FreePort, Changes,
                             DirectorRecords
    <3>2. CASE StartServer(d) \/ ServerHealthy(d) \/ ServerUnhealthy(d) \/ ServerExits(d)
      BY <1>3, <1>6, <3>2 DEF StartServer, ServerHealthy, ServerUnhealthy, ServerExits, Changes,
                             DirectorRecords
    <3> QED
      BY <3>1, <3>2 DEF Lifecycle
  <2>2. lease[d] = "held"
    <3>1. director[d].start = "writing" /\ ~Releasing(d)
      BY <1>3, <1>6, <2>1 DEF Spawn, Changes, DirectorRecords
    <3> QED
      BY <3>1 DEF Settled, HandoverInv, DirectorInv
  <2>3. Holder = d
    BY <1>1, <2>2 DEF Settled, OwnerMatches, Owner
  <2>4. d \notin Loaded
    BY <1>6, UsersAssumption DEF Loaded
  <2>5. Loaded = {}
    BY <1>1, <2>2, <2>4 DEF Settled, AloneInv
  <2>6. Loaded' = {d}
    BY <1>1, <1>4, <1>6, <2>5 DEF Loaded
  <2> QED
    BY <1>1, <1>2, <2>3, <2>5, <2>6 DEF Gpu!Load
<1>7. CASE ~director'[d].server /\ director[d].server
  <2>1. d \in Loaded
    BY <1>7 DEF Loaded
  <2>2. Loaded' = Loaded \ {d}
    BY <1>1, <1>4, <1>7, UsersAssumption DEF Loaded
  <2> QED
    BY <1>1, <1>2, <2>1, <2>2 DEF Gpu!Unload
<1> QED
  BY <1>5, <1>6, <1>7

(* Directing asks for the GPU at most; a release gives it up without a     *)
(* model on it, or quarantines it.                                         *)
LEMMA DirectorGives ==
  ASSUME Exclusive, Settled, Settled', NEW d \in Directors,
         Direct(d) \/ DirectReady(d) \/ DirectOver(d) \/ Release(d)
  PROVE  Gpu!Give(d) \/ Gpu!Quarantine(d) \/ UNCHANGED <<Holder, Loaded, marker>>
<1>1. /\ director \in [Directors -> DirectorRecords]
      /\ \A e \in Directors : director[e] \in DirectorRecords
      /\ lease \in [Users -> {"none", "spawning", "locked", "unmarked", "held", "refused", "released"}]
      /\ d \in Users
  BY DEF Settled, HandoverInv, TypeOK, Users
<1>2. UNCHANGED batch
  BY DEF Direct, DirectReady, DirectOver, Release, ReleaseDirector, AfterCleanup, Quarantine,
         ReleaseLease
<1>3. \A e \in Directors : director'[e].server <=> director[e].server
  BY <1>1 DEF Direct, DirectReady, DirectOver, Release, ReleaseDirector, AfterCleanup, Quarantine,
              ReleaseLease, Changes, DirectorRecords
<1>4. UNCHANGED Loaded
  BY <1>2, <1>3 DEF Loaded
<1>5. CASE Direct(d)
  <2>1. lease[d] = "none" /\ LeaseGoes(d, "spawning") /\ UNCHANGED marker
    BY <1>1, <1>5 DEF Direct, MayBegin, Began, Settled, HandoverInv, DirectorInv
  <2>2. \A v \in Users : Owner(v)' <=> Owner(v)
    BY <1>1, <2>1 DEF Owner, LeaseGoes
  <2> QED
    BY <1>4, <2>1, <2>2, HolderKept DEF Settled
<1>6. CASE DirectReady(d) \/ DirectOver(d) \/ ReleaseDirector(d) \/ AfterCleanup(d)
  <2>1. UNCHANGED <<lease, marker>>
    BY <1>6 DEF DirectReady, DirectOver, ReleaseDirector, AfterCleanup
  <2> QED
    BY <1>4, <2>1, HolderKept DEF Settled, Owner
<1>7. CASE Quarantine(d)
  <2>1. lease[d] = "held" /\ UNCHANGED lease /\ marker' \in {TRUE, marker}
    BY <1>7 DEF Quarantine, Settled, HandoverInv, DirectorInv
  <2>2. Holder = d /\ Holder' = Holder
    BY <1>1, <2>1, HolderKept DEF Settled, Owner, OwnerMatches
  <2> QED
    BY <1>4, <2>1, <2>2 DEF Gpu!Quarantine
<1>8. CASE ReleaseLease(d) /\ lease[d] # "held"
  <2>1. UNCHANGED <<lease, marker>>
    BY <1>8 DEF ReleaseLease
  <2> QED
    BY <1>4, <2>1, HolderKept DEF Settled, Owner
<1>9. CASE ReleaseLease(d) /\ lease[d] = "held"
  <2>1. LeaseGoes(d, "released") /\ UNCHANGED marker /\ ~director[d].server
    BY <1>9 DEF ReleaseLease, Released, Settled, HandoverInv, DirectorInv
  <2>2. Holder = d /\ \A v \in Users : Owner(v) => v = d
    BY <1>1, <1>9 DEF Settled, Owner, OwnerMatches
  <2>3. \A v \in Users : ~Owner(v)'
    BY <1>1, <2>1, <2>2 DEF Owner, LeaseGoes
  <2>4. Holder' = Nobody
    BY <2>3 DEF Settled, OwnerMatches
  <2>5. d \notin Loaded
    BY <2>1, UsersAssumption DEF Loaded
  <2> QED
    BY <1>4, <2>1, <2>2, <2>4, <2>5 DEF Gpu!Give
<1> QED
  BY <1>5, <1>6, <1>7, <1>8, <1>9 DEF Release

(* A batch loads its worker as the owner, unloads it, or gives the GPU up  *)
(* without one.                                                            *)
LEMMA SpeechLoads ==
  ASSUME Exclusive, Settled, Settled', NEW q \in Batches, Speech(q)
  PROVE  Gpu!Load(q) \/ Gpu!Unload(q) \/ Gpu!Give(q) \/ UNCHANGED <<Holder, Loaded, marker>>
<1>1. /\ batch \in [Batches -> BatchRecords]
      /\ \A p \in Batches : batch[p] \in BatchRecords
      /\ lease \in [Users -> {"none", "spawning", "locked", "unmarked", "held", "refused", "released"}]
      /\ q \in Users
  BY DEF Settled, HandoverInv, TypeOK, Users
<1>2. UNCHANGED <<marker, director>>
  BY DEF Speech, BeginBatch, BatchRefused, StartWorker, WorkerExits, ReplaceWorker, StopWorker,
         EndBatch
<1>3. \A p \in Batches : p # q => batch'[p] = batch[p]
  BY <1>1 DEF Speech, BeginBatch, BatchRefused, StartWorker, WorkerExits, ReplaceWorker, StopWorker,
         EndBatch, BatchGoes
<1>4. ASSUME lease[q] = "held", ~batch[q].worker, batch'[q].worker, UNCHANGED lease
      PROVE  Gpu!Load(q)
  <2>1. Holder = q /\ Holder' = Holder
    BY <1>1, <1>4, HolderKept DEF Settled, Owner, OwnerMatches
  <2>2. q \notin Loaded
    BY <1>4, UsersAssumption DEF Loaded
  <2>3. Loaded = {}
    BY <1>1, <1>4, <2>2 DEF Settled, AloneInv
  <2>4. Loaded' = {q}
    BY <1>2, <1>3, <1>4, <2>3 DEF Loaded
  <2> QED
    BY <1>2, <2>1, <2>3, <2>4 DEF Gpu!Load
<1>5. ASSUME batch'[q].worker <=> batch[q].worker PROVE UNCHANGED Loaded
  BY <1>2, <1>3, <1>5 DEF Loaded
<1>6. CASE BeginBatch(q)
  <2>1. lease[q] = "none" /\ LeaseGoes(q, "spawning")
    BY <1>1, <1>6, UsersAssumption DEF BeginBatch, MayBegin, Began, Settled, HandoverInv, BatchInv
  <2>2. \A v \in Users : Owner(v)' <=> Owner(v)
    BY <1>1, <2>1 DEF Owner, LeaseGoes
  <2>3. batch'[q].worker = batch[q].worker
    BY <1>1, <1>6 DEF BeginBatch, BatchGoes, BatchRecords
  <2> QED
    BY <1>2, <1>5, <2>2, <2>3, HolderKept DEF Settled
<1>7. CASE BatchRefused(q) \/ StopWorker(q)
  <2>1. batch'[q].worker = batch[q].worker /\ UNCHANGED lease
    BY <1>1, <1>7 DEF BatchRefused, StopWorker, BatchGoes, BatchRecords
  <2> QED
    BY <1>2, <1>5, <2>1, HolderKept DEF Settled, Owner
<1>8. CASE StartWorker(q)
  <2>1. lease[q] = "held" /\ UNCHANGED lease /\ batch'[q].worker
    BY <1>1, <1>8 DEF StartWorker
  <2>2. ~batch[q].worker
    BY <1>8 DEF StartWorker, Settled, HandoverInv, BatchInv
  <2> QED
    BY <1>4, <2>1, <2>2
<1>9. CASE ReplaceWorker(q)
  <2>1. /\ lease[q] = "held" /\ UNCHANGED lease
        /\ ~batch[q].worker /\ batch'[q].worker
    BY <1>1, <1>9 DEF ReplaceWorker, BatchRecords, Settled, HandoverInv, BatchInv
  <2> QED
    BY <1>4, <2>1
<1>10. CASE WorkerExits(q)
  <2>1. batch[q].worker /\ ~batch'[q].worker /\ UNCHANGED lease
    BY <1>1, <1>10 DEF WorkerExits, BatchRecords
  <2>2. q \in Loaded /\ Loaded' = Loaded \ {q}
    BY <1>2, <1>3, <2>1, UsersAssumption DEF Loaded
  <2>3. Holder' = Holder
    BY <2>1, HolderKept DEF Settled, Owner
  <2> QED
    BY <1>2, <2>2, <2>3 DEF Gpu!Unload
<1>11. CASE EndBatch(q)
  <2>1. /\ lease[q] = "held" /\ LeaseGoes(q, "released")
        /\ ~batch[q].worker /\ batch'[q].worker = batch[q].worker
    BY <1>1, <1>11 DEF EndBatch, Released, BatchGoes, BatchRecords, Settled, HandoverInv, BatchInv
  <2>2. Holder = q /\ \A v \in Users : Owner(v) => v = q
    BY <1>1, <2>1 DEF Settled, Owner, OwnerMatches
  <2>3. \A v \in Users : ~Owner(v)'
    BY <1>1, <2>1, <2>2 DEF Owner, LeaseGoes
  <2>4. Holder' = Nobody
    BY <2>3 DEF Settled, OwnerMatches
  <2>5. q \notin Loaded
    BY <2>1, UsersAssumption DEF Loaded
  <2> QED
    BY <1>2, <1>5, <2>1, <2>2, <2>4, <2>5 DEF Gpu!Give
<1> QED
  BY <1>6, <1>7, <1>8, <1>9, <1>10, <1>11 DEF Speech

(* A process that dies takes the owner with it, if it was one of its users,*)
(* and leaves what is on the GPU.                                          *)
LEMMA CrashFrees ==
  ASSUME Exclusive, Settled, Settled', NEW h \in Hosts, Crash(h)
  PROVE  (\E u \in Users : Gpu!Die(u)) \/ UNCHANGED <<Holder, Loaded, marker>>
<1>1. /\ UNCHANGED marker
      /\ lease' = [u \in Users |-> IF HostOf[u] = h THEN "none" ELSE lease[u]]
  BY DEF Crash
<1>2. \A d \in Directors : director[d] \in DirectorRecords
  BY DEF Settled, HandoverInv, TypeOK
<1>3. \A d \in Directors :
        [NewDirector EXCEPT !.server = director[d].server].server = director[d].server
  BY <1>2 DEF NewDirector, DirectorRecords
<1>4. /\ \A d \in Directors : director'[d].server = director[d].server
      /\ \A q \in Batches : batch'[q].worker = batch[q].worker
  BY <1>3 DEF Crash
<1>5. UNCHANGED Loaded
  BY <1>4 DEF Loaded
<1>6. CASE \E u \in Users : Owner(u) /\ HostOf[u] = h
  <2>1. PICK u \in Users : Owner(u) /\ HostOf[u] = h
    BY <1>6
  <2>2. Holder = u /\ \A v \in Users : Owner(v) => v = u
    BY <2>1 DEF Settled, OwnerMatches
  <2>3. \A v \in Users : ~Owner(v)'
    BY <1>1, <2>1, <2>2 DEF Owner
  <2>4. Holder' = Nobody
    BY <2>3 DEF Settled, OwnerMatches
  <2> QED
    BY <1>1, <1>5, <2>2, <2>4 DEF Gpu!Die
<1>7. CASE ~\E u \in Users : Owner(u) /\ HostOf[u] = h
  <2>1. \A v \in Users : Owner(v)' <=> Owner(v)
    BY <1>1, <1>7 DEF Owner
  <2> QED
    BY <1>1, <1>5, <2>1, HolderKept DEF Settled
<1> QED
  BY <1>6, <1>7

(* Who has the lease has the GPU to itself: nobody else's model came with  *)
(* the lease, and nobody else loads one.                                   *)
LEMMA AloneKept ==
  ASSUME Exclusive, HandoverInv, HandoverInv', AloneInv, Next
  PROVE  AloneInv'
<1>1. OwnerMatches /\ OwnerMatches'
  <2>1. HandoverInv' => OwnerMatches'
    BY HolderIs, PTL
  <2> QED
    BY <2>1, HolderIs
<1>0. (~Crashes => up = Hosts)'
  BY DEF AloneInv, Next, Acquire, AcquireLock, AcquireRefused, HolderTerminated, CheckMarker, Inspect,
         Lifecycle, StartServer, Spawn, ServerHealthy, ServerUnhealthy, ServerExits, Cleanup, Reap,
         ReapAgain, Reaped, Settle, FreePort, Direct, DirectReady, DirectOver, Release,
         ReleaseDirector, AfterCleanup, Quarantine, ReleaseLease, Speech, BeginBatch, BatchRefused,
         StartWorker, WorkerExits, ReplaceWorker, StopWorker, EndBatch, Stop, Crash, RemoveMarker
<1> SUFFICES ASSUME NEW u \in Users, lease'[u] = "held", NEW v \in Loaded'
             PROVE  v = u
  BY <1>0 DEF AloneInv
<1>2. v \in Users
  BY DEF Loaded, Users
<1>3. CASE v \notin Loaded
  \* It was loaded in this step, under a lease
  <2>1. lease'[v] = "held"
    <3>1. ~(\E h \in Hosts : Crash(h))
      <4> SUFFICES ASSUME NEW h \in Hosts, Crash(h) PROVE FALSE
        OBVIOUS
      <4>1. \A d \in Directors : director[d] \in DirectorRecords
        BY DEF HandoverInv, TypeOK
      <4>2. \A d \in Directors :
              [NewDirector EXCEPT !.server = director[d].server].server = director[d].server
        BY <4>1 DEF NewDirector, DirectorRecords
      <4>3. /\ \A d \in Directors : director'[d].server = director[d].server
            /\ \A q \in Batches : batch'[q].worker = batch[q].worker
        BY <4>2 DEF Crash
      <4> QED
        BY <1>3, <4>3 DEF Loaded
    <3>2. CASE v \in Directors
      <4>1. director'[v].server /\ ~director[v].server
        BY <1>3, <3>2, UsersAssumption DEF Loaded
      <4>2. Spawn(v)
        BY <3>2, <4>1, OnlySpawnSpawns DEF HandoverInv
      <4>3. Alive(v)'
        BY <4>2 DEF Spawn, Alive
      <4> QED
        BY <3>2, <4>1, <4>3 DEF HandoverInv, DirectorInv
    <3>3. CASE v \in Batches
      <4>1. batch'[v].worker /\ ~batch[v].worker
        BY <1>3, <3>3, UsersAssumption DEF Loaded
      <4>2. StartWorker(v) \/ ReplaceWorker(v)
        BY <3>3, <4>1, OnlyTheseLoad DEF HandoverInv
      <4>3. Alive(v)'
        BY <4>2 DEF StartWorker, ReplaceWorker, Alive
      <4> QED
        BY <3>3, <4>1, <4>3 DEF HandoverInv, BatchInv
    <3> QED
      BY <1>2, <3>2, <3>3 DEF Users
  <2> QED
    BY <1>1, <1>2, <2>1 DEF OwnerMatches, Owner
<1>4. CASE v \in Loaded /\ lease[u] = "held"
  BY <1>4 DEF AloneInv
<1>5. CASE v \in Loaded /\ lease[u] # "held"
  <2>1. Inspect(u)
    BY <1>5, OnlyInspectHands DEF HandoverInv
  <2>2. lock = u /\ lease[v] = "held"
    BY <1>5, <2>1, FoundFree
  <2> QED
    BY <1>1, <1>2, <2>2 DEF OwnerMatches, Owner
<1> QED
  BY <1>3, <1>4, <1>5

(* The lease, the runtimes and the marker together implement an exclusive  *)
(* GPU, where the lease looks at what is on it (on Linux) and also where it*)
(* does not (on a Mac) unless a process dies: whoever takes it finds it    *)
(* empty, and it is given up empty or by a death.                          *)
THEOREM GpuRefined == ASSUME Exclusive PROVE Spec => GpuExclusive
<1>1. Init => Gpu!Init /\ AloneInv
  <2> SUFFICES ASSUME Init PROVE Gpu!Init /\ AloneInv
    OBVIOUS
  <2>1. Loaded = {}
    BY DEF Init, Loaded, NewDirector
  <2>2. \A u \in Users : lease[u] # "held"
    BY DEF Init
  <2>3. Holder = Nobody
    BY <2>2 DEF Holder, Owner
  <2> QED
    BY <2>1, <2>2, <2>3 DEF Init, Gpu!Init, AloneInv
<1>2. HandoverInv /\ HandoverInv' /\ AloneInv /\ [Next]_vars => AloneInv'
  <2>1. CASE UNCHANGED vars
    BY <2>1 DEF vars, AloneInv, Loaded
  <2> QED
    BY <2>1, AloneKept
<1>3. HandoverInv => OwnerMatches
  BY HolderIs
<1>4. Settled /\ Settled' /\ [Next]_vars => [Gpu!Next]_(Gpu!gpu)
  <2> SUFFICES ASSUME Settled, Settled', [Next]_vars
               PROVE  Gpu!Next \/ UNCHANGED <<Holder, Loaded, marker>>
    BY DEF Gpu!gpu
  <2>1. CASE UNCHANGED vars
    <3>1. UNCHANGED <<Loaded, lease, marker>>
      BY <2>1 DEF vars, Loaded
    <3> QED
      BY <3>1, HolderKept DEF Settled, Owner
  <2>2. ASSUME NEW u \in Users, Acquire(u)
        PROVE  Gpu!Next \/ UNCHANGED <<Holder, Loaded, marker>>
    BY <2>2, AcquireTakes DEF Gpu!Next
  <2>3. ASSUME NEW d \in Directors,
               Lifecycle(d) \/ Direct(d) \/ DirectReady(d) \/ DirectOver(d) \/ Release(d)
        PROVE  Gpu!Next \/ UNCHANGED <<Holder, Loaded, marker>>
    <3>1. d \in Users
      BY DEF Users
    <3> QED
      BY <2>3, <3>1, LifecycleLoads, DirectorGives DEF Gpu!Next
  <2>4. ASSUME NEW q \in Batches, Speech(q)
        PROVE  Gpu!Next \/ UNCHANGED <<Holder, Loaded, marker>>
    <3>1. q \in Users
      BY DEF Users
    <3> QED
      BY <2>4, <3>1, SpeechLoads DEF Gpu!Next
  <2>5. ASSUME NEW h \in Hosts, Stop(h)
        PROVE  UNCHANGED <<Holder, Loaded, marker>>
    <3>1. UNCHANGED <<lease, marker, batch>>
      BY <2>5 DEF Stop
    <3>2. \A d \in Directors : director[d] \in DirectorRecords
      BY DEF Settled, HandoverInv, TypeOK
    <3>3. \A d \in Directors : director'[d].server = director[d].server
      BY <2>5, <3>2 DEF Stop, DirectorRecords
    <3>4. UNCHANGED Loaded
      BY <3>1, <3>3 DEF Loaded
    <3> QED
      BY <3>1, <3>4, HolderKept DEF Settled, Owner
  <2>6. ASSUME NEW h \in Hosts, Crash(h)
        PROVE  Gpu!Next \/ UNCHANGED <<Holder, Loaded, marker>>
    BY <2>6, CrashFrees DEF Gpu!Next
  <2>7. CASE RemoveMarker
    <3>1. UNCHANGED <<lease, Loaded>> /\ Loaded = {} /\ marker' = FALSE
      BY <2>7 DEF RemoveMarker, Loaded
    <3>2. Holder' = Holder
      BY <3>1, HolderKept DEF Settled, Owner
    <3> QED
      BY <3>1, <3>2 DEF Gpu!Next, Gpu!Clear
  <2> QED
    BY <2>1, <2>2, <2>3, <2>4, <2>5, <2>6, <2>7 DEF Next
<1> QED
  BY <1>1, <1>2, <1>3, <1>4, InvAlways, PTL DEF Spec, GpuExclusive, Gpu!Spec, Settled

-----------------------------------------------------------------------------
(* The experiment                                                          *)

Artifacts == Experiment!Items

AllRuns == Experiment!Runs

LastItem == Experiment!ReportItem

Found == DOMAIN files

Recordings ==
  {Experiment!Recorded(p, x, exited) : p \in Plans, x \in Completions, exited \in BOOLEAN}

Pairs == AllRuns \X Recordings

Reports == {Experiment!ReportOn(p, got) : p \in Plans, got \in SUBSET Pairs}

Before == {"loading", "owning", "looking"}

Writing == {"staging", "linking", "tidying"}

Working == {"counting", "running", "checking"} \cup Writing

Locking == {"owning", "looking", "unlocking"} \cup Working

CommandRecords ==
  [pc : {"idle", "stopping", "ending"} \cup Before \cup Locking,
   plan : Plans \cup {"none"}, known : SUBSET Artifacts, at : 1..(NumRuns + 1),
   got : SUBSET Pairs, item : Artifacts, draft : Plans \cup Recordings \cup Reports \cup {"none"},
   next : {"idle", "counting", "running", "checking"}, value : {"error", "PASS", "FAIL"},
   alive : BOOLEAN]

Typed ==
  /\ litter \subseteq Commands \cup {Nobody}
  /\ locked \in Commands \cup {Nobody} /\ owner \in Commands \cup {Nobody} /\ lapsed \in BOOLEAN
  /\ server \in [Commands -> {"none", "up", "exited", "reaped"}]
  /\ told \subseteq [plan : Plans, verdict : {"PASS", "FAIL"}]
  /\ asked \subseteq AllRuns

Verdict == IF Experiment!Passed(Experiment!OnDisk) THEN "PASS" ELSE "FAIL"

\* The directory has what a command was started with, in its plan
Planned(p) == 0 \in Found /\ files[0] = p

\* What is on disk fits together, whoever wrote it
Filed ==
  /\ Found \subseteq Artifacts
  /\ Found # {} => 0 \in Found /\ files[0] \in Plans
  /\ \A i \in AllRuns \cap Found : files[i] \in Recordings /\ files[i].plan = files[0]
  /\ LastItem \in Found =>
       AllRuns \subseteq Found /\ files[LastItem] = Experiment!ReportOn(files[0], Experiment!OnDisk)

\* A verdict is about everything on disk
Proper(t) == Found = Artifacts /\ Planned(t.plan) /\ t.verdict = Verdict

\* What a command is about to put into the directory
Drafted(k) ==
  \/ k.item = 0 /\ k.draft = k.plan /\ k.next = "counting"
  \/ /\ k.item \in AllRuns /\ k.at = k.item + 1 /\ k.next = "running"
     /\ k.draft \in Recordings /\ k.draft.plan = k.plan /\ <<k.item, k.draft>> \in k.got
  \/ /\ k.item = LastItem /\ k.at = LastItem /\ k.next = "checking"
     /\ k.draft = Experiment!ReportOn(k.plan, k.got)

\* What a command has got is on disk, but for what it is writing
Evident(k) ==
  /\ \A g \in k.got :
       /\ g[1] < k.at
       /\ \/ g[1] \in Found /\ files[g[1]] = g[2]
          \/ k.pc \in {"staging", "linking"} /\ g = <<k.item, k.draft>>
  /\ \A i \in AllRuns : i < k.at => \E r \in Recordings : <<i, r>> \in k.got

\* What a command knows of the directory, though others may write there
Sound(k) ==
  /\ k.pc # "idle" => k.plan \in Plans
  /\ k.known \subseteq Found
  /\ k.pc \in Before => k.at = 1 /\ k.got = {}
  /\ k.pc \in Working => Evident(k) /\ (Planned(k.plan) \/ (k.pc \in Writing /\ k.item = 0))
  /\ k.pc \in Writing => Drafted(k)
  /\ k.pc = "tidying" => k.item \in Found /\ files[k.item] = k.draft
  /\ k.pc = "checking" => k.at = LastItem
  /\ k.value # "error" => Proper([plan |-> k.plan, verdict |-> k.value])

\* Nothing appears that the holder of the lock does not know
Aware(k) == k.pc \in Working => \A i \in AllRuns \cap Found : i \in k.known \/ i < k.at

Alone ==
  ~lapsed =>
    /\ asked = {}
    /\ \A c \in Commands : (cmd[c].pc \in Locking => locked = c) /\ Aware(cmd[c])

ExperimentInv ==
  /\ Typed /\ Filed /\ Alone
  /\ cmd \in [Commands -> CommandRecords]
  /\ \A c \in Commands : Sound(cmd[c])
  /\ \A t \in told : Proper(t)

LEMMA Numbers ==
  /\ Artifacts = {0} \cup AllRuns \cup {LastItem}
  /\ AllRuns = 1..NumRuns /\ LastItem = NumRuns + 1 /\ NumRuns \in Nat
  /\ 0 \notin AllRuns /\ LastItem \notin AllRuns /\ LastItem # 0
  /\ \A i \in AllRuns : i < LastItem /\ i + 1 \in 1..(NumRuns + 1)
  /\ \A at \in 1..(NumRuns + 1) : at \notin AllRuns => at = LastItem
BY CommandsAssumption DEF Artifacts, AllRuns, LastItem, Experiment!Items, Experiment!Runs,
   Experiment!ReportItem, Experiment!Plan

LEMMA RecordedWell ==
  ASSUME NEW p \in Plans, NEW x \in Completions, NEW exited \in BOOLEAN
  PROVE  /\ Experiment!Recorded(p, x, exited) \in Recordings
         /\ Experiment!Recorded(p, x, exited).plan = p
<1>1. Experiment!Recorded(p, x, exited) \in Recordings
  BY DEF Recordings
<1>2. Experiment!Recorded(p, x, exited).plan = p
  BY DEF Experiment!Recorded
<1> QED BY <1>1, <1>2

(* A step of one command that leaves the directory alone.                  *)
LEMMA Stepped ==
  ASSUME ExperimentInv, NEW c \in Commands, NEW k \in CommandRecords,
         cmd' = [cmd EXCEPT ![c] = k], files' = files, Sound(k), Typed',
         \A t \in told' : Proper(t),
         ~lapsed' => /\ ~lapsed /\ asked' = {} /\ Aware(k)
                     /\ \A d \in Commands : d # c /\ cmd[d].pc \in Locking => locked' = d
                     /\ k.pc \in Locking => locked' = c
  PROVE  ExperimentInv'
<1>1. cmd' \in [Commands -> CommandRecords]
  BY DEF ExperimentInv
<1>2. cmd'[c] = k /\ \A d \in Commands : d # c => cmd'[d] = cmd[d]
  BY DEF ExperimentInv
<1>3. Found' = Found /\ Verdict' = Verdict /\ Experiment!OnDisk' = Experiment!OnDisk
  BY DEF Found, Verdict, Experiment!OnDisk
<1>4. Filed'
  BY <1>3 DEF ExperimentInv, Filed
<1>5. \A t : Proper(t)' <=> Proper(t)
  BY <1>3 DEF Proper, Planned
<1>6. ASSUME NEW d \in Commands PROVE Sound(cmd[d])'
  <2>1. Sound(cmd'[d])
    BY <1>2 DEF ExperimentInv
  <2> QED BY <1>3, <2>1 DEF Sound, Proper, Planned, Evident, Drafted
<1>7. Alone'
  BY <1>2, <1>3 DEF ExperimentInv, Alone, Aware
<1>8. \A t \in told' : Proper(t)'
  BY <1>5
<1> QED BY <1>1, <1>4, <1>6, <1>7, <1>8 DEF ExperimentInv

(* The same, where the lock and the ghosts stay too.                       *)
LEMMA WentOn ==
  ASSUME ExperimentInv, NEW c \in Commands, NEW k \in CommandRecords,
         cmd' = [cmd EXCEPT ![c] = k], files' = files, Sound(k),
         UNCHANGED <<locked, owner, lapsed, told>>,
         litter' \subseteq Commands \cup {Nobody},
         server' \in [Commands -> {"none", "up", "exited", "reaped"}],
         asked' \subseteq AllRuns, lapsed \/ asked' = asked,
         k.pc \in Locking => cmd[c].pc \in Locking,
         lapsed \/ Aware(k)
  PROVE  ExperimentInv'
<1>1. Typed'
  BY DEF ExperimentInv, Typed
<1>2. \A t \in told' : Proper(t)
  BY DEF ExperimentInv
<1>3. ~lapsed' => /\ ~lapsed /\ asked' = {} /\ Aware(k)
                  /\ \A d \in Commands : d # c /\ cmd[d].pc \in Locking => locked' = d
                  /\ k.pc \in Locking => locked' = c
  BY DEF ExperimentInv, Alone, Typed
<1> QED BY <1>1, <1>2, <1>3, Stepped

LEMMA ExperimentInit == Experiment!Init => ExperimentInv
<1> SUFFICES ASSUME Experiment!Init PROVE ExperimentInv
  OBVIOUS
<1>1. Experiment!Quiet \in CommandRecords
  BY Numbers DEF CommandRecords, Experiment!Quiet, Experiment!None
<1>2. cmd \in [Commands -> CommandRecords] /\ \A c \in Commands : cmd[c] = Experiment!Quiet
  BY <1>1 DEF Experiment!Init
<1>3. Found = {}
  BY DEF Experiment!Init, Found
<1>4. Sound(Experiment!Quiet)
  BY DEF Sound, Experiment!Quiet, Before, Working, Writing
<1>5. Typed
  BY DEF Typed, Experiment!Init
<1>6. Filed
  BY <1>3 DEF Filed
<1>7. Alone
  BY <1>2 DEF Alone, Aware, Experiment!Quiet, Locking, Working, Writing, Experiment!Init
<1>8. told = {}
  BY DEF Experiment!Init
<1> QED BY <1>2, <1>4, <1>5, <1>6, <1>7, <1>8 DEF ExperimentInv

LEMMA RuntimeSteps ==
  ASSUME ExperimentInv, NEW c \in Commands,
         \/ \E p \in Plans : Experiment!Start(c, p)
         \/ Experiment!LoadFails(c) \/ Experiment!ServerExits(c) \/ Experiment!Reaped(c)
         \/ Experiment!WorkEnds(c)
  PROVE  ExperimentInv'
<1>1. ASSUME NEW p \in Plans, Experiment!Start(c, p)
      PROVE  ExperimentInv'
  <2> DEFINE k == [Experiment!Quiet EXCEPT !.pc = "loading", !.plan = p]
  <2>1. k \in CommandRecords
    <3>1. Experiment!Quiet \in CommandRecords
      BY Numbers DEF CommandRecords, Experiment!Quiet, Experiment!None
    <3> QED BY <3>1 DEF CommandRecords, Before
  <2>2. Sound(k) /\ Aware(k)
    BY DEF Sound, Aware, Experiment!Quiet, Before, Working, Writing
  <2>3. k.pc \notin Locking
    BY DEF Experiment!Quiet, Locking, Working, Writing
  <2>4. cmd' = [cmd EXCEPT ![c] = k] /\ UNCHANGED <<files, litter, locked, owner, lapsed, told, asked>>
    BY <1>1 DEF Experiment!Start, Experiment!Disk, Experiment!Exclusion, Experiment!Ghosts
  <2>5. server' \in [Commands -> {"none", "up", "exited", "reaped"}]
    BY <1>1 DEF Experiment!Start, ExperimentInv, Typed
  <2> HIDE DEF k
  <2> QED BY <2>1, <2>2, <2>3, <2>4, <2>5, WentOn DEF ExperimentInv, Typed
<1>2. CASE Experiment!LoadFails(c) \/ Experiment!WorkEnds(c)
  <2> DEFINE k == cmd'[c]
  <2>0. cmd[c] \in CommandRecords /\ cmd \in [Commands -> CommandRecords]
    BY DEF ExperimentInv
  <2>1. /\ cmd[c].pc \in {"loading", "ending"} /\ k.pc = "stopping"
        /\ cmd' = [cmd EXCEPT ![c] = k] /\ k \in CommandRecords
        /\ k.plan = cmd[c].plan /\ k.known = cmd[c].known /\ k.value = cmd[c].value
    <3>1. CASE Experiment!LoadFails(c)
      BY <2>0, <3>1 DEF Experiment!LoadFails, Experiment!Goes, Experiment!At, CommandRecords
    <3>2. CASE Experiment!WorkEnds(c)
      BY <2>0, <3>2 DEF Experiment!WorkEnds, Experiment!At, CommandRecords
    <3> QED BY <1>2, <3>1, <3>2
  <2>3. Sound(k) /\ Aware(k) /\ k.pc \notin Locking
    BY <2>1 DEF ExperimentInv, Sound, Aware, Before, Locking, Working, Writing
  <2>4. UNCHANGED <<files, litter, locked, owner, lapsed, told, asked, server>>
    BY <1>2 DEF Experiment!LoadFails, Experiment!WorkEnds, Experiment!Disk, Experiment!Exclusion,
         Experiment!Ghosts
  <2> HIDE DEF k
  <2> QED BY <2>1, <2>3, <2>4, WentOn DEF ExperimentInv, Typed
<1>3. CASE Experiment!ServerExits(c) \/ Experiment!Reaped(c)
  <2>1. UNCHANGED <<files, litter, locked, owner, lapsed, told, asked, cmd>>
        /\ server' \in [Commands -> {"none", "up", "exited", "reaped"}]
    BY <1>3 DEF Experiment!ServerExits, Experiment!Reaped, Experiment!Disk, Experiment!Exclusion,
         Experiment!Ghosts, ExperimentInv, Typed
  <2>2. cmd' = [cmd EXCEPT ![c] = cmd[c]] /\ cmd[c] \in CommandRecords
    BY <2>1 DEF ExperimentInv
  <2>3. Sound(cmd[c]) /\ (lapsed \/ Aware(cmd[c]))
    BY DEF ExperimentInv, Alone, Typed
  <2> QED BY <2>1, <2>2, <2>3, WentOn DEF ExperimentInv, Typed
<1> QED BY <1>1, <1>2, <1>3

(* The verdict a command gives is about what is on disk.                   *)
LEMMA StopSteps ==
  ASSUME ExperimentInv, NEW c \in Commands, Experiment!Stop(c)
  PROVE  ExperimentInv'
<1> DEFINE k == Experiment!Quiet
<1>1. k \in CommandRecords /\ k.pc = "idle"
  BY Numbers DEF CommandRecords, Experiment!Quiet, Experiment!None
<1>2. Sound(k) /\ Aware(k) /\ k.pc \notin Locking
  BY DEF Sound, Aware, Experiment!Quiet, Before, Locking, Working, Writing
<1>3. cmd' = [cmd EXCEPT ![c] = k] /\ UNCHANGED <<files, litter, locked, owner, lapsed, asked>>
  BY DEF Experiment!Stop, Experiment!Disk, Experiment!Exclusion
<1>4. server' \in [Commands -> {"none", "up", "exited", "reaped"}]
  BY DEF Experiment!Stop, ExperimentInv, Typed
<1>5. cmd[c].value # "error" =>
        /\ Proper([plan |-> cmd[c].plan, verdict |-> cmd[c].value])
        /\ [plan |-> cmd[c].plan, verdict |-> cmd[c].value] \in [plan : Plans, verdict : {"PASS", "FAIL"}]
  BY DEF ExperimentInv, Sound, CommandRecords, Experiment!Stop, Experiment!At
<1>6. told' = told \/ (/\ cmd[c].value # "error"
                       /\ told' = told \cup {[plan |-> cmd[c].plan, verdict |-> cmd[c].value]})
  BY DEF Experiment!Stop
<1>7. told' \subseteq [plan : Plans, verdict : {"PASS", "FAIL"}] /\ \A t \in told' : Proper(t)
  BY <1>5, <1>6 DEF ExperimentInv, Typed
<1>8. Typed'
  BY <1>3, <1>4, <1>7 DEF ExperimentInv, Typed
<1>9. ~lapsed' => /\ ~lapsed /\ asked' = {} /\ Aware(k)
                  /\ \A d \in Commands : d # c /\ cmd[d].pc \in Locking => locked' = d
                  /\ k.pc \in Locking => locked' = c
  BY <1>2, <1>3 DEF ExperimentInv, Alone
<1> HIDE DEF k
<1> QED BY <1>1, <1>2, <1>3, <1>7, <1>8, <1>9, Stepped

LEMMA LockSteps ==
  ASSUME ExperimentInv, NEW c \in Commands,
         Experiment!Lock(c) \/ Experiment!Own(c) \/ Experiment!Unlock(c) \/ Experiment!Crash(c)
  PROVE  ExperimentInv'
<1> DEFINE k == cmd'[c]
<1>1. cmd' = [cmd EXCEPT ![c] = k] /\ k \in CommandRecords
  <2>1. Experiment!Quiet \in CommandRecords
    BY Numbers DEF CommandRecords, Experiment!Quiet, Experiment!None
  <2>0. cmd[c] \in CommandRecords
    BY DEF ExperimentInv
  <2>2. ASSUME NEW pc \in {"stopping", "ending", "owning", "looking"}, NEW value \in {"error", "PASS", "FAIL"}
        PROVE  [cmd[c] EXCEPT !.pc = pc, !.value = value] \in CommandRecords
    <3> DEFINE x == cmd[c]
    <3>1. x \in CommandRecords
      BY <2>0
    <3> HIDE DEF x
    <3>2. [x EXCEPT !.pc = pc, !.value = value] \in CommandRecords
      BY <3>1 DEF CommandRecords, Locking
    <3> QED BY <3>2 DEF x
  <2>3. ASSUME NEW pc \in {"stopping", "ending", "owning", "looking"}
        PROVE  [cmd[c] EXCEPT !.pc = pc] \in CommandRecords
    BY DEF ExperimentInv, CommandRecords, Locking
  <2>4. cmd \in [Commands -> CommandRecords]
    BY DEF ExperimentInv
  <2>5. CASE Experiment!Crash(c)
    BY <2>1, <2>4, <2>5 DEF Experiment!Crash
  <2>6. CASE Experiment!Lock(c) \/ Experiment!Own(c)
    BY <2>3, <2>4, <2>6 DEF Experiment!Lock, Experiment!Own, Experiment!Goes
  <2>7. CASE Experiment!Unlock(c)
    <3>1. CASE owner = c /\ locked = c
      BY <2>3, <2>4, <2>7, <3>1 DEF Experiment!Unlock
    <3>2. CASE ~(owner = c /\ locked = c)
      <4>1. cmd' = [cmd EXCEPT ![c] = [cmd[c] EXCEPT !.pc = "stopping", !.value = "error"]]
        BY <2>4, <2>7, <3>2 DEF Experiment!Unlock
      <4> QED BY <2>2, <2>4, <4>1
    <3> QED BY <3>1, <3>2
  <2> QED BY <2>5, <2>6, <2>7
<1>2. \/ k = Experiment!Quiet
      \/ /\ k.plan = cmd[c].plan /\ k.known = cmd[c].known /\ k.value \in {cmd[c].value, "error"}
         /\ \/ k.pc \in {"stopping", "ending"}
            \/ k.at = cmd[c].at /\ k.got = cmd[c].got /\ cmd[c].pc \in Before /\ k.pc \in {"owning", "looking"}
  BY DEF ExperimentInv, CommandRecords, Before, Experiment!Lock, Experiment!Own, Experiment!At,
     Experiment!Unlock, Experiment!Crash, Experiment!Goes
<1>3. Sound(k) /\ Aware(k)
  <2>1. CASE k = Experiment!Quiet
    BY <2>1 DEF Sound, Aware, Experiment!Quiet, Before, Working, Writing
  <2>2. CASE k # Experiment!Quiet
    <3>1. cmd[c].pc # "idle"
      BY <2>2 DEF Experiment!Lock, Experiment!Own, Experiment!At, Experiment!Unlock, Experiment!Crash
    <3> QED BY <1>2, <2>2, <3>1 DEF ExperimentInv, Sound, Aware, Before, Working, Writing
  <2> QED BY <2>1, <2>2
<1>4. files' = files /\ UNCHANGED <<lapsed, told, asked>>
  BY DEF Experiment!Lock, Experiment!Own, Experiment!Unlock, Experiment!Crash, Experiment!Disk,
     Experiment!Ghosts
<1>5. Typed'
  BY DEF ExperimentInv, Typed, Experiment!Lock, Experiment!Own, Experiment!Unlock, Experiment!Crash,
     Experiment!Disk, Experiment!Ghosts, Experiment!FreedBy
<1>6. ~lapsed' => /\ ~lapsed /\ asked' = {} /\ Aware(k)
                  /\ \A d \in Commands : d # c /\ cmd[d].pc \in Locking => locked' = d
                  /\ k.pc \in Locking => locked' = c
  <2> SUFFICES ASSUME ~lapsed
               PROVE  /\ \A d \in Commands : d # c /\ cmd[d].pc \in Locking => locked' = d
                      /\ k.pc \in Locking => locked' = c
    BY <1>3, <1>4 DEF ExperimentInv, Alone
  <2>1. ASSUME NEW d \in Commands, d # c, cmd[d].pc \in Locking PROVE locked' = d
    <3>1. locked = d
      BY <2>1 DEF ExperimentInv, Alone
    <3> QED BY <2>1, <3>1, CommandsAssumption DEF Experiment!Lock, Experiment!Own, Experiment!Unlock,
           Experiment!Crash, Experiment!FreedBy
  <2>2. ASSUME k.pc \in Locking PROVE locked' = c
    <3>1. k.pc \in {"owning", "looking"}
      BY <1>2, <2>2 DEF Experiment!Quiet, Locking, Working, Writing
    <3>2. CASE Experiment!Lock(c)
      BY <3>1, <3>2 DEF Experiment!Lock, Experiment!Goes, ExperimentInv, CommandRecords
    <3>3. CASE Experiment!Own(c)
      BY <3>1, <3>3 DEF Experiment!Own, Experiment!Goes, Experiment!At, ExperimentInv, CommandRecords, Alone,
         Locking
    <3>4. CASE Experiment!Unlock(c) \/ Experiment!Crash(c)
      BY <3>1, <3>4 DEF Experiment!Unlock, Experiment!Crash, ExperimentInv, CommandRecords, Experiment!Quiet
    <3> QED BY <3>2, <3>3, <3>4
  <2> QED BY <2>1, <2>2
<1>7. \A t \in told' : Proper(t)
  BY <1>4 DEF ExperimentInv
<1> HIDE DEF k
<1> QED BY <1>1, <1>3, <1>4, <1>5, <1>6, <1>7, Stepped
(* A step that fails under the lock leaves all knowledge as it was.        *)
LEMMA Thrown ==
  ASSUME ExperimentInv, NEW c \in Commands, cmd[c].pc \in Locking, Experiment!Throws(c),
         UNCHANGED <<files, locked, owner, lapsed, told, asked, server>>,
         litter' \subseteq Commands \cup {Nobody}
  PROVE  ExperimentInv'
<1> DEFINE k == [cmd[c] EXCEPT !.pc = "unlocking"]
<1>1. k \in CommandRecords
  BY DEF ExperimentInv, CommandRecords, Locking
<1>2. Sound(k) /\ Aware(k)
  <2>1. cmd[c].pc # "idle" /\ cmd[c] \in CommandRecords
    BY DEF Locking, Working, Writing, ExperimentInv
  <2> QED BY <2>1 DEF ExperimentInv, CommandRecords, Sound, Aware, Before, Working, Writing
<1>3. cmd' = [cmd EXCEPT ![c] = k]
  BY DEF Experiment!Throws
<1> HIDE DEF k
<1>4. server' \in [Commands -> {"none", "up", "exited", "reaped"}] /\ asked' \subseteq AllRuns
  BY DEF ExperimentInv, Typed
<1> QED BY <1>1, <1>2, <1>3, <1>4, WentOn

LEMMA KillSteps ==
  ASSUME ExperimentInv, Experiment!HolderKilled
  PROVE  ExperimentInv'
<1> DEFINE c == locked
<1>1. c \in Commands /\ UNCHANGED <<files, litter, owner, server, cmd, told, asked>> /\ lapsed' = TRUE
      /\ locked' = Nobody
  BY DEF ExperimentInv, Typed, Experiment!HolderKilled, Experiment!Disk, Experiment!Ghosts
<1>2. cmd[c] \in CommandRecords /\ cmd' = [cmd EXCEPT ![c] = cmd[c]] /\ Sound(cmd[c])
  BY <1>1 DEF ExperimentInv
<1>3. Typed'
  BY <1>1 DEF ExperimentInv, Typed
<1>4. \A t \in told' : Proper(t)
  BY <1>1 DEF ExperimentInv
<1> HIDE DEF c
<1> QED BY <1>1, <1>2, <1>3, <1>4, Stepped

LEMMA LookSteps ==
  ASSUME ExperimentInv, NEW c \in Commands, Experiment!Look(c)
  PROVE  ExperimentInv'
<1>1. /\ cmd[c].pc = "looking" /\ cmd[c].pc \in Locking
      /\ UNCHANGED <<files, litter, locked, owner, lapsed, told, asked, server>>
  BY DEF Experiment!Look, Experiment!At, Experiment!Disk, Experiment!Exclusion, Experiment!Ghosts, Locking
<1>2. cmd \in [Commands -> CommandRecords] /\ cmd[c] \in CommandRecords
  BY DEF ExperimentInv
<1>3. /\ Sound(cmd[c]) /\ cmd[c].plan \in Plans /\ cmd[c].at = 1 /\ cmd[c].got = {}
      /\ Found \subseteq Artifacts /\ 0 \in Artifacts
  BY <1>1, Numbers DEF ExperimentInv, Sound, Before, Filed
<1>4. CASE Experiment!Throws(c)
  BY <1>1, <1>4, Thrown DEF ExperimentInv, Typed
<1>5. ASSUME Planned(cmd[c].plan),
             cmd' = [cmd EXCEPT ![c].pc = "counting", ![c].known = Found]
      PROVE  ExperimentInv'
  <2> DEFINE k == [cmd[c] EXCEPT !.pc = "counting", !.known = Found]
  <2>1. k \in CommandRecords
    BY <1>2, <1>3 DEF CommandRecords, Locking, Working
  <2>2. Sound(k) /\ Aware(k)
    <3>1. /\ k.pc = "counting" /\ k.known = Found /\ k.at = 1 /\ k.got = {} /\ k.plan = cmd[c].plan
          /\ k.value = cmd[c].value
      BY <1>2, <1>3 DEF CommandRecords
    <3>2. Evident(k)
      BY <3>1, Numbers DEF Evident
    <3> HIDE DEF k
    <3> QED BY <1>3, <1>5, <3>1, <3>2 DEF Sound, Aware, Before, Working, Writing
  <2>3. cmd' = [cmd EXCEPT ![c] = k]
    BY <1>2, <1>5
  <2> HIDE DEF k
  <2> QED BY <1>1, <2>1, <2>2, <2>3, WentOn DEF ExperimentInv, Typed
<1>6. ASSUME cmd' = [cmd EXCEPT ![c].pc = "staging", ![c].item = 0, ![c].draft = cmd[c].plan,
                                ![c].next = "counting", ![c].known = Found]
      PROVE  ExperimentInv'
  <2> DEFINE k == [cmd[c] EXCEPT !.pc = "staging", !.item = 0, !.draft = cmd[c].plan,
                                 !.next = "counting", !.known = Found]
  <2>1. k \in CommandRecords
    BY <1>2, <1>3 DEF CommandRecords, Locking, Working, Writing
  <2>2. Sound(k) /\ Aware(k)
    <3>1. /\ k.pc = "staging" /\ k.known = Found /\ k.at = 1 /\ k.got = {} /\ k.plan = cmd[c].plan
          /\ k.value = cmd[c].value /\ k.item = 0 /\ k.draft = k.plan /\ k.next = "counting"
      BY <1>2, <1>3 DEF CommandRecords
    <3>2. Evident(k) /\ Drafted(k)
      BY <3>1, Numbers DEF Evident, Drafted
    <3> HIDE DEF k
    <3> QED BY <1>3, <3>1, <3>2 DEF Sound, Aware, Before, Working, Writing
  <2>3. cmd' = [cmd EXCEPT ![c] = k]
    BY <1>2, <1>6
  <2> HIDE DEF k
  <2> QED BY <1>1, <2>1, <2>2, <2>3, WentOn DEF ExperimentInv, Typed
<1> QED BY <1>4, <1>5, <1>6 DEF Experiment!Look, Experiment!Plan, Planned, Found

LEMMA StageSteps ==
  ASSUME ExperimentInv, NEW c \in Commands, Experiment!Stage(c)
  PROVE  ExperimentInv'
<1>1. /\ cmd[c].pc = "staging" /\ cmd[c].pc \in Locking
      /\ UNCHANGED <<files, locked, owner, lapsed, told, asked, server>>
      /\ litter' \subseteq Commands \cup {Nobody}
  BY DEF Experiment!Stage, Experiment!At, Experiment!Exclusion, Experiment!Ghosts, Locking, Working,
     Writing, ExperimentInv, Typed
<1>2. cmd \in [Commands -> CommandRecords] /\ cmd[c] \in CommandRecords /\ Sound(cmd[c])
  BY DEF ExperimentInv
<1>3. CASE Experiment!Throws(c)
  BY <1>1, <1>3, Thrown
<1>4. CASE Experiment!Goes(c, "linking")
  <2> DEFINE k == [cmd[c] EXCEPT !.pc = "linking"]
  <2>1. k \in CommandRecords
    BY <1>2 DEF CommandRecords, Locking, Working, Writing
  <2>2. Sound(k) /\ (lapsed \/ Aware(k))
    <3>1. lapsed \/ Aware(cmd[c])
      BY DEF ExperimentInv, Alone, Typed
    <3>2. /\ k.pc = "linking" /\ k.known = cmd[c].known /\ k.at = cmd[c].at /\ k.got = cmd[c].got
          /\ k.plan = cmd[c].plan /\ k.value = cmd[c].value /\ k.item = cmd[c].item
          /\ k.draft = cmd[c].draft /\ k.next = cmd[c].next
      BY <1>2 DEF CommandRecords
    <3>3. Evident(k) /\ Drafted(k)
      BY <1>1, <1>2, <3>2 DEF Sound, Evident, Drafted, Working, Writing
    <3> HIDE DEF k
    <3> QED BY <1>1, <1>2, <3>1, <3>2, <3>3 DEF Sound, Aware, Before, Working, Writing
  <2>3. cmd' = [cmd EXCEPT ![c] = k]
    BY <1>4 DEF Experiment!Goes
  <2> HIDE DEF k
  <2> QED BY <1>1, <2>1, <2>2, <2>3, WentOn DEF ExperimentInv, Typed
<1> QED BY <1>3, <1>4 DEF Experiment!Stage

LEMMA TidySteps ==
  ASSUME ExperimentInv, NEW c \in Commands, Experiment!Tidy(c)
  PROVE  ExperimentInv'
<1>1. /\ cmd[c].pc = "tidying" /\ cmd[c].pc \in Locking
      /\ UNCHANGED <<files, locked, owner, lapsed, told, asked, server>>
      /\ litter' \subseteq Commands \cup {Nobody}
  BY DEF Experiment!Tidy, Experiment!At, Experiment!Exclusion, Experiment!Ghosts, Locking, Working,
     Writing, ExperimentInv, Typed
<1>2. cmd \in [Commands -> CommandRecords] /\ cmd[c] \in CommandRecords /\ Sound(cmd[c])
  BY DEF ExperimentInv
<1>3. CASE Experiment!Throws(c)
  BY <1>1, <1>3, Thrown
<1>4. CASE Experiment!Goes(c, cmd[c].next)
  <2> DEFINE k == [cmd[c] EXCEPT !.pc = cmd[c].next]
  <2>1. Drafted(cmd[c]) /\ cmd[c].item \in Found /\ files[cmd[c].item] = cmd[c].draft
    BY <1>1, <1>2 DEF Sound, Writing
  <2>2. cmd[c].next \in {"counting", "running", "checking"} /\ (cmd[c].next = "checking" => cmd[c].at = LastItem)
    BY <2>1 DEF Drafted
  <2>3. k \in CommandRecords
    BY <1>2, <2>2 DEF CommandRecords, Locking, Working, Writing
  <2>4. Sound(k) /\ (lapsed \/ Aware(k))
    <3>1. lapsed \/ Aware(cmd[c])
      BY DEF ExperimentInv, Alone, Typed
    <3>2. /\ k.pc = cmd[c].next /\ k.known = cmd[c].known /\ k.at = cmd[c].at /\ k.got = cmd[c].got
          /\ k.plan = cmd[c].plan /\ k.value = cmd[c].value
      BY <1>2 DEF CommandRecords
    <3>3. Planned(k.plan)
      BY <1>1, <1>2, <2>1, <3>2, Numbers DEF Sound, Drafted, Planned, Working, Writing
    <3>4. Evident(k)
      BY <1>1, <1>2, <3>2 DEF Sound, Evident, Working, Writing
    <3> HIDE DEF k
    <3> QED BY <1>1, <1>2, <2>2, <3>1, <3>2, <3>3, <3>4 DEF Sound, Aware, Before, Working, Writing
  <2>5. cmd' = [cmd EXCEPT ![c] = k]
    BY <1>4 DEF Experiment!Goes
  <2> HIDE DEF k
  <2> QED BY <1>1, <2>3, <2>4, <2>5, WentOn DEF ExperimentInv, Typed
<1> QED BY <1>3, <1>4 DEF Experiment!Tidy
LEMMA CountSteps ==
  ASSUME ExperimentInv, NEW c \in Commands, Experiment!CountTokens(c)
  PROVE  ExperimentInv'
<1>1. /\ cmd[c].pc = "counting" /\ cmd[c].pc \in Locking
      /\ UNCHANGED <<files, litter, locked, owner, lapsed, told, asked, server>>
  BY DEF Experiment!CountTokens, Experiment!At, Experiment!Disk, Experiment!Exclusion,
     Experiment!Ghosts, Locking, Working
<1>2. cmd \in [Commands -> CommandRecords] /\ cmd[c] \in CommandRecords /\ Sound(cmd[c])
  BY DEF ExperimentInv
<1>3. CASE Experiment!Throws(c)
  BY <1>1, <1>3, Thrown DEF ExperimentInv, Typed
<1>4. CASE Experiment!Goes(c, "running")
  <2> DEFINE k == [cmd[c] EXCEPT !.pc = "running"]
  <2>1. k \in CommandRecords
    BY <1>2 DEF CommandRecords, Locking, Working
  <2>2. Sound(k) /\ (lapsed \/ Aware(k))
    <3>1. lapsed \/ Aware(cmd[c])
      BY DEF ExperimentInv, Alone, Typed
    <3>2. /\ k.pc = "running" /\ k.known = cmd[c].known /\ k.at = cmd[c].at /\ k.got = cmd[c].got
          /\ k.plan = cmd[c].plan /\ k.value = cmd[c].value
      BY <1>2 DEF CommandRecords
    <3>3. Evident(k)
      BY <1>1, <1>2, <3>2 DEF Sound, Evident, Working
    <3> HIDE DEF k
    <3> QED BY <1>1, <1>2, <3>1, <3>2, <3>3 DEF Sound, Aware, Before, Working, Writing
  <2>3. cmd' = [cmd EXCEPT ![c] = k]
    BY <1>4 DEF Experiment!Goes
  <2> HIDE DEF k
  <2> QED BY <1>1, <2>1, <2>2, <2>3, WentOn DEF ExperimentInv, Typed
<1> QED BY <1>3, <1>4 DEF Experiment!CountTokens

(* A run that is read back is on disk.                                     *)
LEMMA ResumeSteps ==
  ASSUME ExperimentInv, NEW c \in Commands, Experiment!Resume(c)
  PROVE  ExperimentInv'
<1>1. /\ cmd[c].pc = "running" /\ cmd[c].pc \in Locking
      /\ UNCHANGED <<files, litter, locked, owner, lapsed, told, asked, server>>
      /\ cmd[c].at \in AllRuns /\ cmd[c].at \in cmd[c].known
  BY DEF Experiment!Resume, Experiment!At, Experiment!Disk, Experiment!Exclusion,
     Experiment!Ghosts, Locking, Working, AllRuns
<1>2. cmd \in [Commands -> CommandRecords] /\ cmd[c] \in CommandRecords /\ Sound(cmd[c])
  BY DEF ExperimentInv
<1>3. CASE Experiment!Throws(c)
  BY <1>1, <1>3, Thrown DEF ExperimentInv, Typed
<1>4. ASSUME cmd' = [cmd EXCEPT ![c].got = @ \cup {<<cmd[c].at, files[cmd[c].at]>>}, ![c].at = cmd[c].at + 1]
      PROVE  ExperimentInv'
  <2> DEFINE i == cmd[c].at
             g == <<i, files[i]>>
             k == [cmd[c] EXCEPT !.got = cmd[c].got \cup {g}, !.at = i + 1]
  <2>1. i \in Found /\ g \in Pairs /\ i + 1 \in 1..(NumRuns + 1)
    BY <1>1, <1>2, Numbers DEF ExperimentInv, Filed, Sound, Pairs
  <2>2. k \in CommandRecords
    BY <1>2, <2>1 DEF CommandRecords
  <2>3. cmd' = [cmd EXCEPT ![c] = k]
    BY <1>2, <1>4
  <2>4. /\ k.pc = "running" /\ k.known = cmd[c].known /\ k.at = i + 1 /\ k.got = cmd[c].got \cup {g}
        /\ k.plan = cmd[c].plan /\ k.value = cmd[c].value
    BY <1>1, <1>2 DEF CommandRecords
  <2> HIDE DEF k
  <2>5. Evident(k)
    <3>1. Evident(cmd[c])
      BY <1>1, <1>2 DEF Sound, Working
    <3>2. \A x \in cmd[c].got : x[1] < i + 1 /\ x[1] \in Found /\ files[x[1]] = x[2]
      <4>1. \A x \in cmd[c].got : x \in Pairs
        BY <1>2 DEF CommandRecords
      <4> QED BY <1>1, <3>1, <4>1, Numbers DEF Evident, Pairs
    <3>3. g[1] = i /\ g[2] = files[i] /\ i < i + 1 /\ files[i] \in Recordings
      BY <1>1, <2>1, Numbers DEF Pairs
    <3>4. \A j \in AllRuns : j < i + 1 => j < i \/ j = i
      BY <1>1, Numbers
    <3> QED BY <2>1, <2>4, <3>1, <3>2, <3>3, <3>4 DEF Evident
  <2>6. Sound(k)
    BY <1>1, <1>2, <2>4, <2>5 DEF Sound, Before, Working, Writing
  <2>7. lapsed \/ Aware(k)
    <3>1. lapsed \/ Aware(cmd[c])
      BY DEF ExperimentInv, Alone, Typed
    <3>2. \A j \in AllRuns : j < i => j < i + 1
      BY <1>1, Numbers
    <3> QED BY <1>1, <2>4, <3>1, <3>2 DEF Aware, Working
  <2>8. k.pc \in Locking => cmd[c].pc \in Locking
    BY <1>1
  <2> QED BY <1>1, <2>2, <2>3, <2>6, <2>7, <2>8, WentOn DEF ExperimentInv, Typed
<1> QED BY <1>3, <1>4 DEF Experiment!Resume

(* A run that is asked for is not on disk, as far as the command knows.    *)
LEMMA AskSteps ==
  ASSUME ExperimentInv, NEW c \in Commands, NEW x \in Completions,
         Experiment!Ask(c, x) \/ Experiment!AskAndExit(c, x)
  PROVE  ExperimentInv'
<1> DEFINE i == cmd[c].at
<1>1. /\ cmd[c].pc = "running" /\ cmd[c].pc \in Locking
      /\ UNCHANGED <<files, litter, locked, owner, lapsed, told>>
      /\ i \in AllRuns /\ i \notin cmd[c].known
      /\ server' \in [Commands -> {"none", "up", "exited", "reaped"}]
      /\ asked' = (IF i \in Found THEN asked \cup {i} ELSE asked)
  BY DEF Experiment!Ask, Experiment!AskAndExit, Experiment!Records, Experiment!At, Experiment!Disk,
     Experiment!Exclusion, Locking, Working, AllRuns, Found, ExperimentInv, Typed
<1>2. cmd \in [Commands -> CommandRecords] /\ cmd[c] \in CommandRecords /\ Sound(cmd[c])
  BY DEF ExperimentInv
<1>3. PICK run \in Recordings : run.plan = cmd[c].plan /\ Experiment!Records(c, run)
  <2>1. cmd[c].plan \in Plans
    BY <1>1, <1>2 DEF Sound
  <2>2. \A exited \in BOOLEAN :
          /\ Experiment!Recorded(cmd[c].plan, x, exited) \in Recordings
          /\ Experiment!Recorded(cmd[c].plan, x, exited).plan = cmd[c].plan
    BY <2>1, RecordedWell
  <2>3. \E exited \in BOOLEAN : Experiment!Records(c, Experiment!Recorded(cmd[c].plan, x, exited))
    BY DEF Experiment!Ask, Experiment!AskAndExit
  <2> QED BY <2>2, <2>3
<1> DEFINE g == <<i, run>>
           k == [cmd[c] EXCEPT !.pc = "staging", !.item = i, !.draft = run, !.next = "running",
                               !.at = i + 1, !.got = cmd[c].got \cup {g}]
<1>4. k \in CommandRecords
  <2>1. g \in Pairs /\ i + 1 \in 1..(NumRuns + 1) /\ i \in Artifacts
    BY <1>1, Numbers DEF Pairs
  <2> QED BY <1>2, <2>1 DEF CommandRecords, Locking, Working, Writing
<1>5. cmd' = [cmd EXCEPT ![c] = k]
  BY <1>2, <1>3 DEF Experiment!Records
<1>6. /\ k.pc = "staging" /\ k.known = cmd[c].known /\ k.at = i + 1 /\ k.got = cmd[c].got \cup {g}
      /\ k.plan = cmd[c].plan /\ k.value = cmd[c].value /\ k.item = i /\ k.draft = run
      /\ k.next = "running"
  BY <1>2 DEF CommandRecords
<1> HIDE DEF k
<1>7. Evident(k)
  <2>1. Evident(cmd[c])
    BY <1>1, <1>2 DEF Sound, Working
  <2>2. \A y \in cmd[c].got : y[1] < i + 1 /\ y[1] \in Found /\ files[y[1]] = y[2]
    <3>1. \A y \in cmd[c].got : y \in Pairs
      BY <1>2 DEF CommandRecords
    <3> QED BY <1>1, <2>1, <3>1, Numbers DEF Evident, Pairs
  <2>3. g[1] = i /\ i < i + 1 /\ g = <<k.item, k.draft>>
    BY <1>1, <1>6, Numbers
  <2>4. \A j \in AllRuns : j < i + 1 => j < i \/ j = i
    BY <1>1, Numbers
  <2> QED BY <1>6, <2>1, <2>2, <2>3, <2>4 DEF Evident
<1>8. Drafted(k)
  BY <1>1, <1>3, <1>6 DEF Drafted
<1>9. Sound(k)
  BY <1>1, <1>2, <1>6, <1>7, <1>8 DEF Sound, Before, Working, Writing
<1>10. lapsed \/ (Aware(k) /\ i \notin Found)
  <2>1. lapsed \/ Aware(cmd[c])
    BY DEF ExperimentInv, Alone, Typed
  <2>2. ~(i < i) /\ \A j \in AllRuns : j < i => j < i + 1
    BY <1>1, Numbers
  <2> QED BY <1>1, <1>6, <2>1, <2>2 DEF Aware, Working
<1>11. asked' \subseteq AllRuns /\ (lapsed \/ asked' = asked) /\ litter' \subseteq Commands \cup {Nobody}
  BY <1>1, <1>10 DEF ExperimentInv, Typed
<1>12. k.pc \in Locking => cmd[c].pc \in Locking
  BY <1>1
<1> QED BY <1>1, <1>4, <1>5, <1>9, <1>10, <1>11, <1>12, WentOn

LEMMA ReportSteps ==
  ASSUME ExperimentInv, NEW c \in Commands, Experiment!Report(c)
  PROVE  ExperimentInv'
<1> DEFINE report == Experiment!ReportOn(cmd[c].plan, cmd[c].got)
<1>1. /\ cmd[c].pc = "running" /\ cmd[c].pc \in Locking /\ cmd[c].at = LastItem
      /\ UNCHANGED <<files, litter, locked, owner, lapsed, told, asked, server>>
  BY DEF Experiment!Report, Experiment!At, Experiment!Disk, Experiment!Exclusion, Experiment!Ghosts,
     Locking, Working, LastItem
<1>2. cmd \in [Commands -> CommandRecords] /\ cmd[c] \in CommandRecords /\ Sound(cmd[c])
  BY DEF ExperimentInv
<1>3. report \in Reports
  BY <1>1, <1>2 DEF Reports, Sound, CommandRecords
<1>4. CASE Experiment!Throws(c)
  BY <1>1, <1>4, Thrown DEF ExperimentInv, Typed
<1>5. CASE Experiment!Goes(c, "checking") \/ Experiment!Writes(c, LastItem, report, "checking")
  <2> DEFINE k == IF Experiment!Goes(c, "checking") THEN [cmd[c] EXCEPT !.pc = "checking"]
                  ELSE [cmd[c] EXCEPT !.pc = "staging", !.item = LastItem, !.draft = report,
                                      !.next = "checking"]
  <2>1. k \in CommandRecords
    <3>1. [cmd[c] EXCEPT !.pc = "checking"] \in CommandRecords
      BY <1>2 DEF CommandRecords, Locking, Working
    <3>2. LastItem \in Artifacts
      BY Numbers
    <3>3. [cmd[c] EXCEPT !.pc = "staging", !.item = LastItem, !.draft = report, !.next = "checking"]
            \in CommandRecords
      BY <1>2, <1>3, <3>2 DEF CommandRecords, Locking, Working, Writing
    <3> QED BY <3>1, <3>3
  <2>2. cmd' = [cmd EXCEPT ![c] = k]
    BY <1>2, <1>5 DEF Experiment!Goes, Experiment!Writes
  <2>3. /\ k.known = cmd[c].known /\ k.at = LastItem /\ k.got = cmd[c].got
        /\ k.plan = cmd[c].plan /\ k.value = cmd[c].value
        /\ \/ k.pc = "checking"
           \/ k.pc = "staging" /\ k.item = LastItem /\ k.draft = report /\ k.next = "checking"
    BY <1>1, <1>2 DEF CommandRecords
  <2> HIDE DEF k
  <2>4. Evident(k) /\ (k.pc = "staging" => Drafted(k))
    BY <1>1, <1>2, <2>3 DEF Sound, Evident, Drafted, Working
  <2>5. Sound(k)
    BY <1>1, <1>2, <2>3, <2>4 DEF Sound, Before, Working, Writing
  <2>6. lapsed \/ Aware(k)
    <3>1. lapsed \/ Aware(cmd[c])
      BY DEF ExperimentInv, Alone, Typed
    <3> QED BY <1>1, <2>3, <3>1 DEF Aware, Working
  <2>7. k.pc \in Locking => cmd[c].pc \in Locking
    BY <1>1
  <2> QED BY <1>1, <2>1, <2>2, <2>5, <2>6, <2>7, WentOn DEF ExperimentInv, Typed
<1> QED BY <1>4, <1>5 DEF Experiment!Report, LastItem

(* What a command that has asked or read back every run has got is what    *)
(* is on disk.                                                             *)
LEMMA AllGot ==
  ASSUME ExperimentInv, NEW k \in CommandRecords, Evident(k), k.at = LastItem,
         k.pc \in {"staging", "linking"} => k.item = LastItem
  PROVE  AllRuns \subseteq Found /\ k.got = Experiment!OnDisk
<1>1. \A g \in k.got : g \in Pairs
  BY DEF CommandRecords
<1>2. \A g \in k.got : g[1] \in AllRuns /\ g = <<g[1], g[2]>>
  BY <1>1 DEF Pairs
<1>3. \A g \in k.got : g # <<LastItem, k.draft>>
  BY <1>2, Numbers
<1>4. \A g \in k.got : g[1] \in Found /\ g = <<g[1], files[g[1]]>>
  BY <1>2, <1>3 DEF Evident
<1>5. \A i \in AllRuns : i \in Found /\ <<i, files[i]>> \in k.got
  <2> SUFFICES ASSUME NEW i \in AllRuns PROVE i \in Found /\ <<i, files[i]>> \in k.got
    OBVIOUS
  <2>1. PICK r \in Recordings : <<i, r>> \in k.got
    BY Numbers DEF Evident
  <2> QED BY <1>4, <2>1
<1>6. Experiment!OnDisk = {<<i, files[i]>> : i \in AllRuns}
  BY DEF Experiment!OnDisk, AllRuns
<1>7. \A g \in k.got : g \in Experiment!OnDisk
  BY <1>2, <1>4, <1>6
<1>8. \A g \in Experiment!OnDisk : g \in k.got
  BY <1>5, <1>6
<1> QED BY <1>5, <1>7, <1>8

LEMMA CheckSteps ==
  ASSUME ExperimentInv, NEW c \in Commands, Experiment!Check(c)
  PROVE  ExperimentInv'
<1>1. /\ cmd[c].pc = "checking" /\ cmd[c].pc \in Locking
      /\ UNCHANGED <<files, litter, locked, owner, lapsed, told, asked, server>>
  BY DEF Experiment!Check, Experiment!At, Experiment!Disk, Experiment!Exclusion, Experiment!Ghosts,
     Locking, Working
<1>2. cmd \in [Commands -> CommandRecords] /\ cmd[c] \in CommandRecords /\ Sound(cmd[c])
  BY DEF ExperimentInv
<1>3. CASE Experiment!Throws(c)
  BY <1>1, <1>3, Thrown DEF ExperimentInv, Typed
<1>4. CASE ~Experiment!Throws(c)
  <2> DEFINE value == IF Experiment!Passed(cmd[c].got) THEN "PASS" ELSE "FAIL"
             k == [cmd[c] EXCEPT !.pc = "unlocking", !.value = value]
  <2>1. Found = Artifacts /\ cmd' = [cmd EXCEPT ![c] = k]
    BY <1>2, <1>4 DEF Experiment!Check, Found, Artifacts
  <2>2. k \in CommandRecords
    <3> DEFINE x == cmd[c]
    <3>1. x \in CommandRecords /\ value \in {"error", "PASS", "FAIL"}
      BY <1>2
    <3> HIDE DEF x, value
    <3>2. [x EXCEPT !.pc = "unlocking", !.value = value] \in CommandRecords
      BY <3>1 DEF CommandRecords, Locking
    <3> QED BY <3>2 DEF x
  <2>3. cmd[c].got = Experiment!OnDisk
    BY <1>1, <1>2, AllGot DEF Sound, Working
  <2>4. value = Verdict
    BY <2>3 DEF Verdict
  <2>5. /\ k.pc = "unlocking" /\ k.known = cmd[c].known /\ k.plan = cmd[c].plan /\ k.value = value
    BY <1>2 DEF CommandRecords
  <2>6. Planned(k.plan)
    BY <1>1, <1>2, <2>5 DEF Sound, Working, Writing
  <2> HIDE DEF k, value
  <2>7. Sound(k) /\ Aware(k)
    BY <1>1, <1>2, <2>1, <2>4, <2>5, <2>6 DEF Sound, Aware, Proper, Before, Working, Writing
  <2>8. k.pc \in Locking => cmd[c].pc \in Locking
    BY <1>1
  <2> QED BY <1>1, <2>1, <2>2, <2>7, <2>8, WentOn DEF ExperimentInv, Typed
<1> QED BY <1>3, <1>4
(* The directory grows by what a command has said it would be, and by no   *)
(* name that was there.                                                    *)
LEMMA LinkGrows ==
  ASSUME ExperimentInv, NEW c \in Commands, cmd[c].pc = "linking", cmd[c].item \notin Found,
         Experiment!Named(cmd[c].item, cmd[c].draft)
  PROVE  /\ Found' = Found \cup {cmd[c].item} /\ files'[cmd[c].item] = cmd[c].draft
         /\ \A item \in Found : files'[item] = files[item]
         /\ cmd[c].item \in Artifacts /\ LastItem \notin Found /\ Found # Artifacts
         /\ Filed'
<1> DEFINE k == cmd[c]
<1>1. k \in CommandRecords /\ Sound(k)
  BY DEF ExperimentInv
<1>2. Found' = Found \cup {k.item} /\ files'[k.item] = k.draft /\ \A item \in Found : files'[item] = files[item]
  BY DEF Experiment!Named, Found
<1>3. k.item \in Artifacts
  BY <1>1 DEF CommandRecords
<1>4. Drafted(k) /\ Evident(k) /\ (Planned(k.plan) \/ k.item = 0) /\ k.plan \in Plans
  BY <1>1 DEF Sound, Working, Writing
<1>5. LastItem \notin Found
  BY <1>3, <1>4, Numbers DEF ExperimentInv, Filed, Planned
<1>6. Found' \subseteq Artifacts
  BY <1>2, <1>3 DEF ExperimentInv, Filed
<1>7. 0 \in Found' /\ files'[0] \in Plans /\ files'[0] = k.plan
  BY <1>2, <1>4, Numbers DEF ExperimentInv, Filed, Planned, Drafted
<1>8. \A i \in AllRuns \cap Found' : files'[i] \in Recordings /\ files'[i].plan = files'[0]
  <2> SUFFICES ASSUME NEW i \in AllRuns, i \in Found'
               PROVE  files'[i] \in Recordings /\ files'[i].plan = files'[0]
    OBVIOUS
  <2>1. CASE i \in Found
    <3>1. files[i] \in Recordings /\ files[i].plan = files[0] /\ 0 \in Found
      BY <2>1 DEF ExperimentInv, Filed
    <3> QED BY <1>2, <2>1, <3>1
  <2>2. CASE i = k.item
    BY <1>2, <1>4, <1>7, <2>2, Numbers DEF Drafted
  <2> QED BY <1>2, <2>1, <2>2
<1>9. ASSUME LastItem \in Found'
      PROVE  AllRuns \subseteq Found'
             /\ files'[LastItem] = Experiment!ReportOn(files'[0], Experiment!OnDisk')
  <2>1. k.item = LastItem
    BY <1>2, <1>5, <1>9
  <2>2. k.at = LastItem /\ k.draft = Experiment!ReportOn(k.plan, k.got)
    BY <1>4, <2>1, Numbers DEF Drafted
  <2>3. AllRuns \subseteq Found /\ k.got = Experiment!OnDisk
    BY <1>1, <1>4, <2>1, <2>2, AllGot
  <2>4. Experiment!OnDisk' = Experiment!OnDisk
    BY <1>2, <2>3 DEF Experiment!OnDisk, AllRuns
  <2> QED BY <1>2, <1>7, <2>1, <2>2, <2>3, <2>4
<1>10. Filed'
  BY <1>6, <1>7, <1>8, <1>9 DEF Filed
<1>11. Found # Artifacts
  BY <1>3
<1> QED BY <1>2, <1>3, <1>5, <1>10, <1>11

LEMMA LinkSteps ==
  ASSUME ExperimentInv, NEW c \in Commands, Experiment!Link(c)
  PROVE  ExperimentInv'
<1>1. /\ cmd[c].pc = "linking" /\ cmd[c].pc \in Locking
      /\ UNCHANGED <<locked, owner, lapsed, told, asked, server>>
      /\ litter' \subseteq Commands \cup {Nobody}
  BY DEF Experiment!Link, Experiment!At, Experiment!Exclusion, Experiment!Ghosts, Locking, Working,
     Writing, ExperimentInv, Typed
<1>2. cmd \in [Commands -> CommandRecords] /\ cmd[c] \in CommandRecords /\ Sound(cmd[c])
  BY DEF ExperimentInv
<1>3. CASE cmd[c].item \in Found
  <2>1. Experiment!Throws(c) /\ files' = files
    BY <1>3 DEF Experiment!Link, Found
  <2> QED BY <1>1, <2>1, Thrown
<1>4. CASE cmd[c].item \notin Found
  <2> DEFINE item == cmd[c].item
  <2>1. [cmd[c] EXCEPT !.pc = "tidying"] \in CommandRecords
    BY <1>2 DEF CommandRecords, Locking, Working, Writing
  <2>2. PICK k \in CommandRecords : k = [cmd[c] EXCEPT !.pc = "tidying"]
    BY <2>1
  <2>3. Experiment!Named(item, cmd[c].draft) /\ cmd' = [cmd EXCEPT ![c] = k]
    BY <1>4, <2>2 DEF Experiment!Link, Experiment!Goes, Found
  <2>4. /\ Found' = Found \cup {item} /\ files'[item] = cmd[c].draft
        /\ \A x \in Found : files'[x] = files[x]
        /\ item \in Artifacts /\ LastItem \notin Found /\ Found # Artifacts /\ Filed'
    BY <1>1, <1>4, <2>3, LinkGrows
  <2>5. /\ k.pc = "tidying" /\ k.known = cmd[c].known /\ k.at = cmd[c].at /\ k.got = cmd[c].got
        /\ k.plan = cmd[c].plan /\ k.value = cmd[c].value /\ k.item = item
        /\ k.draft = cmd[c].draft /\ k.next = cmd[c].next
    BY <1>2, <2>2 DEF CommandRecords
  <2>6. cmd' \in [Commands -> CommandRecords] /\ cmd'[c] = k /\ \A d \in Commands : d # c => cmd'[d] = cmd[d]
    BY <1>2, <2>3
  <2>7. \A p : Planned(p) => Planned(p)'
    BY <2>4 DEF Planned
  <2>8. ASSUME NEW l, Sound(l), l.value = "error" PROVE Sound(l)'
    <3>1. l.pc \in Working => Evident(l)'
      BY <2>4, <2>8 DEF Sound, Evident
    <3> QED BY <2>4, <2>7, <2>8, <3>1 DEF Sound, Drafted
  <2>9. ASSUME NEW d \in Commands, d # c PROVE Sound(cmd[d])'
    <3>1. Sound(cmd[d]) /\ cmd[d].value = "error" /\ cmd'[d] = cmd[d]
      BY <2>4, <2>6, <2>9 DEF ExperimentInv, Sound, Proper
    <3> QED BY <2>8, <3>1
  <2>10. Sound(k)'
    <3>1. k.value = "error" /\ Drafted(k) /\ Evident(cmd[c]) /\ (Planned(k.plan) \/ item = 0)
          /\ k.plan \in Plans
      BY <1>1, <1>2, <2>4, <2>5 DEF Sound, Proper, Drafted, Working, Writing
    <3>2. Planned(k.plan)'
      BY <2>4, <2>5, <2>7, <3>1, Numbers DEF Planned, Drafted
    <3>3. Evident(k)'
      BY SMTT(30), <2>4, <2>5, <3>1 DEF Evident
    <3> QED BY <1>2, <2>4, <2>5, <3>1, <3>2, <3>3 DEF Sound, Drafted, Before, Working, Writing
  <2>11. Alone'
    <3> SUFFICES ASSUME ~lapsed PROVE Alone'
      BY <1>1 DEF Alone
    <3>1. \A d \in Commands : d # c => cmd[d].pc \notin Locking
      BY <1>1 DEF ExperimentInv, Alone
    <3>2. Aware(k)'
      BY <1>1, <1>2, <2>4, <2>5, Numbers DEF ExperimentInv, Alone, Aware, Sound, Drafted, Working, Writing
    <3>3. locked = c /\ asked = {}
      BY <1>1 DEF ExperimentInv, Alone
    <3>4. ASSUME NEW d \in Commands PROVE (cmd'[d].pc \in Locking => locked' = d) /\ Aware(cmd[d])'
      BY <1>1, <2>6, <3>1, <3>2, <3>3 DEF Aware, Locking
    <3> QED BY <1>1, <3>3, <3>4 DEF Alone
  <2>12. Typed' /\ told' = {}
    BY <1>1, <2>4 DEF ExperimentInv, Typed, Proper
  <2>13. \A d \in Commands : Sound(cmd[d])'
    BY <2>6, <2>9, <2>10
  <2> QED BY <2>4, <2>6, <2>11, <2>12, <2>13 DEF ExperimentInv
<1> QED BY <1>3, <1>4

LEMMA ExperimentNext ==
  ASSUME ExperimentInv, Experiment!Next
  PROVE  ExperimentInv'
<1>1. CASE Experiment!HolderKilled
  BY <1>1, KillSteps
<1>2. ASSUME NEW c \in Commands, Experiment!Step(c)
      PROVE  ExperimentInv'
  <2>1. CASE \E x \in Completions : Experiment!Ask(c, x) \/ Experiment!AskAndExit(c, x)
    BY <2>1, AskSteps
  <2>2. CASE Experiment!LoadFails(c) \/ Experiment!WorkEnds(c)
    BY <2>2, RuntimeSteps
  <2>3. CASE Experiment!Lock(c) \/ Experiment!Own(c) \/ Experiment!Unlock(c)
    BY <2>3, LockSteps
  <2> QED BY <1>2, <2>1, <2>2, <2>3, StopSteps, LookSteps, StageSteps, LinkSteps, TidySteps, CountSteps,
             ResumeSteps, ReportSteps, CheckSteps DEF Experiment!Step
<1>3. ASSUME NEW c \in Commands,
             \/ Experiment!ServerExits(c) \/ Experiment!Reaped(c)
             \/ \E p \in Plans : Experiment!Start(c, p)
      PROVE  ExperimentInv'
  BY <1>3, RuntimeSteps
<1>4. ASSUME NEW c \in Commands, Experiment!Crash(c)
      PROVE  ExperimentInv'
  BY <1>4, LockSteps
<1> QED BY <1>1, <1>2, <1>3, <1>4 DEF Experiment!Next

LEMMA ExperimentInvariant == HostSpec => []ExperimentInv
<1>1. HostInit => ExperimentInv
  BY ExperimentInit DEF HostInit
<1>2. ASSUME ExperimentInv, [HostNext]_hostVars
      PROVE  ExperimentInv'
  <2>1. CASE Experiment!Next
    BY <1>2, <2>1, ExperimentNext
  <2>2. CASE UNCHANGED experimentVars
    <3>1. /\ Found' = Found /\ Verdict' = Verdict /\ Experiment!OnDisk' = Experiment!OnDisk
          /\ UNCHANGED <<files, litter, locked, owner, server, cmd, told, asked, lapsed>>
      BY <2>2 DEF experimentVars, Found, Verdict, Experiment!OnDisk
    <3>2. Typed' /\ Filed' /\ Alone'
      BY <1>2, <3>1 DEF ExperimentInv, Typed, Filed, Alone, Aware
    <3>3. ASSUME NEW k, Sound(k) PROVE Sound(k)'
      BY <3>1, <3>3 DEF Sound, Proper, Planned, Evident, Drafted
    <3>4. ASSUME NEW t, Proper(t) PROVE Proper(t)'
      BY <3>1, <3>4 DEF Proper, Planned
    <3> QED BY <1>2, <3>1, <3>2, <3>3, <3>4 DEF ExperimentInv
  <2> QED BY <1>2, <2>1, <2>2 DEF HostNext, hostVars
<1> QED BY <1>1, <1>2, PTL DEF HostSpec

(* A report is the one its runs give, a verdict was given for runs that    *)
(* are all on disk, made under its plan, and all verdicts are one; and     *)
(* while no lock holder is killed no run is asked for twice: for any       *)
(* number of commands, of runs and of plans (withExperimentLock,           *)
(* writeImmutableJson, validateResumedRun, operationalRunSetPassed).       *)
THEOREM EvidenceIsKept == HostSpec => []EvidenceKept
<1>1. ASSUME ExperimentInv PROVE EvidenceKept
  <2>1. Experiment!Passed(Experiment!OnDisk) <=> \A i \in AllRuns : Experiment!Succeeded(files[i])
    <3>1. \A i \in AllRuns : <<i, files[i]>> \in Experiment!OnDisk
      BY DEF Experiment!OnDisk, AllRuns
    <3>2. \A g \in Experiment!OnDisk : g[1] \in AllRuns /\ g[2] = files[g[1]]
      BY DEF Experiment!OnDisk, AllRuns
    <3>3. {g[1] : g \in Experiment!OnDisk} \subseteq AllRuns
      BY <3>2
    <3>4. ASSUME NEW i \in AllRuns PROVE i \in {g[1] : g \in Experiment!OnDisk}
      <4> DEFINE here == <<i, files[i]>>
      <4>1. here \in Experiment!OnDisk /\ here[1] = i
        BY <3>1
      <4> HIDE DEF here
      <4> QED BY <4>1
    <3>5. {g[1] : g \in Experiment!OnDisk} = AllRuns
      BY <3>3, <3>4
    <3> QED BY <3>1, <3>2, <3>5 DEF Experiment!Passed, AllRuns
  <2>2. ASSUME NEW t \in told
        PROVE  /\ Found = Artifacts /\ files[0] = t.plan
               /\ \A i \in AllRuns : files[i].plan = t.plan
               /\ t.verdict = "PASS" <=> \A i \in AllRuns : Experiment!Succeeded(files[i])
    <3>1. Found = Artifacts /\ Planned(t.plan) /\ t.verdict = Verdict
      BY <1>1 DEF ExperimentInv, Proper
    <3>2. \A i \in AllRuns : files[i].plan = files[0]
      BY <1>1, <3>1, Numbers DEF ExperimentInv, Filed
    <3> QED BY <2>1, <3>1, <3>2 DEF Planned, Verdict
  <2>3. \A t, u \in told : t = u
    <3> SUFFICES ASSUME NEW t \in told, NEW u \in told PROVE t = u
      OBVIOUS
    <3>1. t.plan = u.plan /\ t.verdict = u.verdict
      BY <1>1, <2>2 DEF ExperimentInv, Proper
    <3>2. t \in [plan : Plans, verdict : {"PASS", "FAIL"}] /\ u \in [plan : Plans, verdict : {"PASS", "FAIL"}]
      BY <1>1 DEF ExperimentInv, Typed
    <3> QED BY <3>1, <3>2
  <2>4. Experiment!TypeOK
    BY <1>1 DEF ExperimentInv, Typed, Filed, Experiment!TypeOK, Artifacts, AllRuns, Found
  <2>5. LastItem \in Found =>
          AllRuns \subseteq Found /\ files[LastItem] = Experiment!ReportOn(files[0], Experiment!OnDisk)
    BY <1>1 DEF ExperimentInv, Filed
  <2>6. Experiment!EvidenceStands
    BY <2>2, <2>3, <2>4, <2>5 DEF Experiment!EvidenceStands, Experiment!Plan, Found, Artifacts, AllRuns,
       LastItem
  <2>7. Experiment!NoRunRepeated
    BY <1>1 DEF ExperimentInv, Alone, Experiment!NoRunRepeated
  <2> QED BY <2>6, <2>7 DEF EvidenceKept
<1> QED BY <1>1, ExperimentInvariant, PTL

(* An artifact is linked under a name that is free and never written,      *)
(* renamed or removed again, whoever has the lock (writeImmutableJson).    *)
THEOREM ArtifactsAlwaysStand == HostSpec => ArtifactsStand
<1> DEFINE Stands == \A item \in DOMAIN files : item \in DOMAIN files' /\ files'[item] = files[item]
<1>1. ASSUME [HostNext]_hostVars PROVE [Stands]_(Experiment!vars)
  <2>1. CASE UNCHANGED files
    BY <2>1
  <2>2. ASSUME NEW c \in Commands, Experiment!Link(c) PROVE Stands
    BY <2>2 DEF Experiment!Link, Experiment!Named
  <2>3. CASE Experiment!Next
    <3>1. ASSUME NEW c \in Commands, NEW x \in Completions, Experiment!Ask(c, x) \/ Experiment!AskAndExit(c, x)
          PROVE  UNCHANGED files
      BY <3>1 DEF Experiment!Ask, Experiment!AskAndExit, Experiment!Disk
    <3>2. ASSUME NEW c \in Commands, Experiment!Step(c) PROVE UNCHANGED files \/ Experiment!Link(c)
      BY <3>1, <3>2 DEF Experiment!Step, Experiment!LoadFails, Experiment!Lock, Experiment!Own,
         Experiment!Look, Experiment!Stage, Experiment!Tidy, Experiment!CountTokens, Experiment!Resume,
         Experiment!Report, Experiment!Check, Experiment!Unlock, Experiment!WorkEnds, Experiment!Stop,
         Experiment!Disk
    <3> QED BY <2>1, <2>2, <2>3, <3>2 DEF Experiment!Next, Experiment!HolderKilled, Experiment!ServerExits,
           Experiment!Reaped, Experiment!Crash, Experiment!Start, Experiment!Disk
  <2>4. UNCHANGED experimentVars => UNCHANGED files
    BY DEF experimentVars
  <2> QED BY <1>1, <2>1, <2>3, <2>4 DEF HostNext, hostVars
<1> QED BY <1>1, PTL DEF HostSpec, ArtifactsStand, Experiment!ArtifactsStand
=============================================================================
