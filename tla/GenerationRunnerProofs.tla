----------------------- MODULE GenerationRunnerProofs ------------------------
(***************************************************************************)
(* Proofs about GenerationRunner, for any number of jobs and web requests, *)
(* with any number of crashes, lost saves and failed releases; and about   *)
(* ProofHarness, which drives it, for any number of segments and faults.   *)
(***************************************************************************)
EXTENDS ProofHarness, TLAPS, SequenceTheorems, FiniteSetTheorems

\* What the code's values are: job IDs, a bounded list of jobs, a number of faults
RunnerAssumption == NoJob \notin Jobs /\ IsFiniteSet(Jobs) /\ MaxFaults \in Nat

Entries == [job : Jobs, kind : Kinds, recover : BOOLEAN]

-----------------------------------------------------------------------------
(* Chains                                                                  *)

(* A chain in which every job occurs once is no longer than there are jobs.*)
LEMMA ChainBounded ==
  ASSUME IsFiniteSet(Jobs), NEW s \in Seq(Entries),
         \A i, k \in DOMAIN s : s[i].job = s[k].job => i = k
  PROVE  Len(s) <= Cardinality(Jobs)
<1> DEFINE f == [i \in 1..Len(s) |-> s[i].job]
<1>1. Len(s) \in Nat /\ DOMAIN s = 1..Len(s) /\ \A i \in 1..Len(s) : s[i] \in Entries
  BY LenProperties, ElementOfSeq
<1>2. f \in [1..Len(s) -> Jobs]
  BY <1>1 DEF Entries
<1>3. f \in Injection(1..Len(s), Jobs)
  BY <1>1, <1>2 DEF Injection, IsInjective
<1>4. IsFiniteSet(1..Len(s)) /\ Cardinality(1..Len(s)) = Len(s)
  BY <1>1, FS_Interval
<1> HIDE DEF f
<1>5. Cardinality(1..Len(s)) <= Cardinality(Jobs)
  BY <1>3, FS_Injection
<1> QED
  BY <1>4, <1>5

(* Every entry is about a job.                                             *)
LEMMA ChainJobs ==
  ASSUME NEW s \in Seq(Entries)
  PROVE  \A i \in DOMAIN s : s[i].job \in Jobs
<1>1. \A i \in DOMAIN s : s[i] \in Entries
  BY ElementOfSeq, LenProperties
<1> QED
  BY <1>1 DEF Entries

(* An entry that is added comes last, and moves no other.                  *)
LEMMA ChainAppended ==
  ASSUME NEW s \in Seq(Entries), NEW e \in Entries, NEW t, t = Append(s, e)
  PROVE  /\ t \in Seq(Entries)
         /\ Len(s) \in Nat /\ Len(t) = Len(s) + 1
         /\ DOMAIN s = 1..Len(s) /\ DOMAIN t = 1..Len(s) + 1
         /\ \A i \in DOMAIN s : t[i] = s[i]
         /\ t[Len(s) + 1] = e
  BY AppendProperties, LenProperties

(* Of a chain whose first entry is taken the others move up.               *)
LEMMA ChainTaken ==
  ASSUME NEW s \in Seq(Entries), s # <<>>, NEW t, t = Tail(s)
  PROVE  /\ t \in Seq(Entries) /\ Head(s) \in Entries /\ Head(s) = s[1]
         /\ Len(s) \in Nat \ {0} /\ Len(t) = Len(s) - 1
         /\ DOMAIN s = 1..Len(s) /\ DOMAIN t = 1..Len(s) - 1
         /\ \A i \in DOMAIN t : t[i] = s[i + 1]
<1>1. Len(s) \in Nat \ {0} /\ DOMAIN s = 1..Len(s)
  BY EmptySeq, LenProperties
<1>2. t \in Seq(Entries) /\ Head(s) \in Entries /\ Len(t) = Len(s) - 1
  BY HeadTailProperties
<1>3. \A i \in 1..Len(t) : t[i] = s[i + 1]
  BY HeadTailProperties
<1>4. DOMAIN t = 1..Len(t)
  BY <1>2, LenProperties
<1>5. Head(s) = s[1]
  OBVIOUS
<1> QED
  BY <1>1, <1>2, <1>3, <1>4, <1>5

-----------------------------------------------------------------------------
(* The inductive invariant                                                 *)

\* Its parts, in the order in which they are proved
Parts ==
  /\ TypeOK /\ ActiveIsTruthful /\ ClosedAtRest
  /\ Asking /\ Operating /\ OncePerJob /\ RowsOwned

(* A running row that is owned or lost is all that RowsRest asks for.      *)
LEMMA PartsMake == Parts <=> RunnerInv
  BY DEF Parts, RunnerInv, RestIsTruthful, RowsRest, RowsOwned

(* Before anything was asked for there is nothing to be wrong about.       *)
LEMMA InvInit == ASSUME RunnerAssumption PROVE Init => Parts
<1> SUFFICES ASSUME Init PROVE Parts
  OBVIOUS
<1> USE RunnerAssumption DEF RunnerAssumption, Init, Untouched
<1>1. /\ chain = <<>> /\ chain \in Seq(Entries) /\ Len(chain) = 0 /\ DOMAIN chain = {}
  BY EmptySeq, LenProperties
<1>2. Cardinality(Jobs) \in Nat
  BY FS_CardinalityType
<1>3. TypeOK
  BY <1>1, <1>2 DEF TypeOK, States, Kinds, Quiet, Entries
<1>4. ActiveIsTruthful
  BY <1>1 DEF ActiveIsTruthful, Quiet
<1>5. ClosedAtRest /\ OncePerJob /\ RowsOwned
  BY <1>1 DEF ClosedAtRest, DatabaseOpen, OncePerJob, RowsOwned
<1>6. Asking /\ Operating
  BY DEF Asking, Operating, NoRequest, Quiet, Kinds
<1> QED
  BY <1>3, <1>4, <1>5, <1>6 DEF Parts

(* A step that touches neither the chain nor an operation nor a row.       *)
LEMMA QueueKept ==
  ASSUME Parts, UNCHANGED <<rows, Queue, faults, lost, stop, models>>, Asking'
  PROVE  Parts'
  BY DEF Parts, TypeOK, ActiveIsTruthful, ClosedAtRest, Operating, OncePerJob, RowsOwned, Queue,
         Stopping, DatabaseOpen, Idle

(* What a request asks for is about a job.                                 *)
LEMMA AskedKeeps ==
  ASSUME Parts, NEW c \in Clients, NEW j \in Jobs, NEW k \in Kinds, NEW b \in BOOLEAN,
         Asked(c, j, k, b, "start")
  PROVE  Asking'
  BY DEF Parts, Asking, Asked

(* A request and its admission keep the invariant: what is admitted is     *)
(* neither waiting nor running.                                            *)
LEMMA ServeKeeps ==
  ASSUME RunnerAssumption, Parts, NEW c \in Clients, Serve(c)
  PROVE  Parts'
<1>1. CASE \E j \in Jobs : StartGeneration(c, j) \/ ResumeGeneration(c, j) \/ RenderApprovedScript(c, j)
  <2>1. PICK j \in Jobs :
          StartGeneration(c, j) \/ ResumeGeneration(c, j) \/ RenderApprovedScript(c, j)
    BY <1>1
  <2>2. \E k \in Kinds, b \in BOOLEAN : Asked(c, j, k, b, "start")
    <3>1. rows[j].stage \in Kinds
      BY DEF Parts, TypeOK
    <3> QED
      BY <2>1, <3>1 DEF StartGeneration, ResumeGeneration, RenderApprovedScript, Kinds
  <2>3. Asking'
    BY <2>2, AskedKeeps
  <2>4. UNCHANGED <<rows, Queue, faults, lost, stop, models>>
    BY <2>1 DEF StartGeneration, ResumeGeneration, RenderApprovedScript, Process
  <2> QED
    BY <2>3, <2>4, QueueKept
<1>2. CASE Enqueue(c)
  <2>1. /\ request[c] \in [pc : {"idle", "start"}, job : Jobs \cup {NoJob}, kind : Kinds,
                           recover : BOOLEAN]
        /\ request[c].job \in Jobs
    BY <1>2 DEF Enqueue, Parts, Asking
  <2>2. Asking'
    BY <1>2 DEF Enqueue, Ends, Parts, Asking, NoRequest, Kinds
  <2>3. UNCHANGED <<rows, running, stop, models, faults, lost>>
    BY <1>2 DEF Enqueue, Process
  <2>4. CASE Stopping \/ status[request[c].job] # "idle"
    <3>1. UNCHANGED <<chain, status>>
      BY <1>2, <2>4 DEF Enqueue
    <3> QED
      BY <2>2, <2>3, <3>1, QueueKept DEF Queue
  <2>5. CASE ~Stopping /\ status[request[c].job] = "idle"
    <3> DEFINE j == request[c].job
               e == [job |-> j, kind |-> request[c].kind, recover |-> request[c].recover]
    <3>1. chain' = Append(chain, e) /\ status' = [status EXCEPT ![j] = "queued"]
      BY <1>2, <2>5 DEF Enqueue
    <3>2. e \in Entries /\ e.job = j /\ j \in Jobs
      BY <2>1 DEF Entries
    <3>3. chain \in Seq(Entries) /\ status \in [Jobs -> {"idle", "queued", "running"}]
      BY DEF Parts, TypeOK, Entries
    <3>4. running.job # j /\ \A i \in DOMAIN chain : chain[i].job # j
      BY <2>5, <3>2 DEF Parts, ActiveIsTruthful
    <3> HIDE DEF e, j
    <3>5. /\ chain' \in Seq(Entries)
          /\ Len(chain) \in Nat /\ DOMAIN chain = 1..Len(chain) /\ DOMAIN chain' = 1..Len(chain) + 1
          /\ \A i \in DOMAIN chain : chain'[i] = chain[i]
          /\ chain'[Len(chain) + 1] = e
      BY <3>1, <3>2, <3>3, ChainAppended
    <3>6. \A i \in DOMAIN chain' : i \in DOMAIN chain \/ i = Len(chain) + 1
      BY <3>5
    <3>7. OncePerJob'
      BY <2>3, <3>2, <3>4, <3>5, <3>6 DEF Parts, OncePerJob
    <3>8. Len(chain') <= Cardinality(Jobs)
      BY <3>5, <3>7, ChainBounded DEF OncePerJob, RunnerAssumption
    <3>9. TypeOK'
      BY <2>3, <3>1, <3>2, <3>3, <3>5, <3>8 DEF Parts, TypeOK, Entries
    <3>10. ActiveIsTruthful'
      <4> SUFFICES ASSUME NEW k \in Jobs
                   PROVE  status'[k] = (IF running'.job = k THEN "running"
                            ELSE IF ~Stopping' /\ \E i \in DOMAIN chain' : chain'[i].job = k
                                 THEN "queued" ELSE "idle")
        BY DEF ActiveIsTruthful
      <4>1. Stopping' = Stopping
        BY <2>3 DEF Stopping
      <4>2. (\E i \in DOMAIN chain' : chain'[i].job = k)
               <=> k = j \/ \E i \in DOMAIN chain : chain[i].job = k
        BY <3>2, <3>5, <3>6
      <4>3. CASE k = j
        BY <2>3, <2>5, <3>1, <3>3, <3>4, <4>1, <4>2, <4>3
      <4>4. CASE k # j
        BY <2>3, <3>1, <3>3, <4>1, <4>2, <4>4 DEF Parts, ActiveIsTruthful
      <4> QED
        BY <4>3, <4>4
    <3>11. ClosedAtRest' /\ Operating' /\ RowsOwned'
      BY <2>3, <2>5 DEF Parts, ClosedAtRest, DatabaseOpen, Stopping, Operating, RowsOwned
    <3> QED
      BY <2>2, <3>7, <3>9, <3>10, <3>11 DEF Parts
  <2> QED
    BY <2>4, <2>5
<1> QED
  BY <1>1, <1>2 DEF Serve

(* Taking an entry off the chain keeps the invariant: the job that waited  *)
(* there is the one that runs, unless a stop had dropped it.               *)
LEMMA BeginKeeps ==
  ASSUME RunnerAssumption, Parts, Begin
  PROVE  Parts'
<1> DEFINE e == Head(chain)
<1>1. /\ chain # <<>> /\ running = Quiet /\ chain' = Tail(chain)
      /\ UNCHANGED <<rows, request, stop, models, faults, lost>>
  BY DEF Begin, Process
<1>2. chain \in Seq(Entries) /\ status \in [Jobs -> {"idle", "queued", "running"}]
  BY DEF Parts, TypeOK, Entries
<1>3. /\ chain' \in Seq(Entries) /\ e \in Entries /\ e = chain[1]
      /\ Len(chain) \in Nat \ {0} /\ Len(chain') = Len(chain) - 1
      /\ DOMAIN chain = 1..Len(chain) /\ DOMAIN chain' = 1..Len(chain) - 1
      /\ \A i \in DOMAIN chain' : chain'[i] = chain[i + 1]
  BY <1>1, <1>2, ChainTaken
<1>4. IF Stopping /\ status[e.job] = "idle" THEN UNCHANGED <<status, running>>
      ELSE /\ status' = [status EXCEPT ![e.job] = "running"]
           /\ running' = [job |-> e.job, kind |-> e.kind, recover |-> e.recover, pc |-> "gate"]
  BY DEF Begin
<1> HIDE DEF e
<1>5. /\ e.job \in Jobs /\ e.kind \in Kinds /\ e.recover \in BOOLEAN /\ e.job # NoJob
      /\ running.job = NoJob /\ running.job \notin Jobs
  BY <1>1, <1>3 DEF Entries, RunnerAssumption, Quiet
<1>6. /\ \A i \in DOMAIN chain' : i + 1 \in DOMAIN chain /\ chain'[i].job # e.job
      /\ \A i \in DOMAIN chain : i = 1 \/ (i - 1 \in DOMAIN chain' /\ chain'[i - 1] = chain[i])
      /\ \A i, k \in DOMAIN chain' : chain'[i].job = chain'[k].job => i = k
  <2>1. \A i \in DOMAIN chain' : i + 1 \in DOMAIN chain /\ i + 1 # 1
    BY <1>3
  <2>2. 1 \in DOMAIN chain
    BY <1>3
  <2>3. \A i, k \in DOMAIN chain : chain[i].job = chain[k].job => i = k
    BY DEF Parts, OncePerJob
  <2>4. \A i \in DOMAIN chain' : chain'[i].job # e.job
    BY <1>3, <2>1, <2>2, <2>3
  <2>5. \A i, k \in DOMAIN chain' : chain'[i].job = chain'[k].job => i + 1 = k + 1
    BY <1>3, <2>1, <2>3
  <2>6. \A i, k \in DOMAIN chain' : i + 1 = k + 1 => i = k
    BY <1>3
  <2>7. \A i \in DOMAIN chain : i = 1 \/ (i - 1 \in DOMAIN chain' /\ chain'[i - 1] = chain[i])
    <3> SUFFICES ASSUME NEW i \in DOMAIN chain, i # 1
                 PROVE  i - 1 \in DOMAIN chain' /\ chain'[i - 1] = chain[i]
      OBVIOUS
    <3>1. i - 1 \in DOMAIN chain' /\ (i - 1) + 1 = i
      BY <1>3
    <3> QED
      BY <1>3, <3>1
  <2> QED
    BY <2>1, <2>4, <2>5, <2>6, <2>7
<1>7. /\ running' \in [job : Jobs \cup {NoJob}, kind : Kinds, recover : BOOLEAN,
                       pc : {"idle", "gate", "work", "over"}]
      /\ running'.job \in {NoJob, e.job}
      /\ running'.pc \in {"idle", "gate"}
      /\ running'.job = NoJob <=> running'.pc = "idle"
  <2>1. CASE running' = running
    BY <1>1, <1>5, <2>1 DEF Parts, Operating, Quiet
  <2>2. CASE running' = [job |-> e.job, kind |-> e.kind, recover |-> e.recover, pc |-> "gate"]
    BY <1>5, <2>2
  <2> QED
    BY <1>4, <2>1, <2>2
<1>8. Stopping' = Stopping /\ DatabaseOpen' = DatabaseOpen
  BY <1>1 DEF Stopping, DatabaseOpen
<1>9. TypeOK'
  <2>1. status' \in [Jobs -> {"idle", "queued", "running"}]
    BY <1>2, <1>4
  <2>2. Cardinality(Jobs) \in Nat /\ Len(chain) <= Cardinality(Jobs)
    BY FS_CardinalityType DEF RunnerAssumption, Parts, TypeOK
  <2>3. Len(chain') <= Cardinality(Jobs)
    BY <1>3, <2>2
  <2> QED
    BY <1>1, <1>3, <1>7, <2>1, <2>3 DEF Parts, TypeOK, Entries
<1>10. OncePerJob'
  <2>1. \A i \in DOMAIN chain' : chain'[i].job \in Jobs
    BY <1>3, ChainJobs
  <2> QED
    BY <1>6, <1>7, <2>1 DEF OncePerJob, RunnerAssumption
<1>11. ActiveIsTruthful'
  <2> SUFFICES ASSUME NEW k \in Jobs
               PROVE  status'[k] = (IF running'.job = k THEN "running"
                        ELSE IF ~Stopping' /\ \E i \in DOMAIN chain' : chain'[i].job = k
                             THEN "queued" ELSE "idle")
    BY DEF ActiveIsTruthful
  <2>1. status[k] = IF ~Stopping /\ \E i \in DOMAIN chain : chain[i].job = k THEN "queued" ELSE "idle"
    BY <1>5 DEF Parts, ActiveIsTruthful
  <2>2. k # e.job =>
          ((\E i \in DOMAIN chain' : chain'[i].job = k) <=> \E i \in DOMAIN chain : chain[i].job = k)
    <3>1. ASSUME k # e.job, NEW i \in DOMAIN chain, chain[i].job = k
          PROVE  \E n \in DOMAIN chain' : chain'[n].job = k
      BY <1>3, <1>6, <3>1
    <3>2. ASSUME NEW i \in DOMAIN chain', chain'[i].job = k
          PROVE  \E n \in DOMAIN chain : chain[n].job = k
      BY <1>3, <1>6, <3>2
    <3> QED
      BY <3>1, <3>2
  <2>3. CASE Stopping /\ status[e.job] = "idle"
    BY <1>4, <1>5, <1>8, <2>1, <2>3
  <2>4. CASE ~(Stopping /\ status[e.job] = "idle")
    <3>1. running'.job = e.job /\ status' = [status EXCEPT ![e.job] = "running"]
      BY <1>4, <2>4
    <3>2. ~Stopping
      BY <1>5, <2>4 DEF Parts, ActiveIsTruthful
    <3> QED
      BY <1>2, <1>5, <1>8, <2>1, <2>2, <3>1, <3>2
  <2> QED
    BY <2>3, <2>4
<1>12. ClosedAtRest'
  BY <1>1, <1>8 DEF Parts, ClosedAtRest, Idle
<1>13. RowsOwned'
  BY <1>1, <1>5 DEF Parts, RowsOwned
<1>14. Asking'
  BY <1>1 DEF Parts, Asking
<1> QED
  BY <1>7, <1>9, <1>10, <1>11, <1>12, <1>13, <1>14 DEF Parts, Operating

(* While an operation is under way, the job it is for is the one that is   *)
(* active, it waits nowhere else, and the database is open.                *)
LEMMA UnderWay ==
  ASSUME RunnerAssumption, Parts, running.pc # "idle"
  PROVE  /\ running.job \in Jobs /\ running.job # NoJob
         /\ running.kind \in Kinds
         /\ DatabaseOpen
         /\ \A i \in DOMAIN chain : chain[i].job # running.job
  BY DEF RunnerAssumption, Parts, Operating, OncePerJob, ClosedAtRest, Idle, Quiet

(* An operation that ends leaves its job inactive.                         *)
LEMMA FinishKeeps ==
  ASSUME RunnerAssumption, Parts, running.pc \in {"gate", "over"}, Finishes,
         UNCHANGED <<rows, chain, request, stop, models, faults, lost>>
  PROVE  Parts'
<1>1. /\ running.job \in Jobs /\ DatabaseOpen
      /\ \A i \in DOMAIN chain : chain[i].job # running.job
  BY UnderWay
<1>2. /\ running' = Quiet /\ status' = [status EXCEPT ![running.job] = "idle"]
      /\ status \in [Jobs -> {"idle", "queued", "running"}]
  BY DEF Finishes, Parts, TypeOK
<1>3. Quiet.job = NoJob /\ Quiet.pc = "idle" /\ Quiet.job \notin Jobs
  BY DEF Quiet, RunnerAssumption
<1>4. TypeOK'
  BY <1>1, <1>2, <1>3 DEF Parts, TypeOK
<1>5. ActiveIsTruthful'
  <2> SUFFICES ASSUME NEW k \in Jobs
               PROVE  status'[k] = (IF running'.job = k THEN "running"
                        ELSE IF ~Stopping' /\ \E i \in DOMAIN chain' : chain'[i].job = k
                             THEN "queued" ELSE "idle")
    BY DEF ActiveIsTruthful
  <2>1. Stopping' = Stopping /\ chain' = chain
    BY DEF Stopping
  <2>2. status[k] = (IF running.job = k THEN "running"
                     ELSE IF ~Stopping /\ \E i \in DOMAIN chain : chain[i].job = k THEN "queued"
                     ELSE "idle")
    BY DEF Parts, ActiveIsTruthful
  <2>3. CASE k = running.job
    BY <1>1, <1>2, <1>3, <2>1, <2>3
  <2>4. CASE k # running.job
    BY <1>1, <1>2, <1>3, <2>1, <2>2, <2>4
  <2> QED
    BY <2>3, <2>4
<1>6. ClosedAtRest'
  BY <1>1 DEF ClosedAtRest, DatabaseOpen
<1>7. Asking'
  BY DEF Parts, Asking
<1>8. Operating'
  BY <1>2, <1>3 DEF Operating, Quiet, Kinds
<1>9. OncePerJob'
  <2>1. \A i \in DOMAIN chain : chain[i].job # NoJob
    <3>1. chain \in Seq(Entries)
      BY DEF Parts, TypeOK, Entries
    <3> QED
      BY <3>1, ChainJobs DEF RunnerAssumption
  <2> QED
    BY <1>2, <1>3, <2>1 DEF Parts, OncePerJob
<1>10. RowsOwned'
  BY DEF Parts, RowsOwned
<1> QED
  BY <1>4, <1>5, <1>6, <1>7, <1>8, <1>9, <1>10 DEF Parts

(* An operation that goes on, with its row at rest, running while it works,*)
(* or lost, keeps the invariant.                                           *)
LEMMA GoesOnKeeps ==
  ASSUME RunnerAssumption, Parts, running.pc # "idle",
         NEW pc \in {"gate", "work", "over"}, running' = [running EXCEPT !.pc = pc],
         UNCHANGED <<chain, status, request, stop, models>>,
         rows' \in [Jobs -> [state : States, stage : Kinds]],
         \A j \in Jobs : j # running.job => rows'[j] = rows[j],
         \A j \in lost \ {running.job} : j \in lost', lost' \subseteq lost \cup {running.job},
         rows'[running.job].state = "running" => pc = "work" \/ running.job \in lost',
         faults' \in 0..MaxFaults
  PROVE  Parts'
<1>1. running.job \in Jobs /\ DatabaseOpen
  BY UnderWay
<1>2. /\ running'.job = running.job /\ running'.pc = pc
      /\ running' \in [job : Jobs \cup {NoJob}, kind : Kinds, recover : BOOLEAN,
                       pc : {"idle", "gate", "work", "over"}]
  BY DEF Parts, Operating
<1>3. TypeOK'
  BY <1>1, <1>2 DEF Parts, TypeOK
<1>4. ActiveIsTruthful' /\ OncePerJob'
  BY <1>2 DEF Parts, ActiveIsTruthful, OncePerJob, Stopping
<1>5. ClosedAtRest'
  BY <1>1 DEF ClosedAtRest, DatabaseOpen
<1>6. Operating'
  BY <1>1, <1>2 DEF Operating, RunnerAssumption
<1>7. RowsOwned'
  BY <1>1, <1>2 DEF Parts, RowsOwned
<1>8. Asking'
  BY DEF Parts, Asking
<1> QED
  BY <1>3, <1>4, <1>5, <1>6, <1>7, <1>8 DEF Parts

(* What the chain does with its operation keeps the invariant.             *)
LEMMA OperationKeeps ==
  ASSUME RunnerAssumption, Parts, Gate \/ Work \/ SaveLost \/ Finish
  PROVE  Parts'
<1>1. rows \in [Jobs -> [state : States, stage : Kinds]] /\ faults \in 0..MaxFaults
  BY DEF Parts, TypeOK
<1>2. ASSUME running.pc # "idle", NEW state \in States, NEW stage \in Kinds, Saves(state, stage)
      PROVE  /\ rows' \in [Jobs -> [state : States, stage : Kinds]]
             /\ \A j \in Jobs : j # running.job => rows'[j] = rows[j]
             /\ rows'[running.job].state = state
             /\ \A j \in lost \ {running.job} : j \in lost'
             /\ lost' \subseteq lost \cup {running.job}
  <2>1. running.job \in Jobs
    BY <1>2, UnderWay
  <2>2. [state |-> state, stage |-> stage] \in [state : States, stage : Kinds]
    BY <1>2
  <2>3. rows' = [rows EXCEPT ![running.job] = [state |-> state, stage |-> stage]]
    BY <1>2 DEF Saves
  <2>4. lost' = lost \/ lost' = lost \ {running.job}
    BY <1>2 DEF Saves, Unowned
  <2> QED
    BY <1>1, <2>1, <2>2, <2>3, <2>4
<1>3. /\ running = [running EXCEPT !.pc = running.pc]
      /\ running.kind \in Kinds /\ running.pc \in {"idle", "gate", "work", "over"}
  BY DEF Parts, Operating
<1>4. CASE Gate
  <2>1. running.pc = "gate" /\ UNCHANGED <<chain, request, stop, models, faults>>
    BY <1>4 DEF Gate, RunningAt, Process
  <2>2. CASE /\ Claimable /\ Saves("running", running.kind)
             /\ running' = [running EXCEPT !.pc = "work"] /\ UNCHANGED status
    BY <1>1, <1>2, <1>3, <2>1, <2>2, GoesOnKeeps DEF States
  <2>3. CASE Recovers /\ Saves("abandoned", rows[running.job].stage) /\ UNCHANGED <<running, status>>
    <3>1. rows[running.job].stage \in Kinds
      BY <1>1, <2>1, UnderWay
    <3>2. running' = [running EXCEPT !.pc = "gate"]
      BY <1>3, <2>1, <2>3
    <3> QED
      BY <1>1, <1>2, <2>1, <2>3, <3>1, <3>2, GoesOnKeeps DEF States
  <2>4. CASE Finishes /\ UNCHANGED <<rows, lost>>
    BY <2>1, <2>4, FinishKeeps
  <2> QED
    BY <1>4, <2>2, <2>3, <2>4 DEF Gate
<1>5. CASE Work
  <2>1. /\ running.pc = "work" /\ running' = [running EXCEPT !.pc = "over"]
        /\ UNCHANGED <<chain, status, request, stop, models, faults>>
    BY <1>5 DEF Work, RunningAt, Process
  <2>2. \E state \in States \ {"running"} : Saves(state, running.kind)
    BY <1>5 DEF Work, States
  <2> QED
    BY <1>1, <1>2, <1>3, <2>1, <2>2, GoesOnKeeps
<1>6. CASE SaveLost
  <2>1. /\ running.pc \in {"gate", "work"} /\ running' = [running EXCEPT !.pc = "over"]
        /\ UNCHANGED <<rows, chain, status, request, stop, models>>
        /\ faults' \in 0..MaxFaults
        /\ lost' = IF running.pc = "work" THEN lost \cup {running.job} ELSE lost
    BY <1>1, <1>6 DEF SaveLost, Fault, RunningAt, Process, RunnerAssumption
  <2>2. rows'[running.job].state = "running" => running.job \in lost'
    <3>1. running.job \in Jobs
      BY <2>1, UnderWay
    <3> QED
      BY <2>1, <3>1 DEF Parts, RowsOwned
  <2> QED
    BY <1>1, <2>1, <2>2, GoesOnKeeps
<1>7. CASE Finish
  BY <1>7, FinishKeeps DEF Finish, RunningAt, Process
<1> QED
  BY <1>4, <1>5, <1>6, <1>7

(* Stopping keeps the invariant: what waited is dropped, and the database  *)
(* closes when nothing is under way.                                       *)
LEMMA StopKeeps ==
  ASSUME RunnerAssumption, Parts, Prepare \/ Drain
  PROVE  Parts'
<1>1. UNCHANGED <<rows, chain, running, request, lost>>
  BY DEF Prepare, Drain, ReleaseModels, CloseDatabase, Respond, Queue
<1>2. Asking' /\ Operating' /\ OncePerJob' /\ RowsOwned'
  BY <1>1 DEF Parts, Asking, Operating, OncePerJob, RowsOwned
<1>3. TypeOK'
  BY <1>1 DEF Prepare, Drain, ReleaseModels, CloseDatabase, Respond, Queue, Fault, Parts, TypeOK,
              RunnerAssumption
<1>4. Stopping'
  BY DEF Prepare, Drain, ReleaseModels, CloseDatabase, Respond, Stopping
<1>5. ActiveIsTruthful'
  <2>1. CASE Prepare
    <3>1. status' = [j \in Jobs |-> IF status[j] = "queued" THEN "idle" ELSE status[j]]
      BY <2>1 DEF Prepare
    <3> QED
      BY <1>1, <1>4, <3>1 DEF Parts, ActiveIsTruthful
  <2>2. CASE Drain
    BY <1>1, <1>4, <2>2 DEF Drain, ReleaseModels, CloseDatabase, Respond, Queue, Parts,
                            ActiveIsTruthful, Stopping
  <2> QED
    BY <2>1, <2>2
<1>6. ClosedAtRest'
  <2>1. CASE Prepare \/ ReleaseModels
    BY <2>1 DEF Prepare, ReleaseModels, ClosedAtRest, DatabaseOpen
  <2>2. CASE CloseDatabase
    BY <1>1, <2>2 DEF CloseDatabase, ClosedAtRest, Idle, Quiet, Parts, RowsOwned, RunnerAssumption
  <2>3. CASE Respond
    BY <1>1, <2>3 DEF Respond, Parts, ClosedAtRest, DatabaseOpen, Idle
  <2> QED
    BY <2>1, <2>2, <2>3 DEF Drain
<1> QED
  BY <1>2, <1>3, <1>5, <1>6 DEF Parts

(* A process that dies, and one that is started, have nothing under way;   *)
(* what ran when it died is lost.                                          *)
LEMMA RenewKeeps ==
  ASSUME RunnerAssumption, Parts, Restart \/ Crash
  PROVE  Parts'
<1>1. /\ chain' = <<>> /\ status' = [j \in Jobs |-> "idle"] /\ running' = Quiet
      /\ request' = [c \in Clients |-> NoRequest] /\ models' = "owned" /\ rows' = rows
      /\ stop' \in {"no", "exited"}
  BY DEF Restart, Crash, Fresh
<1>2. <<>> \in Seq(Entries) /\ Len(<<>>) = 0 /\ DOMAIN <<>> = {}
  BY EmptySeq, LenProperties
<1>3. Quiet.job = NoJob /\ Quiet.pc = "idle" /\ \A j \in Jobs : Quiet.job # j
  BY DEF Quiet, RunnerAssumption
<1>4. lost' \in SUBSET Jobs /\ faults' \in 0..MaxFaults
  BY DEF Restart, Crash, Fault, Parts, TypeOK, RunnerAssumption
<1>5. \A j \in Jobs : rows[j].state = "running" => j \in lost'
  <2>1. CASE Crash
    BY <2>1 DEF Crash
  <2>2. CASE Restart
    BY <2>2 DEF Restart, Parts, ClosedAtRest, DatabaseOpen
  <2> QED
    BY <2>1, <2>2
<1>6. TypeOK'
  <2>1. Cardinality(Jobs) \in Nat
    BY FS_CardinalityType DEF RunnerAssumption
  <2> QED
    BY <1>1, <1>2, <1>3, <1>4, <2>1 DEF Parts, TypeOK, Entries
<1>7. ActiveIsTruthful'
  BY <1>1, <1>2, <1>3 DEF ActiveIsTruthful
<1>8. ClosedAtRest'
  BY <1>1, <1>5 DEF ClosedAtRest, Idle
<1>9. Asking'
  BY <1>1 DEF Asking, NoRequest, Kinds
<1>10. Operating'
  BY <1>1, <1>3 DEF Operating, Quiet, Kinds
<1>11. OncePerJob'
  BY <1>1, <1>2 DEF OncePerJob
<1>12. RowsOwned'
  BY <1>1, <1>5 DEF RowsOwned
<1> QED
  BY <1>6, <1>7, <1>8, <1>9, <1>10, <1>11, <1>12 DEF Parts

(* Every step keeps the invariant.                                         *)
LEMMA InvNext == ASSUME RunnerAssumption PROVE Parts /\ [Next]_vars => Parts'
<1> SUFFICES ASSUME Parts, [Next]_vars PROVE Parts'
  OBVIOUS
<1>1. CASE UNCHANGED vars
  BY <1>1, QueueKept DEF vars, Queue, Parts, Asking
<1>2. CASE Next
  BY <1>2, ServeKeeps, BeginKeeps, OperationKeeps, StopKeeps, RenewKeeps DEF Next, Execute
<1> QED
  BY <1>1, <1>2

(* The invariant holds throughout.                                         *)
LEMMA InvAlways == ASSUME RunnerAssumption PROVE Spec => []Parts
  BY InvInit, InvNext, PTL DEF Spec

-----------------------------------------------------------------------------
(* What follows                                                            *)

(* Every variable stays in its type, and the chain is never longer than    *)
(* there are jobs.                                                         *)
THEOREM TypeCorrect == ASSUME RunnerAssumption PROVE Spec => []TypeOK
<1>1. Parts => TypeOK
  BY DEF Parts
<1> QED
  BY <1>1, InvAlways, PTL

(* What isActive and the rows say of the work is true at any time, and when*)
(* the database closes: through stops, crashes, restarts and lost saves.   *)
THEOREM RestTruthful == ASSUME RunnerAssumption PROVE Spec => []RestIsTruthful
<1>1. Parts => RestIsTruthful
  BY PartsMake DEF RunnerInv
<1> QED
  BY <1>1, InvAlways, PTL

-----------------------------------------------------------------------------
(* The refinement of SerialExecutor                                        *)

(* The jobs of a chain are a sequence of jobs, as long as the chain.       *)
LEMMA JobsOfChain ==
  ASSUME NEW s \in Seq(Entries)
  PROVE  /\ JobsOf(s) \in Seq(Jobs) /\ Len(JobsOf(s)) = Len(s)
         /\ DOMAIN s = 1..Len(s) /\ DOMAIN JobsOf(s) = 1..Len(s) /\ Len(s) \in Nat
         /\ \A i \in 1..Len(s) : JobsOf(s)[i] = s[i].job
<1>1. Len(s) \in Nat /\ DOMAIN s = 1..Len(s)
  BY LenProperties
<1>2. JobsOf(s) \in [1..Len(s) -> Jobs]
  BY <1>1, ChainJobs DEF JobsOf
<1>3. JobsOf(s) \in Seq(Jobs)
  BY <1>1, <1>2, SeqDef
<1>4. DOMAIN JobsOf(s) = 1..Len(s) /\ \A i \in 1..Len(s) : JobsOf(s)[i] = s[i].job
  BY <1>1 DEF JobsOf
<1>5. Len(JobsOf(s)) = Len(s)
  BY <1>1, <1>3, <1>4, LenProperties
<1> QED
  BY <1>1, <1>3, <1>4, <1>5

(* An entry that is added adds its job.                                    *)
LEMMA JobsOfAppended ==
  ASSUME NEW s \in Seq(Entries), NEW e \in Entries
  PROVE  JobsOf(Append(s, e)) = Append(JobsOf(s), e.job)
<1> DEFINE t == Append(s, e)
           u == Append(JobsOf(s), e.job)
<1>1. e.job \in Jobs
  BY DEF Entries
<1>2. /\ t \in Seq(Entries) /\ Len(s) \in Nat /\ Len(t) = Len(s) + 1
      /\ DOMAIN s = 1..Len(s) /\ \A i \in DOMAIN s : t[i] = s[i]
      /\ t[Len(s) + 1] = e
  BY ChainAppended
<1>3. /\ JobsOf(s) \in Seq(Jobs) /\ Len(JobsOf(s)) = Len(s)
      /\ \A i \in 1..Len(s) : JobsOf(s)[i] = s[i].job
  BY JobsOfChain
<1>4. /\ u \in Seq(Jobs) /\ Len(u) = Len(s) + 1
      /\ \A i \in 1..Len(s) : u[i] = s[i].job
      /\ u[Len(s) + 1] = e.job
  BY <1>1, <1>3, AppendProperties
<1> HIDE DEF t, u
<1>5. /\ JobsOf(t) \in Seq(Jobs) /\ Len(JobsOf(t)) = Len(s) + 1
      /\ \A i \in 1..Len(s) + 1 : JobsOf(t)[i] = t[i].job
  BY <1>2, JobsOfChain
<1>6. \A i \in 1..Len(s) + 1 : JobsOf(t)[i] = u[i]
  <2> SUFFICES ASSUME NEW i \in 1..Len(s) + 1 PROVE t[i].job = u[i]
    BY <1>5
  <2>1. i \in 1..Len(s) \/ i = Len(s) + 1
    BY <1>2
  <2> QED
    BY <1>2, <1>4, <2>1
<1>7. JobsOf(t) = u
  BY <1>4, <1>5, <1>6, SeqEqual
<1> QED
  BY <1>7 DEF t, u

(* The first entry taken takes its job.                                    *)
LEMMA JobsOfTaken ==
  ASSUME NEW s \in Seq(Entries), s # <<>>
  PROVE  /\ JobsOf(s) # <<>> /\ Head(JobsOf(s)) = Head(s).job
         /\ JobsOf(Tail(s)) = Tail(JobsOf(s))
<1> DEFINE t == Tail(s)
           j == JobsOf(s)
<1>1. /\ t \in Seq(Entries) /\ Head(s) = s[1] /\ Len(s) \in Nat \ {0} /\ Len(t) = Len(s) - 1
      /\ DOMAIN t = 1..Len(s) - 1 /\ \A i \in DOMAIN t : t[i] = s[i + 1]
  BY ChainTaken
<1>2. j \in Seq(Jobs) /\ Len(j) = Len(s) /\ \A i \in 1..Len(s) : j[i] = s[i].job
  BY JobsOfChain
<1>3. j # <<>>
  BY <1>1, <1>2, EmptySeq
<1>4. Head(j) = j[1]
  OBVIOUS
<1>5. 1 \in 1..Len(s)
  BY <1>1
<1>6. Head(j) = Head(s).job
  BY <1>1, <1>2, <1>4, <1>5
<1>7. /\ Tail(j) \in Seq(Jobs) /\ Len(Tail(j)) = Len(s) - 1
      /\ \A i \in 1..Len(s) - 1 : Tail(j)[i] = j[i + 1]
  BY <1>2, <1>3, HeadTailProperties
<1> HIDE DEF t, j
<1>8. /\ JobsOf(t) \in Seq(Jobs) /\ Len(JobsOf(t)) = Len(s) - 1
      /\ \A i \in 1..Len(s) - 1 : JobsOf(t)[i] = t[i].job
  BY <1>1, JobsOfChain
<1>9. \A i \in 1..Len(s) - 1 : JobsOf(t)[i] = Tail(j)[i]
  <2> SUFFICES ASSUME NEW i \in 1..Len(s) - 1 PROVE t[i].job = j[i + 1]
    BY <1>7, <1>8
  <2>1. i \in DOMAIN t /\ i + 1 \in 1..Len(s)
    BY <1>1
  <2> QED
    BY <1>1, <1>2, <2>1
<1>10. JobsOf(t) = Tail(j)
  BY <1>7, <1>8, <1>9, SeqEqual
<1> QED
  BY <1>3, <1>6, <1>10 DEF t, j

(* Nothing waits in an empty chain.                                        *)
LEMMA JobsOfNothing == JobsOf(<<>>) = <<>>
<1>1. <<>> \in Seq(Entries) /\ Len(<<>>) = 0
  BY EmptySeq
<1>2. JobsOf(<<>>) \in Seq(Jobs) /\ Len(JobsOf(<<>>)) = 0
  BY <1>1, JobsOfChain
<1> QED
  BY <1>2, EmptySeq

(* The promise chain with its statuses, its drops and its drains is a      *)
(* serial executor: a job is accepted while it neither waits nor runs, the *)
(* one that waited longest begins when none runs, and none after a stop.   *)
THEOREM RunnerSerial == ASSUME RunnerAssumption PROVE Spec => Serial
<1>1. Init => Executor!Init
  BY JobsOfNothing DEF Init, Untouched, Executor!Init, Waiting, Quiet, Stopping
<1>2. Parts /\ [Next]_vars => [Executor!Next]_(Executor!vars)
  <2> SUFFICES ASSUME Parts, [Next]_vars
               PROVE  Executor!Next \/ UNCHANGED <<Waiting, running.job, ~Stopping>>
    BY DEF Executor!vars
  <2> USE RunnerAssumption
  <2>1. chain \in Seq(Entries)
    BY DEF Parts, TypeOK, Entries
  <2>2. ASSUME UNCHANGED <<chain, stop>>, running'.job = running.job
        PROVE  UNCHANGED <<Waiting, running.job, ~Stopping>>
    BY <2>2 DEF Waiting, Stopping
  <2>3. CASE UNCHANGED vars
    BY <2>2, <2>3 DEF vars, Queue, Process
  <2>4. ASSUME NEW c \in Clients, NEW j \in Jobs,
               StartGeneration(c, j) \/ ResumeGeneration(c, j) \/ RenderApprovedScript(c, j)
        PROVE  UNCHANGED <<Waiting, running.job, ~Stopping>>
    BY <2>2, <2>4 DEF StartGeneration, ResumeGeneration, RenderApprovedScript, Queue, Process
  <2>5. ASSUME NEW c \in Clients, Enqueue(c)
        PROVE  Executor!Next \/ UNCHANGED <<Waiting, running.job, ~Stopping>>
    <3> DEFINE r == request[c]
               e == [job |-> r.job, kind |-> r.kind, recover |-> r.recover]
    <3>1. UNCHANGED <<running, stop>>
      BY <2>5 DEF Enqueue, Process
    <3>2. CASE Stopping \/ status[r.job] # "idle"
      BY <2>2, <2>5, <3>1, <3>2 DEF Enqueue
    <3>3. CASE ~Stopping /\ status[r.job] = "idle"
      <4>1. chain' = Append(chain, e)
        BY <2>5, <3>3 DEF Enqueue
      <4>2. r.job \in Jobs /\ e \in Entries /\ e.job = r.job
        <5>1. /\ r \in [pc : {"idle", "start"}, job : Jobs \cup {NoJob}, kind : Kinds,
                        recover : BOOLEAN]
              /\ r.job \in Jobs
          BY <2>5 DEF Enqueue, Parts, Asking
        <5> QED
          BY <5>1 DEF Entries
      <4>3. Waiting = JobsOf(chain) /\ Waiting' = Append(Waiting, r.job)
        BY <2>1, <3>1, <3>3, <4>1, <4>2, JobsOfAppended DEF Waiting, Stopping
      <4>4. r.job # running.job /\ \A i \in DOMAIN chain : chain[i].job # r.job
        BY <3>3, <4>2 DEF Parts, ActiveIsTruthful
      <4>5. r.job \notin Executor!Busy
        <5>1. /\ DOMAIN Waiting = DOMAIN chain
              /\ \A i \in DOMAIN chain : Waiting[i] = chain[i].job
          BY <4>3 DEF JobsOf
        <5> QED
          BY <4>4, <5>1 DEF Executor!Busy
      <4>6. Executor!Accept(r.job)
        BY <3>1, <3>3, <4>3, <4>5 DEF Executor!Accept, Stopping
      <4> QED
        BY <4>2, <4>6 DEF Executor!Next
    <3> QED
      BY <3>2, <3>3
  <2>6. ASSUME Begin
        PROVE  Executor!Next \/ UNCHANGED <<Waiting, running.job, ~Stopping>>
    <3>1. /\ chain # <<>> /\ chain' = Tail(chain) /\ UNCHANGED stop /\ running = Quiet
          /\ running.job = NoJob
      BY <2>6 DEF Begin, Process, Quiet
    <3>2. Head(chain).job \in Jobs
      BY <2>1, <3>1, ChainTaken DEF Entries
    <3>3. CASE Stopping
      <4>1. status[Head(chain).job] = "idle"
        BY <3>1, <3>2, <3>3 DEF Parts, ActiveIsTruthful, RunnerAssumption
      <4>2. UNCHANGED running
        BY <2>6, <3>3, <4>1 DEF Begin
      <4> QED
        BY <3>1, <3>3, <4>2 DEF Waiting, Stopping
    <3>4. CASE ~Stopping
      <4>1. running'.job = Head(chain).job
        BY <2>6, <3>4 DEF Begin
      <4>2. Waiting = JobsOf(chain) /\ Waiting' = JobsOf(Tail(chain))
        BY <3>1, <3>4 DEF Waiting, Stopping
      <4>3. Waiting # <<>> /\ running'.job = Head(Waiting) /\ Waiting' = Tail(Waiting)
        BY <2>1, <3>1, <4>1, <4>2, JobsOfTaken
      <4>4. Executor!Begin
        BY <3>1, <3>4, <4>3 DEF Executor!Begin, Stopping
      <4> QED
        BY <4>4 DEF Executor!Next
    <3> QED
      BY <3>3, <3>4
  <2>7. ASSUME Gate \/ Work \/ SaveLost \/ Finish
        PROVE  Executor!Next \/ UNCHANGED <<Waiting, running.job, ~Stopping>>
    <3>1. UNCHANGED <<chain, stop>> /\ running.pc # "idle"
      BY <2>7 DEF Gate, Work, SaveLost, Finish, RunningAt, Process
    <3>2. CASE Finishes
      <4>1. running.job # NoJob /\ running'.job = NoJob
        BY <3>1, <3>2, UnderWay DEF Finishes, Quiet
      <4>2. UNCHANGED <<Waiting, ~Stopping>>
        BY <3>1 DEF Waiting, Stopping
      <4> QED
        BY <4>1, <4>2 DEF Executor!Next, Executor!Finish
    <3>3. CASE ~Finishes
      <4>1. running' = running \/ \E pc \in {"work", "over"} : running' = [running EXCEPT !.pc = pc]
        BY <2>7, <3>3 DEF Gate, Work, SaveLost, Finish
      <4>2. running'.job = running.job
        BY <4>1 DEF Parts, Operating
      <4> QED
        BY <2>2, <3>1, <4>2
    <3> QED
      BY <3>2, <3>3
  <2>8. CASE Prepare
    <3>1. ~Stopping /\ Stopping' /\ Waiting' = <<>> /\ UNCHANGED running
      BY <2>8 DEF Prepare, Stopping, Waiting
    <3> QED
      BY <3>1 DEF Executor!Next, Executor!Close
  <2>9. CASE Drain
    <3>1. UNCHANGED <<chain, running>> /\ Stopping /\ Stopping'
      BY <2>9 DEF Drain, ReleaseModels, CloseDatabase, Respond, Queue, Stopping
    <3> QED
      BY <3>1 DEF Waiting
  <2>10. CASE Restart
    <3>1. Stopping /\ ~Stopping' /\ chain' = <<>> /\ running'.job = NoJob
      BY <2>10 DEF Restart, Fresh, Stopping, Quiet
    <3>2. Waiting' = <<>>
      BY <3>1, JobsOfNothing DEF Waiting
    <3> QED
      BY <3>1, <3>2 DEF Executor!Next, Executor!Renew
  <2>11. CASE Crash
    <3>1. Stopping' /\ running'.job = NoJob /\ Waiting' = <<>>
      BY <2>11 DEF Crash, Fresh, Stopping, Quiet, Waiting
    <3> QED
      BY <3>1 DEF Executor!Next, Executor!End
  <2> QED
    BY <2>3, <2>4, <2>5, <2>6, <2>7, <2>8, <2>9, <2>10, <2>11 DEF Next, Serve, Execute
<1> QED
  BY <1>1, <1>2, InvAlways, PTL DEF Spec, Serial, Executor!Spec

-----------------------------------------------------------------------------
(* ProofHarness: the inductive invariant                                   *)

\* Where main is, or will be when the call it waits for is answered
Place == IF At("calling") THEN harness.next ELSE harness.pc

BeforeStop ==
  {"preflight", "spawn", "start", "directing", "review", "render", "blocked", "snapshot",
   "watch", "kill", "inspect"}

AfterStop == {"resume", "resumed", "compare", "verify", "evidence", "cleanup"}

AfterKill == {"spawn", "recover", "boundary"}

Mains ==
  [pc : BeforeStop \cup AfterStop \cup AfterKill \cup {"calling", "over"},
   next : {"over", "directing", "blocked", "watch", "boundary", "resumed"},
   verdict : {"none", "red", "green", "interrupted"}]

Requests ==
  [pc : {"idle", "start"}, job : Jobs \cup {NoJob}, kind : Kinds, recover : BOOLEAN]

Evidences == [reused : SUBSET Segments, rendered : SUBSET Segments, written : BOOLEAN]

Rows == [state : States, stage : Kinds]

HarnessTyped ==
  /\ rows \in [Jobs -> Rows]
  /\ status \in [Jobs -> {"idle", "queued", "running"}]
  /\ request \in [Clients -> Requests]
  /\ mode \in {"fake", "real"} /\ fresh \in BOOLEAN
  /\ sabotage \in {"none", "truncate-segment", "delete-output"}
  /\ audio \in [Segments -> {"none", "whole", "short"}] /\ renders \in [Segments -> Nat]
  /\ stopped \subseteq Segments
  /\ harness \in Mains
  /\ At("calling") => harness.next # "over"
  /\ evidence \in Evidences
  /\ handler \in Nat /\ spawned \in Nat

\* The one job waits, runs, or neither; a dead process has none of it
QuietNow == chain = <<>> /\ running = Quiet /\ status[Job] = "idle"

Queued ==
  \E k \in Kinds, b \in BOOLEAN :
    /\ chain = <<[job |-> Job, kind |-> k, recover |-> b]>>
    /\ running = Quiet /\ status[Job] = "queued"

UnderWayNow ==
  /\ chain = <<>> /\ status[Job] = "running"
  /\ running \in [job : {Job}, kind : Kinds, recover : BOOLEAN, pc : {"gate", "work", "over"}]

OneJob ==
  /\ QuietNow \/ Queued \/ UnderWayNow
  /\ stop \in {"no", "exited"}
  /\ ~Up => QuietNow /\ request[Harness] = NoRequest
  /\ request[Harness].pc = "start" => QuietNow /\ request[Harness].job = Job

\* Whatever is asked for, waits or runs is of this kind
AllOf(kind) ==
  /\ request[Harness].pc = "start" => request[Harness].kind = kind
  /\ \A i \in DOMAIN chain : chain[i].kind = kind
  /\ running # Quiet => running.kind = kind

\* How the harness ends, and what its server and the handler know of each other
Verdicts ==
  /\ At("over") => harness.verdict # "none"
  /\ harness.verdict # "none" => harness.pc \in {"cleanup", "over"}
  /\ harness.verdict \in {"green", "interrupted"} => At("over")
  /\ fresh \/ At("preflight") \/ harness.verdict \in {"red", "interrupted"}

Reaped ==
  /\ handler <= spawned /\ (spawned = 0 => ~Up)
  /\ ServerReaped

\* A segment that had no audio at the stop is rendered at most once, and never cut
RenderedOnce ==
  \A s \in Segments \ stopped :
    \/ audio[s] = "none" /\ renders[s] = 0
    \/ audio[s] = "whole" /\ renders[s] = 1

Midway == stopped # {} /\ stopped # Segments

\* The job whose render was killed is never worked on again: what is asked for is a direction
NeverRecovered ==
  /\ rows[Job].state \in {"running", "abandoned"} /\ rows[Job].stage = "rendering"
  /\ AllOf("direction") /\ running.pc # "work"

Placed ==
  harness.verdict = "none" =>
    \/ /\ stopped = {} /\ Place \in BeforeStop
       /\ Place \in {"blocked", "snapshot"} => mode = "fake"
       /\ Place \in {"watch", "kill", "inspect"} => mode = "real" /\ AllOf("rendering")
       /\ Place \in {"kill", "inspect"} => rows[Job].stage = "rendering"
       /\ Place = "inspect" => ~Up
    \/ Midway /\ mode = "fake" /\ Place \in AfterStop
    \/ Midway /\ mode = "real" /\ Place \in AfterKill /\ NeverRecovered

\* A segment that was cut is short until it is rendered anew
CutShows ==
  harness.verdict = "none" /\ Place \in AfterStop /\ sabotage = "truncate-segment" =>
    /\ Place \in {"resume", "resumed", "compare"}
    /\ \E s \in stopped : renders[s] > 1 \/ (audio[s] = "short" /\ renders[s] = 1)

\* Main is there with no error so far, or has got to the end
Passed(places) == (harness.verdict = "none" /\ Place \in places) \/ harness.verdict = "green"

Compared ==
  Passed({"verify", "evidence", "cleanup"}) =>
    /\ Midway /\ mode = "fake" /\ sabotage # "truncate-segment"
    /\ evidence.reused = stopped /\ evidence.rendered = Segments \ stopped
    /\ Missing = {} /\ \A s \in Segments : renders[s] = 1

Verified ==
  Passed({"evidence", "cleanup"}) =>
    /\ outputs = 1 /\ sabotage # "delete-output"
    /\ chain = <<>> /\ running = Quiet
    /\ Place # "evidence" => evidence.written

HarnessInv ==
  /\ HarnessTyped /\ OneJob /\ Verdicts /\ Reaped /\ RenderedOnce
  /\ Placed /\ CutShows /\ Compared /\ Verified
\* The harness makes its requests in one of the places for them, about one of the jobs
HarnessAssumption == Harness \in Clients /\ Job \in Jobs /\ NoJob \notin Jobs

(* Before the harness starts there is nothing.                             *)
LEMMA HarnessInvInit == ASSUME HarnessAssumption PROVE HarnessInit => HarnessInv
<1> SUFFICES ASSUME HarnessInit PROVE HarnessInv
  OBVIOUS
<1> USE HarnessAssumption DEF HarnessAssumption, HarnessInit, Untouched
<1>1. harness = Unstarted /\ Place = "preflight" /\ harness.verdict = "none" /\ ~Up
      /\ At("preflight") /\ ~At("over") /\ ~At("calling")
  BY DEF Place, At, Unstarted, Up
<1>2. HarnessTyped
  BY <1>1 DEF HarnessTyped, NoRequest, Unstarted, NoEvidence, States, Kinds, BeforeStop, Mains,
              Requests, Evidences, Rows
<1>3. OneJob
  BY DEF OneJob, QuietNow, NoRequest
<1>4. Verdicts /\ Reaped
  BY <1>1 DEF Verdicts, Reaped, ServerReaped
<1>5. RenderedOnce
  BY DEF RenderedOnce
<1>6. Placed /\ CutShows
  BY <1>1 DEF Placed, CutShows, BeforeStop, AfterStop
<1>7. Compared /\ Verified
  BY <1>1 DEF Compared, Verified, Passed
<1> QED
  BY <1>2, <1>3, <1>4, <1>5, <1>6, <1>7 DEF HarnessInv

-----------------------------------------------------------------------------
(* The server's steps                                                      *)

(* A step of the server is one of the job that waits or runs; its kind     *)
(* stays what it is, a row's stage becomes that kind or stays, and of the  *)
(* segments one that is missing is rendered, or none.                      *)
LEMMA ServerStep ==
  ASSUME HarnessAssumption, HarnessInv, Serves \/ OperationFails
  PROVE  /\ UNCHANGED <<stop, request, arguments, proof, signals>> /\ Up
         /\ \/ Queued /\ UnderWayNow' /\ running'.kind = chain[1].kind
               /\ running'.pc = "gate" /\ UNCHANGED rows
            \/ UnderWayNow /\ UnderWayNow' /\ running'.kind = running.kind
            \/ UnderWayNow /\ QuietNow'
<1> USE HarnessAssumption DEF HarnessAssumption
<1>1. /\ status \in [Jobs -> {"idle", "queued", "running"}]
      /\ OneJob
  BY DEF HarnessInv, HarnessTyped
<1>2. Quiet.job = NoJob /\ Quiet.pc = "idle"
  BY DEF Quiet
<1>3. CASE Begin /\ Untold /\ UNCHANGED workspace
  <2>1. /\ chain # <<>> /\ running = Quiet /\ Up
        /\ UNCHANGED <<stop, request, arguments, proof, signals, rows>>
    BY <1>3 DEF Begin, Untold, Process
  <2>2. Queued
    BY <1>1, <1>2, <2>1 DEF OneJob, QuietNow, UnderWayNow
  <2>3. PICK k \in Kinds, b \in BOOLEAN :
          chain = <<[job |-> Job, kind |-> k, recover |-> b]>> /\ status[Job] = "queued"
    BY <2>2 DEF Queued
  <2>4. /\ Head(chain) = [job |-> Job, kind |-> k, recover |-> b]
        /\ chain[1] = [job |-> Job, kind |-> k, recover |-> b] /\ Tail(chain) = <<>>
    BY <2>3
  <2>5. /\ chain' = <<>> /\ status' = [status EXCEPT ![Job] = "running"]
        /\ running' = [job |-> Job, kind |-> k, recover |-> b, pc |-> "gate"]
    BY <1>3, <2>3, <2>4 DEF Begin
  <2>6. UnderWayNow' /\ running'.kind = chain[1].kind /\ running'.pc = "gate"
    BY <1>1, <2>4, <2>5 DEF UnderWayNow
  <2> QED
    BY <2>1, <2>2, <2>6
<1>4. ASSUME running.pc \in {"gate", "work", "over"} PROVE UnderWayNow
  BY <1>1, <1>2, <1>4 DEF OneJob, QuietNow, Queued
<1>5. ASSUME UnderWayNow, UNCHANGED chain,
             \/ running' = running /\ UNCHANGED status
             \/ \E pc \in {"work", "over"} : running' = [running EXCEPT !.pc = pc] /\ UNCHANGED status
             \/ Finishes
      PROVE  \/ UnderWayNow' /\ running'.kind = running.kind
             \/ QuietNow'
  BY <1>1, <1>5 DEF UnderWayNow, QuietNow, Finishes
<1>6. CASE Gate /\ Untold /\ UNCHANGED workspace
  <2>1. /\ UNCHANGED <<stop, request, arguments, proof, signals, chain>> /\ Up
        /\ running.pc = "gate"
    BY <1>6 DEF Gate, Untold, Process, RunningAt
  <2>2. \/ running' = running /\ UNCHANGED status
        \/ \E pc \in {"work", "over"} : running' = [running EXCEPT !.pc = pc] /\ UNCHANGED status
        \/ Finishes
    BY <1>6 DEF Gate
  <2> QED
    BY <1>4, <1>5, <2>1, <2>2
<1>7. CASE Finish /\ Untold /\ UNCHANGED workspace
  <2>1. /\ UNCHANGED <<stop, request, arguments, proof, signals, chain>> /\ Up
        /\ running.pc = "over" /\ Finishes
    BY <1>7 DEF Finish, Untold, Process, RunningAt
  <2> QED
    BY <1>4, <1>5, <2>1
<1>8. CASE Operation
  <2>1. /\ UNCHANGED <<stop, request, arguments, proof, signals, chain, status>> /\ Up
        /\ running.pc = "work"
    BY <1>8 DEF Operation, Untold, Process, RunningAt
  <2>2. running' = running \/ running' = [running EXCEPT !.pc = "over"]
    BY <1>8 DEF Operation, Over
  <2> QED
    BY <1>4, <1>5, <2>1, <2>2
<1>9. CASE OperationFails
  <2>1. /\ UNCHANGED <<stop, request, arguments, proof, signals, chain, status>> /\ Up
        /\ running.pc = "work" /\ running' = [running EXCEPT !.pc = "over"]
    BY <1>9 DEF OperationFails, Untold, Process, RunningAt, Over
  <2> QED
    BY <1>4, <1>5, <2>1
<1> QED
  BY <1>3, <1>6, <1>7, <1>8, <1>9 DEF Serves, Runs

(* What a step of the server does to the job's row.                        *)
LEMMA ServerRows ==
  ASSUME HarnessAssumption, HarnessInv, Serves \/ OperationFails
  PROVE  \/ UNCHANGED rows
         \/ /\ running.pc = "work"
            /\ \E st \in States : rows' = [rows EXCEPT ![Job] = [state |-> st, stage |-> running.kind]]
         \/ /\ running.pc = "gate" /\ Claimable /\ running' = [running EXCEPT !.pc = "work"]
            /\ rows' = [rows EXCEPT ![Job] = [state |-> "running", stage |-> running.kind]]
         \/ /\ running.pc = "gate" /\ UNCHANGED running
            /\ rows' = [rows EXCEPT ![Job] = [state |-> "abandoned", stage |-> rows[Job].stage]]
<1> USE HarnessAssumption DEF HarnessAssumption
<1>1. OneJob /\ Quiet.pc = "idle"
  BY DEF HarnessInv, Quiet
<1>2. ASSUME running.pc \in {"gate", "work"} PROVE running.job = Job
  BY <1>1, <1>2 DEF OneJob, QuietNow, Queued, UnderWayNow
<1>3. CASE Begin \/ Finish
  BY <1>3 DEF Begin, Finish
<1>4. CASE Gate
  BY <1>2, <1>4 DEF Gate, RunningAt, Saves
<1>5. CASE Operation
  <2>1. UNCHANGED rows \/ \E st \in States : Over(st)
    BY <1>5 DEF Operation, States
  <2>2. running.pc = "work"
    BY <1>5 DEF Operation, RunningAt
  <2> QED
    BY <1>2, <2>1, <2>2 DEF Over, Saves
<1>6. CASE OperationFails
  <2>1. running.pc = "work" /\ Over("failed")
    BY <1>6 DEF OperationFails, RunningAt
  <2> QED
    BY <1>2, <2>1 DEF Over, Saves, States
<1> QED
  BY <1>3, <1>4, <1>5, <1>6 DEF Serves, Runs

(* What it does to the segments and the outputs.                           *)
LEMMA ServerFiles ==
  ASSUME Serves \/ OperationFails
  PROVE  /\ UNCHANGED <<audio, renders>> \/ \E s \in Missing : Renders(s)
         /\ UNCHANGED outputs \/ (running.pc = "work" /\ Missing = {})
  BY DEF Serves, Runs, Operation, OperationFails, workspace, RunningAt

(* No step of the server is taken once the output is verified, for nothing *)
(* waits or runs; and after a comparison nothing is missing.               *)
LEMMA ServerKeeps ==
  ASSUME HarnessAssumption, HarnessInv, Serves \/ OperationFails
  PROVE  HarnessInv'
<1> USE HarnessAssumption DEF HarnessAssumption
<1>1. /\ UNCHANGED <<stop, request, mode, sabotage, fresh, harness, stopped, evidence, handler, spawned>>
      /\ Up /\ Up'
  BY ServerStep DEF arguments, proof, signals, Up
<1>2. /\ HarnessTyped /\ OneJob /\ Verdicts /\ Reaped /\ RenderedOnce
      /\ Placed /\ CutShows /\ Compared /\ Verified
  BY DEF HarnessInv
<1>3. Place' = Place /\ \A pc : At(pc)' = At(pc)
  BY <1>1 DEF Place, At
<1>4. \/ Queued /\ UnderWayNow' /\ running'.kind = chain[1].kind
         /\ running'.pc = "gate" /\ UNCHANGED rows
      \/ UnderWayNow /\ UnderWayNow' /\ running'.kind = running.kind
      \/ UnderWayNow /\ QuietNow'
  BY ServerStep
<1>5. ~QuietNow /\ request[Harness].pc # "start"
  BY <1>2, <1>4 DEF OneJob, QuietNow, Queued, UnderWayNow
<1>6. OneJob'
  BY <1>1, <1>2, <1>4, <1>5 DEF OneJob
<1>7. rows' \in [Jobs -> Rows]
  <2>1. rows \in [Jobs -> Rows]
    BY <1>2 DEF HarnessTyped
  <2>2. ASSUME NEW st \in States, NEW k \in Kinds,
               rows' = [rows EXCEPT ![Job] = [state |-> st, stage |-> k]]
        PROVE  rows' \in [Jobs -> Rows]
    BY <2>1, <2>2 DEF Rows
  <2>3. running.pc \in {"gate", "work"} => running.kind \in Kinds
    BY <1>2 DEF OneJob, QuietNow, Queued, UnderWayNow, Quiet
  <2>4. rows[Job].stage \in Kinds /\ {"running", "abandoned"} \subseteq States
    BY <2>1 DEF States, Rows
  <2> QED
    BY <2>1, <2>2, <2>3, <2>4, ServerRows
<1>8. status' \in [Jobs -> {"idle", "queued", "running"}]
  BY <1>2 DEF HarnessTyped, Serves, Runs, Operation, OperationFails, Begin, Gate, Finish, Finishes
<1>9. ASSUME NEW s \in Missing, Renders(s)
      PROVE  /\ s \in Segments /\ audio[s] # "whole"
             /\ audio' \in [Segments -> {"none", "whole", "short"}] /\ renders' \in [Segments -> Nat]
             /\ audio'[s] = "whole" /\ renders'[s] = renders[s] + 1
             /\ \A t \in Segments \ {s} : audio'[t] = audio[t] /\ renders'[t] = renders[t]
  BY <1>2, <1>9 DEF HarnessTyped, Missing, Whole, Renders
<1>10. HarnessTyped'
  <2>1. audio' \in [Segments -> {"none", "whole", "short"}] /\ renders' \in [Segments -> Nat]
    BY <1>2, <1>9, ServerFiles DEF HarnessTyped
  <2> QED
    BY <1>1, <1>2, <1>7, <1>8, <2>1 DEF HarnessTyped, At
<1>11. Verdicts' /\ Reaped'
  BY <1>1, <1>2, <1>3 DEF Verdicts, Reaped, ServerReaped
<1>12. RenderedOnce'
  <2>1. CASE UNCHANGED <<audio, renders>>
    BY <1>1, <1>2, <2>1 DEF RenderedOnce
  <2>2. ASSUME NEW s \in Missing, Renders(s) PROVE RenderedOnce'
    BY <1>1, <1>2, <1>9, <2>2 DEF RenderedOnce
  <2> QED
    BY <2>1, <2>2, ServerFiles
<1>13. Placed'
  <2>1. ASSUME NEW k \in Kinds, AllOf(k) PROVE AllOf(k)'
    <3>1. Queued => 1 \in DOMAIN chain
      BY DEF Queued
    <3>2. Quiet' = Quiet
      BY DEF Quiet
    <3> QED
      BY <1>1, <1>4, <2>1, <3>1, <3>2 DEF AllOf, QuietNow, UnderWayNow, Quiet
  <2>2. rows \in [Jobs -> Rows]
    BY <1>2 DEF HarnessTyped
  <2>3. running.pc \in {"gate", "work"} => running # Quiet
    BY DEF Quiet
  <2>4. ASSUME AllOf("rendering"), rows[Job].stage = "rendering"
        PROVE  rows'[Job].stage = "rendering"
    BY <2>2, <2>3, <2>4, ServerRows DEF AllOf
  <2>5. ASSUME NeverRecovered PROVE NeverRecovered'
    <3>1. AllOf("direction")'
      BY <2>1, <2>5 DEF NeverRecovered, Kinds
    <3>2. ~(running.pc = "gate" /\ Claimable)
      <4> SUFFICES ASSUME running.pc = "gate" PROVE ~Claimable
        OBVIOUS
      <4>1. running.job = Job
        BY <1>2 DEF OneJob, QuietNow, Queued, UnderWayNow, Quiet
      <4>2. running.kind = "direction"
        BY <2>3, <2>5 DEF NeverRecovered, AllOf
      <4> QED
        BY <2>5, <4>1, <4>2 DEF Claimable, NeverRecovered
    <3>3. /\ rows'[Job].state \in {"running", "abandoned"} /\ rows'[Job].stage = "rendering"
      BY <2>2, <2>5, <3>2, ServerRows DEF NeverRecovered
    <3>4. running'.pc # "work"
      <4>1. CASE Begin
        BY <1>4, <2>5, <4>1 DEF Begin, NeverRecovered
      <4>2. CASE Gate
        BY <2>5, <3>2, <4>2 DEF Gate, RunningAt, NeverRecovered, Finishes, Quiet
      <4>3. CASE Finish
        BY <4>3 DEF Finish, Finishes, Quiet
      <4>4. CASE Operation \/ OperationFails
        BY <2>5, <4>4 DEF Operation, OperationFails, RunningAt, NeverRecovered
      <4> QED
        BY <4>1, <4>2, <4>3, <4>4 DEF Serves, Runs
    <3> QED
      BY <3>1, <3>3, <3>4 DEF NeverRecovered
  <2> QED
    BY <1>1, <1>2, <1>3, <2>1, <2>4, <2>5 DEF Placed, Midway, Kinds
<1>14. CutShows'
  <2>1. CASE UNCHANGED <<audio, renders>>
    BY <1>1, <1>2, <1>3, <2>1 DEF CutShows
  <2>2. ASSUME NEW s \in Missing, Renders(s) PROVE CutShows'
    <3> SUFFICES ASSUME harness.verdict = "none", Place \in AfterStop,
                        sabotage = "truncate-segment"
                 PROVE  \E t \in stopped :
                          renders'[t] > 1 \/ (audio'[t] = "short" /\ renders'[t] = 1)
      BY <1>1, <1>2, <1>3 DEF CutShows
    <3>1. PICK t \in stopped : renders[t] > 1 \/ (audio[t] = "short" /\ renders[t] = 1)
      BY <1>2 DEF CutShows
    <3>2. t \in Segments /\ renders[t] \in Nat
      BY <1>2 DEF HarnessTyped
    <3> QED
      BY <1>9, <2>2, <3>1, <3>2
  <2> QED
    BY <2>1, <2>2, ServerFiles
<1>15. Compared'
  <2>1. Passed({"verify", "evidence", "cleanup"})' = Passed({"verify", "evidence", "cleanup"})
    BY <1>1, <1>3 DEF Passed
  <2>2. CASE Passed({"verify", "evidence", "cleanup"})
    <3>1. Missing = {}
      BY <1>2, <2>2 DEF Compared
    <3>2. UNCHANGED <<audio, renders>>
      BY <3>1, ServerFiles
    <3> QED
      BY <1>1, <1>2, <2>1, <3>2 DEF Compared, Midway, Missing, Whole
  <2> QED
    BY <2>1, <2>2 DEF Compared
<1>16. Verified'
  <2>1. Passed({"evidence", "cleanup"})' = Passed({"evidence", "cleanup"})
    BY <1>1, <1>3 DEF Passed
  <2>2. ~Passed({"evidence", "cleanup"})
    BY <1>2, <1>4 DEF Verified, Queued, UnderWayNow, Quiet
  <2> QED
    BY <2>1, <2>2 DEF Verified
<1> QED
  BY <1>6, <1>10, <1>11, <1>12, <1>13, <1>14, <1>15, <1>16 DEF HarnessInv

-----------------------------------------------------------------------------
(* The harness's steps                                                     *)

(* While main is at work no verdict has been reached; and past the         *)
(* preflight the workspace was empty.                                      *)
LEMMA AtWork ==
  ASSUME HarnessInv, ~At("cleanup"), ~At("over")
  PROVE  harness.verdict = "none" /\ (At("preflight") \/ fresh)
  BY DEF HarnessInv, Verdicts, At

(* An error leaves nothing to claim: the server is stopped, or never was.  *)
LEMMA RedsKeep ==
  ASSUME HarnessInv, Reds, UNCHANGED <<rows, chain, status, running, request, stop>>,
         UNCHANGED <<arguments, signals, audio, renders>>, RenderedOnce',
         stopped' \in SUBSET Segments,
         evidence' \in Evidences
  PROVE  HarnessInv'
<1>1. /\ HarnessTyped /\ OneJob /\ Verdicts /\ Reaped /\ RenderedOnce
  BY DEF HarnessInv
<1>2. /\ harness'.verdict = "red" /\ harness'.pc \in {"over", "cleanup"}
      /\ harness'.next = harness.next
      /\ (harness'.pc = "over" => spawned = 0)
  BY <1>1 DEF Reds, HarnessTyped
<1>3. harness' \in Mains
  BY <1>1 DEF Reds, HarnessTyped, AfterStop, Mains
<1>4. HarnessTyped'
  BY <1>1, <1>2, <1>3 DEF HarnessTyped, arguments, signals, At
<1>5. OneJob'
  BY <1>1 DEF OneJob, QuietNow, Queued, UnderWayNow, Up
<1>6. Verdicts' /\ Reaped'
  BY <1>1, <1>2 DEF Verdicts, Reaped, ServerReaped, At, Up, signals, arguments
<1>7. Placed' /\ CutShows' /\ Compared' /\ Verified'
  BY <1>2 DEF Placed, CutShows, Compared, Verified, Passed
<1> QED
  BY <1>4, <1>5, <1>6, <1>7 DEF HarnessInv

(* Main goes on, and what it may now claim is what the last step showed.   *)
LEMMA GoesKeeps ==
  ASSUME HarnessInv, harness.verdict = "none", fresh, HarnessTyped', OneJob', RenderedOnce',
         handler' <= spawned', spawned' = 0 => ~Up', UNCHANGED fresh,
         harness'.verdict = "none", harness'.pc # "over",
         Placed', CutShows', Compared', Verified'
  PROVE  HarnessInv'
  BY DEF HarnessInv, Verdicts, Reaped, ServerReaped, At

(* Where a step of main touches neither process nor segments nor evidence. *)
LEMMA MoveKeeps ==
  ASSUME HarnessInv, harness.verdict = "none", fresh,
         UNCHANGED <<vars, arguments, signals, audio, renders, stopped, evidence>>,
         NEW pc \in (BeforeStop \cup AfterStop \cup AfterKill), Goes(pc),
         Placed', CutShows', Compared', Verified'
  PROVE  HarnessInv'
<1>1. HarnessTyped /\ OneJob /\ Reaped /\ RenderedOnce
  BY DEF HarnessInv
<1>2. UNCHANGED <<rows, chain, status, running, request, stop, audio, renders, mode, sabotage, fresh,
                  handler, spawned>>
  BY DEF vars, arguments, signals
<1>3. /\ harness' = [harness EXCEPT !.pc = pc] /\ harness'.verdict = "none" /\ harness'.pc = pc
      /\ pc # "over" /\ pc # "calling"
  BY <1>1 DEF Goes, HarnessTyped, BeforeStop, AfterStop, AfterKill
<1>4. HarnessTyped'
  BY <1>1, <1>2, <1>3 DEF HarnessTyped, At, Mains
<1>5. OneJob' /\ RenderedOnce' /\ handler' <= spawned' /\ (spawned' = 0 => ~Up')
  BY <1>1, <1>2 DEF OneJob, QuietNow, Queued, UnderWayNow, Up, RenderedOnce, Reaped
<1> QED
  BY <1>2, <1>3, <1>4, <1>5, GoesKeeps

(* An error at a step that has touched nothing.                            *)
LEMMA RedsMove ==
  ASSUME HarnessInv, Reds, Unserved, UNCHANGED <<stopped, evidence>>
  PROVE  HarnessInv'
  BY RedsKeep DEF HarnessInv, HarnessTyped, RenderedOnce, Unserved, vars, Queue, workspace

(* Where main is, is what the invariant says of its place.                 *)
LEMMA PlaceAt == ASSUME NEW pc, At(pc), pc # "calling" PROVE Place = pc
  BY DEF At, Place

(* Steps before the stop that touch nothing but where main is: the check   *)
(* of the workspace, the polls and the end of the evidence.                *)
LEMMA PollsKeep ==
  ASSUME HarnessAssumption, HarnessInv,
         Preflight \/ Unanswered \/ PollReview \/ PollBlocked \/ PollCompleted \/ PollRender
  PROVE  HarnessInv'
<1>0. /\ Unserved /\ UNCHANGED <<stopped, evidence>>
      /\ UNCHANGED <<vars, arguments, signals, audio, renders, stopped, evidence>>
  BY DEF Preflight, Unanswered, PollReview, PollBlocked, PollCompleted, PollRender, Poll,
         Unserved, workspace
<1>1. CASE Reds
  BY <1>0, <1>1, RedsMove
<1>2. CASE ~Reds
  <2>1. ~At("cleanup") /\ ~At("over")
    BY <1>2 DEF Preflight, Unanswered, PollReview, PollBlocked, PollCompleted, PollRender, Poll, At
  <2>2. harness.verdict = "none" /\ (At("preflight") \/ fresh)
    BY <2>1, AtWork
  <2>3. /\ harness \in Mains
        /\ Placed /\ CutShows /\ Compared /\ Verified
    BY DEF HarnessInv, HarnessTyped
  <2>4. UNCHANGED <<rows, chain, running, request, mode, sabotage, audio, renders, stopped>>
    BY <1>0 DEF Unserved, vars, Queue, arguments, workspace
  <2>5. ASSUME NEW pc, Goes(pc), pc # "calling" PROVE Place' = pc /\ harness'.verdict = "none"
    BY <2>2, <2>3, <2>5 DEF Goes, Place, At
  <2>6. CASE Preflight
    <3>1. At("preflight") /\ Goes("spawn") /\ fresh
      BY <1>2, <2>6 DEF Preflight
    <3>2. Place = "preflight" /\ Place' = "spawn" /\ harness'.verdict = "none"
      BY <2>5, <3>1, PlaceAt
    <3>3. Placed'
      BY <2>2, <2>3, <2>4, <3>2 DEF Placed, BeforeStop, AfterStop, AfterKill
    <3>4. CutShows' /\ Compared' /\ Verified'
      BY <3>2 DEF CutShows, Compared, Verified, Passed, AfterStop
    <3> QED
      BY <1>0, <2>2, <3>1, <3>3, <3>4, MoveKeeps DEF BeforeStop
  <2>7. CASE PollReview
    <3>1. CASE At("directing") /\ Goes("review")
      <4>1. Place = "directing" /\ Place' = "review" /\ harness'.verdict = "none"
        BY <2>5, <3>1, PlaceAt
      <4>2. Placed'
        BY <2>2, <2>3, <2>4, <4>1 DEF Placed, BeforeStop, AfterStop, AfterKill
      <4>3. CutShows' /\ Compared' /\ Verified'
        BY <4>1 DEF CutShows, Compared, Verified, Passed, AfterStop
      <4> QED
        BY <1>0, <2>2, <3>1, <4>2, <4>3, MoveKeeps DEF BeforeStop, At
    <3>2. CASE At("boundary") /\ State = "review"
      <4>1. Place = "boundary"
        BY <3>2, PlaceAt
      <4>2. NeverRecovered
        BY <2>2, <2>3, <4>1 DEF Placed, BeforeStop, AfterStop
      <4> QED
        BY <3>2, <4>2 DEF State, NeverRecovered
    <3> QED
      BY <1>2, <2>7, <3>1, <3>2 DEF PollReview, Poll
  <2>8. CASE PollBlocked
    <3>1. At("blocked") /\ Goes("snapshot")
      BY <1>2, <2>8 DEF PollBlocked, Poll
    <3>2. Place = "blocked" /\ Place' = "snapshot" /\ harness'.verdict = "none"
      BY <2>5, <3>1, PlaceAt
    <3>3. Placed'
      BY <2>2, <2>3, <2>4, <3>2 DEF Placed, BeforeStop, AfterStop, AfterKill
    <3>4. CutShows' /\ Compared' /\ Verified'
      BY <3>2 DEF CutShows, Compared, Verified, Passed, AfterStop
    <3> QED
      BY <1>0, <2>2, <3>1, <3>3, <3>4, MoveKeeps DEF BeforeStop, At
  <2>9. CASE PollCompleted
    <3>1. At("resumed") /\ Goes("compare")
      BY <1>2, <2>9 DEF PollCompleted, Poll
    <3>2. Place = "resumed" /\ Place' = "compare" /\ harness'.verdict = "none"
      BY <2>5, <3>1, PlaceAt
    <3>3. Placed'
      BY <2>2, <2>3, <2>4, <3>2 DEF Placed, BeforeStop, AfterStop, AfterKill, Midway
    <3>4. CutShows'
      BY <2>2, <2>3, <2>4, <3>2 DEF CutShows, AfterStop
    <3>5. Compared' /\ Verified'
      BY <3>2 DEF Compared, Verified, Passed
    <3> QED
      BY <1>0, <2>2, <3>1, <3>3, <3>4, <3>5, MoveKeeps DEF AfterStop, At
  <2>10. CASE PollRender
    <3>1. At("watch") /\ Goes("kill") /\ rows[Job].stage = "rendering"
      BY <1>2, <2>10 DEF PollRender, Poll
    <3>2. Place = "watch" /\ Place' = "kill" /\ harness'.verdict = "none"
      BY <2>5, <3>1, PlaceAt
    <3>3. Placed'
      BY <2>2, <2>3, <2>4, <3>1, <3>2 DEF Placed, BeforeStop, AfterStop, AfterKill, AllOf, Quiet
    <3>4. CutShows' /\ Compared' /\ Verified'
      BY <3>2 DEF CutShows, Compared, Verified, Passed, AfterStop
    <3> QED
      BY <1>0, <2>2, <3>1, <3>3, <3>4, MoveKeeps DEF BeforeStop, At
  <2> QED
    BY <1>2, <2>6, <2>7, <2>8, <2>9, <2>10 DEF Unanswered
<1> QED
  BY <1>1, <1>2

(* The review, where a fault may be armed.                                 *)
LEMMA ReviewKeeps == ASSUME HarnessInv, Review PROVE HarnessInv'
<1>1. At("review") /\ Goes("render")
      /\ UNCHANGED <<vars, arguments, signals, audio, renders, stopped, evidence>>
      /\ UNCHANGED <<rows, chain, running, request, mode>>
  BY DEF Review, vars, arguments
<1>2. harness.verdict = "none" /\ fresh
  BY <1>1, AtWork DEF At
<1>3. Place = "review" /\ Place' = "render" /\ harness'.verdict = "none"
  BY <1>1, <1>2 DEF Goes, Place, At, HarnessInv, HarnessTyped
<1>4. Placed'
  BY <1>1, <1>2, <1>3 DEF HarnessInv, Placed, BeforeStop, AfterStop, AfterKill
<1>5. CutShows' /\ Compared' /\ Verified'
  BY <1>3 DEF CutShows, Compared, Verified, Passed, AfterStop
<1> QED
  BY <1>1, <1>2, <1>4, <1>5, MoveKeeps DEF BeforeStop

(* The stop, seen: it came in the middle, and what was rendered by then    *)
(* was rendered once.  A cut leaves a segment short.                       *)
LEMMA InspectKeeps == ASSUME HarnessAssumption, HarnessInv, Inspect PROVE HarnessInv'
<1> USE HarnessAssumption DEF HarnessAssumption
<1>1. /\ At("snapshot") \/ At("inspect")
      /\ stopped' = Whole
      /\ UNCHANGED <<vars, arguments, signals, renders, outputs, evidence>>
      /\ UNCHANGED <<rows, chain, status, running, request, stop, mode, sabotage, fresh, handler, spawned>>
  BY DEF Inspect, Unserved, workspace, vars, arguments, signals
<1>2. harness.verdict = "none" /\ fresh
  BY <1>1, AtWork DEF At
<1>3. HarnessTyped /\ OneJob /\ Reaped /\ RenderedOnce /\ Placed
  BY DEF HarnessInv
<1>4. Place \in {"snapshot", "inspect"} /\ Place = harness.pc
  BY <1>1 DEF Place, At
<1>5. stopped = {}
  BY <1>2, <1>3, <1>4 DEF Placed, AfterStop, AfterKill
<1>6. \A s \in Segments : /\ s \in Whole => renders[s] = 1
                          /\ s \notin Whole => audio[s] = "none" /\ renders[s] = 0
  BY <1>3, <1>5 DEF RenderedOnce, Whole
<1>7. audio' = audio \/ \E s \in Whole : audio' = [audio EXCEPT ![s] = "short"]
  BY DEF Inspect, Unserved, workspace
<1>8. RenderedOnce'
  BY <1>1, <1>3, <1>6, <1>7 DEF RenderedOnce, HarnessTyped, Whole
<1>9. Whole \in SUBSET Segments
      /\ evidence' \in Evidences
      /\ audio' \in [Segments -> {"none", "whole", "short"}]
  BY <1>1, <1>3, <1>7 DEF HarnessTyped, Whole
<1>10. CASE Reds
  <2>1. UNCHANGED audio
    <3>1. harness'.verdict = "red"
      BY <1>3, <1>10 DEF Reds, HarnessTyped
    <3>2. ~Goes("resume")
      BY <1>2, <1>3, <3>1 DEF Goes, HarnessTyped, Mains
    <3> QED
      BY <3>2 DEF Inspect, Unserved, workspace
  <2> QED
    BY <1>1, <1>8, <1>9, <1>10, <2>1, RedsKeep
<1>11. CASE ~Reds
  <2>1. /\ MidRender
        /\ \/ At("snapshot") /\ Goes("resume")
           \/ At("inspect") /\ Goes("spawn") /\ rows[Job].state = "running" /\ UNCHANGED audio
    BY <1>11 DEF Inspect, Unserved, workspace
  <2>2. Midway'
    BY <1>1, <2>1 DEF Midway, MidRender, Missing, Whole
  <2>3. harness'.verdict = "none" /\ harness'.pc \in {"resume", "spawn"} /\ Place' = harness'.pc
    BY <1>2, <1>3, <2>1 DEF Goes, HarnessTyped, Place, At, Mains
  <2>4. At("snapshot") => harness'.pc = "resume" /\ mode = "fake"
    BY <1>2, <1>3, <1>4, <2>1 DEF Goes, At, Placed, AfterStop, AfterKill, HarnessTyped, Mains
  <2>5. At("inspect") => /\ harness'.pc = "spawn" /\ mode = "real" /\ rows[Job].stage = "rendering"
                         /\ rows[Job].state = "running"
    BY <1>2, <1>3, <1>4, <2>1 DEF Goes, At, Placed, AfterStop, AfterKill, HarnessTyped, Mains
  <2>6. HarnessTyped'
    BY <1>1, <1>3, <1>9, <2>1, <2>3 DEF HarnessTyped, Goes, At, BeforeStop, AfterStop, Mains
  <2>7. OneJob' /\ handler' <= spawned' /\ (spawned' = 0 => ~Up')
    BY <1>1, <1>3 DEF OneJob, QuietNow, Queued, UnderWayNow, Up, Reaped
  <2>8. CASE At("snapshot")
    <3>1. Placed'
      BY <1>1, <2>2, <2>3, <2>4, <2>8 DEF Placed, AfterStop
    <3>2. CutShows'
      <4> SUFFICES ASSUME sabotage = "truncate-segment"
                   PROVE  \E s \in Whole : audio'[s] = "short" /\ renders'[s] = 1
        BY <1>1, <2>3, <2>4, <2>8 DEF CutShows
      <4>1. PICK s \in Whole : audio' = [audio EXCEPT ![s] = "short"]
        BY <2>1, <2>8 DEF Inspect, At
      <4> QED
        BY <1>1, <1>3, <1>6, <4>1 DEF HarnessTyped, Whole
    <3>3. Compared' /\ Verified'
      BY <2>3, <2>4, <2>8 DEF Compared, Verified, Passed
    <3> QED
      BY <1>1, <1>2, <1>8, <2>3, <2>6, <2>7, <3>1, <3>2, <3>3, GoesKeeps
  <2>9. CASE At("inspect")
    <3>1. ~Up /\ QuietNow /\ request[Harness] = NoRequest
      BY <1>2, <1>3, <1>4, <2>9 DEF Placed, AfterStop, AfterKill, At, OneJob
    <3>2. NeverRecovered'
      BY <1>1, <2>5, <2>9, <3>1 DEF NeverRecovered, AllOf, QuietNow, Quiet, NoRequest
    <3>3. Placed'
      BY <1>1, <2>2, <2>3, <2>5, <2>9, <3>2 DEF Placed, AfterKill
    <3>4. CutShows' /\ Compared' /\ Verified'
      BY <2>3, <2>5, <2>9 DEF CutShows, Compared, Verified, Passed, AfterStop
    <3> QED
      BY <1>1, <1>2, <1>8, <2>3, <2>6, <2>7, <3>3, <3>4, GoesKeeps
  <2> QED
    BY <1>1, <2>8, <2>9
<1> QED
  BY <1>10, <1>11

(* What is compared: everything has audio, and what had it at the stop was *)
(* not written again, which a segment that was cut must have been.         *)
LEMMA CompareKeeps == ASSUME HarnessInv, Compare PROVE HarnessInv'
<1>1. /\ At("compare") /\ UNCHANGED stopped
      /\ UNCHANGED <<vars, arguments, signals, audio, renders, outputs>>
      /\ UNCHANGED <<rows, chain, status, running, request, stop, mode, sabotage, fresh, handler, spawned>>
  BY DEF Compare, Unserved, workspace, vars, arguments, signals
<1>2. harness.verdict = "none" /\ fresh
  BY <1>1, AtWork DEF At
<1>3. HarnessTyped /\ OneJob /\ Reaped /\ RenderedOnce /\ Placed /\ CutShows
  BY DEF HarnessInv
<1>4. Place = "compare"
  BY <1>1, PlaceAt
<1>5. RenderedOnce'
  BY <1>1, <1>3 DEF RenderedOnce
<1>6. CASE Reds
  <2>1. UNCHANGED evidence
    <3>1. ~Goes("verify")
      BY <1>2, <1>3, <1>6 DEF Goes, Reds, HarnessTyped, Mains
    <3> QED
      BY <3>1 DEF Compare
  <2> QED
    BY <1>1, <1>3, <1>5, <1>6, <2>1, RedsKeep DEF HarnessTyped
<1>7. CASE ~Reds
  <2>1. /\ \A s \in stopped : audio[s] = "whole" /\ renders[s] = 1
        /\ Missing = {} /\ Goes("verify")
        /\ evidence' = [evidence EXCEPT !.reused = stopped, !.rendered = Whole \ stopped]
    BY <1>7 DEF Compare, Kept
  <2>2. Whole = Segments /\ Missing' = {}
    BY <1>1, <2>1 DEF Missing, Whole
  <2>3. \A s \in Segments : renders[s] = 1
    BY <1>3, <2>1, <2>2 DEF RenderedOnce, Whole
  <2>4. Midway /\ mode = "fake"
    BY <1>2, <1>3, <1>4 DEF Placed, BeforeStop, AfterKill
  <2>5. sabotage # "truncate-segment"
    BY <1>2, <1>3, <1>4, <2>1 DEF CutShows, AfterStop
  <2>6. harness'.verdict = "none" /\ harness'.pc = "verify" /\ Place' = "verify"
    BY <1>2, <1>3, <2>1 DEF Goes, HarnessTyped, Place, At
  <2>7. /\ evidence'.reused = stopped /\ evidence'.rendered = Segments \ stopped
        /\ evidence' \in Evidences
    BY <1>3, <2>1, <2>2 DEF HarnessTyped, Evidences
  <2>8. HarnessTyped'
    BY <1>1, <1>3, <2>1, <2>6, <2>7 DEF HarnessTyped, Goes, At, AfterStop, Mains
  <2>9. OneJob' /\ handler' <= spawned' /\ (spawned' = 0 => ~Up')
    BY <1>1, <1>3 DEF OneJob, QuietNow, Queued, UnderWayNow, Up, Reaped
  <2>10. Placed'
    BY <1>1, <2>4, <2>6 DEF Placed, Midway, AfterStop
  <2>11. CutShows'
    BY <1>1, <2>5 DEF CutShows
  <2>12. Compared'
    BY <1>1, <2>2, <2>3, <2>4, <2>5, <2>7 DEF Compared, Midway
  <2>13. Verified'
    BY <2>6 DEF Verified, Passed
  <2> QED
    BY <1>1, <1>2, <1>5, <2>6, <2>8, <2>9, <2>10, <2>11, <2>12, <2>13, GoesKeeps
<1> QED
  BY <1>6, <1>7

(* What is verified: one output, of a job that is over, so that no other   *)
(* will be made.                                                           *)
LEMMA VerifyKeeps == ASSUME HarnessAssumption, HarnessInv, Verify PROVE HarnessInv'
<1> USE HarnessAssumption DEF HarnessAssumption
<1>1. /\ At("verify") /\ UNCHANGED <<vars, arguments, signals, audio, renders, stopped, evidence>>
      /\ UNCHANGED <<rows, chain, status, running, request, stop, mode, sabotage, fresh, handler, spawned>>
  BY DEF Verify, vars, arguments, signals
<1>2. harness.verdict = "none" /\ fresh
  BY <1>1, AtWork DEF At
<1>3. HarnessTyped /\ OneJob /\ Reaped /\ RenderedOnce /\ Placed /\ Compared
  BY DEF HarnessInv
<1>4. Place = "verify"
  BY <1>1, PlaceAt
<1>5. RenderedOnce'
  BY <1>1, <1>3 DEF RenderedOnce
<1>6. CASE Reds
  BY <1>1, <1>3, <1>5, <1>6, RedsKeep DEF HarnessTyped
<1>7. CASE ~Reds
  <2>1. /\ Goes("evidence") /\ State = "completed" /\ outputs' = 1
        /\ sabotage = "delete-output" => outputs' = 0
    BY <1>7 DEF Verify
  <2>2. chain = <<>> /\ running = Quiet
    <3>1. status[Job] = "idle" \/ rows[Job].state = "running"
      BY <2>1 DEF State
    <3>2. status[Job] = "idle"
      BY <2>1, <3>1 DEF State
    <3> QED
      BY <1>3, <3>2 DEF OneJob, QuietNow, Queued, UnderWayNow
  <2>3. harness'.verdict = "none" /\ harness'.pc = "evidence" /\ Place' = "evidence"
    BY <1>2, <1>3, <2>1 DEF Goes, HarnessTyped, Place, At
  <2>4. Midway /\ mode = "fake"
    BY <1>2, <1>3, <1>4 DEF Placed, BeforeStop, AfterKill
  <2>5. Placed'
    BY <1>1, <2>3, <2>4 DEF Placed, Midway, AfterStop
  <2>6. Compared' /\ CutShows'
    BY <1>1, <1>2, <1>3, <1>4, <2>3 DEF Compared, CutShows, Midway, Missing, Whole, Passed
  <2>7. Verified'
    BY <1>1, <2>1, <2>2, <2>3 DEF Verified, Quiet
  <2> QED
    BY <1>1, <1>2, <2>1, <2>5, <2>6, <2>7, MoveKeeps DEF AfterStop
<1> QED
  BY <1>6, <1>7

(* The evidence is written of what was compared and verified.              *)
LEMMA WriteKeeps == ASSUME HarnessInv, WriteEvidence PROVE HarnessInv'
<1>1. /\ At("evidence") /\ Goes("cleanup") /\ evidence' = [evidence EXCEPT !.written = TRUE]
      /\ UNCHANGED <<vars, arguments, signals, audio, renders, outputs, stopped>>
      /\ UNCHANGED <<rows, chain, status, running, request, stop, mode, sabotage, fresh, handler, spawned>>
  BY DEF WriteEvidence, Unserved, workspace, vars, arguments, signals
<1>2. harness.verdict = "none" /\ fresh
  BY <1>1, AtWork DEF At
<1>3. /\ HarnessTyped /\ OneJob /\ Reaped /\ RenderedOnce /\ Placed /\ CutShows /\ Compared
      /\ Verified
  BY DEF HarnessInv
<1>4. Place = "evidence" /\ Place' = "cleanup" /\ harness'.verdict = "none" /\ harness'.pc = "cleanup"
  BY <1>1, <1>2, <1>3 DEF Goes, Place, At, HarnessTyped
<1>5. /\ evidence'.reused = evidence.reused /\ evidence'.rendered = evidence.rendered
      /\ evidence'.written
      /\ evidence' \in Evidences
  BY <1>1, <1>3 DEF HarnessTyped, Evidences
<1>6. HarnessTyped'
  BY <1>1, <1>3, <1>4, <1>5 DEF HarnessTyped, Goes, At, AfterStop, Mains
<1>7. OneJob' /\ RenderedOnce' /\ handler' <= spawned' /\ (spawned' = 0 => ~Up')
  BY <1>1, <1>3 DEF OneJob, QuietNow, Queued, UnderWayNow, Up, RenderedOnce, Reaped
<1>8. Placed'
  BY <1>1, <1>2, <1>3, <1>4 DEF Placed, Midway, AfterStop, BeforeStop, AfterKill
<1>9. CutShows'
  BY <1>1, <1>2, <1>3, <1>4 DEF CutShows, AfterStop
<1>10. Compared'
  BY <1>1, <1>2, <1>3, <1>4, <1>5 DEF Compared, Midway, Missing, Whole, Passed
<1>11. Verified'
  BY <1>1, <1>2, <1>3, <1>4, <1>5 DEF Verified, Passed, Quiet
<1> QED
  BY <1>1, <1>2, <1>4, <1>6, <1>7, <1>8, <1>9, <1>10, <1>11, GoesKeeps

-----------------------------------------------------------------------------
(* Requests                                                                *)

(* A call is about the job, and made while nothing of it waits or runs.    *)
LEMMA CallKeeps ==
  ASSUME HarnessAssumption, HarnessInv, CallStart \/ CallResume \/ CallRender
  PROVE  HarnessInv'
<1> USE HarnessAssumption DEF HarnessAssumption
<1>1. /\ UNCHANGED <<rows, chain, status, running, stop, audio, renders, outputs, mode, sabotage, fresh,
                     stopped, evidence, handler, spawned>>
      /\ Up /\ status[Job] = "idle"
  BY DEF CallStart, CallResume, CallRender, Call, StartGeneration, ResumeGeneration,
         RenderApprovedScript, Queue, Process, workspace, arguments, signals
<1>2. /\ HarnessTyped /\ OneJob /\ Reaped /\ RenderedOnce /\ Placed /\ CutShows /\ Compared
      /\ Verified
  BY DEF HarnessInv
<1>3. PICK k \in Kinds : \E b \in BOOLEAN : Asked(Harness, Job, k, b, "start")
  <2>1. rows[Job].stage \in Kinds
    BY <1>2 DEF HarnessTyped, Rows
  <2> QED
    BY <2>1 DEF CallStart, CallResume, CallRender, Call, StartGeneration, ResumeGeneration,
         RenderApprovedScript, Kinds
<1>4. /\ request' \in [Clients -> Requests]
      /\ request'[Harness].job = Job /\ request'[Harness].kind = k
  BY <1>2, <1>3 DEF HarnessTyped, Asked, Requests
<1>5. QuietNow
  BY <1>1, <1>2 DEF OneJob, Queued, UnderWayNow
<1>6. OneJob'
  BY <1>1, <1>2, <1>4, <1>5 DEF OneJob, QuietNow, Up
<1>7. RenderedOnce' /\ handler' <= spawned' /\ (spawned' = 0 => ~Up')
  BY <1>1, <1>2 DEF RenderedOnce, Reaped, Up
<1>8. ASSUME NEW next \in {"directing", "blocked", "watch", "boundary", "resumed"},
             NEW from \in {"start", "recover", "resume", "render"}, At(from),
             harness' = [harness EXCEPT !.pc = "calling", !.next = next]
      PROVE  /\ harness.verdict = "none" /\ fresh /\ harness'.verdict = "none"
             /\ harness'.pc = "calling" /\ Place = from /\ Place' = next
             /\ HarnessTyped'
  <2>1. harness.verdict = "none" /\ fresh
    BY <1>8, AtWork DEF At
  <2>2. harness'.verdict = "none" /\ harness'.pc = "calling" /\ harness'.next = next
    BY <1>2, <1>8, <2>1 DEF HarnessTyped
  <2>3. Place = from /\ Place' = next
    BY <1>8, <2>2 DEF Place, At
  <2>4. harness' \in Mains
    BY <1>2, <1>8 DEF HarnessTyped, Mains
  <2>5. HarnessTyped'
    BY <1>1, <1>2, <1>4, <2>2, <2>4 DEF HarnessTyped, At
  <2> QED
    BY <2>1, <2>2, <2>3, <2>5
<1>9. CASE CallStart
  <2>1. CASE At("start") /\ harness' = [harness EXCEPT !.pc = "calling", !.next = "directing"]
    <3>1. /\ harness.verdict = "none" /\ fresh /\ harness'.verdict = "none"
          /\ harness'.pc = "calling" /\ Place = "start" /\ Place' = "directing" /\ HarnessTyped'
      BY <1>8, <2>1
    <3>2. Placed'
      BY <1>1, <1>2, <3>1 DEF Placed, BeforeStop, AfterStop, AfterKill
    <3>3. CutShows' /\ Compared' /\ Verified'
      BY <3>1 DEF CutShows, Compared, Verified, Passed, AfterStop
    <3> QED
      BY <1>1, <1>6, <1>7, <3>1, <3>2, <3>3, GoesKeeps
  <2>2. CASE /\ At("recover") /\ StartGeneration(Harness, Job)
             /\ harness' = [harness EXCEPT !.pc = "calling", !.next = "boundary"]
    <3>1. /\ harness.verdict = "none" /\ fresh /\ harness'.verdict = "none"
          /\ harness'.pc = "calling" /\ Place = "recover" /\ Place' = "boundary" /\ HarnessTyped'
      BY <1>8, <2>2
    <3>2. Midway /\ mode = "real" /\ NeverRecovered
      BY <1>2, <3>1 DEF Placed, BeforeStop, AfterStop
    <3>3. \E b \in BOOLEAN : Asked(Harness, Job, "direction", b, "start")
      BY <2>2 DEF StartGeneration
    <3>4. request'[Harness].kind = "direction"
      BY <1>2, <3>3 DEF HarnessTyped, Asked
    <3>5. NeverRecovered'
      BY <1>1, <3>2, <3>4 DEF NeverRecovered, AllOf, Quiet
    <3>6. Placed'
      BY <1>1, <3>1, <3>2, <3>5 DEF Placed, Midway, AfterKill
    <3>7. CutShows' /\ Compared' /\ Verified'
      BY <3>1 DEF CutShows, Compared, Verified, Passed, AfterStop
    <3> QED
      BY <1>1, <1>6, <1>7, <3>1, <3>6, <3>7, GoesKeeps
  <2> QED
    BY <1>9, <2>1, <2>2 DEF CallStart, Call
<1>10. CASE CallResume
  <2>1. At("resume") /\ harness' = [harness EXCEPT !.pc = "calling", !.next = "resumed"]
    BY <1>10 DEF CallResume, Call
  <2>2. /\ harness.verdict = "none" /\ fresh /\ harness'.verdict = "none"
        /\ harness'.pc = "calling" /\ Place = "resume" /\ Place' = "resumed" /\ HarnessTyped'
    BY <1>8, <2>1
  <2>3. Placed'
    BY <1>1, <1>2, <2>2 DEF Placed, BeforeStop, AfterStop, AfterKill, Midway
  <2>4. CutShows'
    BY <1>1, <1>2, <2>2 DEF CutShows, AfterStop
  <2>5. Compared' /\ Verified'
    BY <2>2 DEF Compared, Verified, Passed
  <2> QED
    BY <1>1, <1>6, <1>7, <2>2, <2>3, <2>4, <2>5, GoesKeeps
<1>11. CASE CallRender
  <2> DEFINE next == IF stopped # {} THEN "resumed" ELSE IF mode = "fake" THEN "blocked" ELSE "watch"
  <2>1. /\ At("render") /\ harness' = [harness EXCEPT !.pc = "calling", !.next = next]
        /\ Asked(Harness, Job, "rendering", FALSE, "start")
    BY <1>11 DEF CallRender, Call, RenderApprovedScript
  <2>2. next \in {"blocked", "watch", "resumed"}
    OBVIOUS
  <2>3. /\ harness.verdict = "none" /\ fresh /\ harness'.verdict = "none"
        /\ harness'.pc = "calling" /\ Place = "render" /\ Place' = next /\ HarnessTyped'
    BY <1>8, <2>1, <2>2
  <2>4. stopped = {}
    BY <1>2, <2>3 DEF Placed, AfterStop, AfterKill
  <2>5. Place' = IF mode = "fake" THEN "blocked" ELSE "watch"
    BY <2>3, <2>4
  <2>6. request'[Harness].kind = "rendering"
    BY <1>2, <2>1 DEF HarnessTyped, Asked
  <2>7. AllOf("rendering")'
    BY <1>1, <1>5, <2>6 DEF AllOf, QuietNow, Quiet
  <2>8. Placed'
    BY <1>1, <1>2, <2>4, <2>5, <2>7 DEF Placed, BeforeStop, HarnessTyped
  <2>9. CutShows' /\ Compared' /\ Verified'
    BY <2>3, <2>5 DEF CutShows, Compared, Verified, Passed, AfterStop
  <2> QED
    BY <1>1, <1>6, <1>7, <2>3, <2>8, <2>9, GoesKeeps
<1> QED
  BY <1>9, <1>10, <1>11

(* The answer: the job waits, as what it was asked for.                    *)
LEMMA AnswerKeeps == ASSUME HarnessAssumption, HarnessInv, CallAnswered PROVE HarnessInv'
<1> USE HarnessAssumption DEF HarnessAssumption
<1>1. /\ UNCHANGED <<rows, running, stop, audio, renders, outputs, mode, sabotage, fresh,
                     stopped, evidence, handler, spawned>>
      /\ Up /\ At("calling") /\ Goes(harness.next) /\ request[Harness].pc = "start"
      /\ Enqueue(Harness)
  BY DEF CallAnswered, Enqueue, Process, workspace, arguments, signals
<1>2. /\ HarnessTyped /\ OneJob /\ Reaped /\ RenderedOnce /\ Placed /\ CutShows /\ Compared
      /\ Verified
  BY DEF HarnessInv
<1>3. harness.verdict = "none" /\ fresh
  BY <1>1, AtWork DEF At
<1>4. /\ request' = [request EXCEPT ![Harness] = NoRequest]
      /\ request' \in [Clients -> Requests]
      /\ request'[Harness].pc = "idle"
  BY <1>1, <1>2 DEF HarnessTyped, Enqueue, Ends, NoRequest, Kinds, Requests
<1>5. QuietNow /\ request[Harness].job = Job /\ ~Stopping
  BY <1>1, <1>2 DEF OneJob, Stopping, Up
<1> DEFINE e == [job |-> Job, kind |-> request[Harness].kind, recover |-> request[Harness].recover]
<1>6. chain' = <<e>> /\ status' = [status EXCEPT ![Job] = "queued"]
  BY <1>1, <1>5 DEF Enqueue, QuietNow
<1>7. request[Harness].kind \in Kinds /\ request[Harness].recover \in BOOLEAN
  BY <1>2 DEF HarnessTyped, Requests
<1>8. Queued'
  BY <1>1, <1>2, <1>5, <1>6, <1>7 DEF Queued, QuietNow, HarnessTyped
<1>9. OneJob'
  BY <1>1, <1>2, <1>4, <1>8 DEF OneJob, Up
<1>10. ASSUME NEW k, AllOf(k) PROVE AllOf(k)'
  BY <1>1, <1>4, <1>5, <1>6, <1>10 DEF AllOf, QuietNow, Quiet
<1>11. harness'.verdict = "none" /\ harness'.pc = harness.next /\ harness.next \notin {"over", "calling"}
       /\ Place' = Place
  BY <1>1, <1>2, <1>3 DEF HarnessTyped, Goes, Place, At, Mains
<1>12. HarnessTyped'
  <2>1. harness' \in Mains
    BY <1>1, <1>2 DEF HarnessTyped, Goes, BeforeStop, AfterStop, AfterKill, Mains
  <2> QED
    BY <1>1, <1>2, <1>4, <1>6, <1>11, <2>1 DEF HarnessTyped, At
<1>13. RenderedOnce' /\ handler' <= spawned' /\ (spawned' = 0 => ~Up')
  BY <1>1, <1>2 DEF RenderedOnce, Reaped, Up
<1>14. Placed'
  <2>1. NeverRecovered => NeverRecovered'
    BY <1>1, <1>10 DEF NeverRecovered
  <2> QED
    BY <1>1, <1>2, <1>3, <1>10, <1>11, <2>1 DEF Placed, Midway, Up
<1>15. CutShows'
  BY <1>1, <1>2, <1>3, <1>11 DEF CutShows
<1>16. Compared' /\ Verified'
  <2>1. Place \in {"directing", "blocked", "watch", "boundary", "resumed"}
    BY <1>1, <1>2 DEF Place, HarnessTyped, Mains
  <2> QED
    BY <1>11, <2>1 DEF Compared, Verified, Passed
<1> QED
  BY <1>1, <1>3, <1>9, <1>11, <1>12, <1>13, <1>14, <1>15, <1>16, GoesKeeps

(* A call or a check that fails.                                           *)
LEMMA FailsKeep == ASSUME HarnessInv, Fails PROVE HarnessInv'
<1>1. Reds /\ UNCHANGED <<rows, chain, status, running, request, stop>>
      /\ UNCHANGED <<arguments, signals, audio, renders, stopped, evidence>>
  BY DEF Fails, Queue, Process, workspace
<1>2. RenderedOnce'
  BY <1>1 DEF HarnessInv, RenderedOnce
<1> QED
  BY <1>1, <1>2, RedsKeep DEF HarnessInv, HarnessTyped

-----------------------------------------------------------------------------
(* The server comes and goes                                               *)

(* What a process that is gone, or new, has to do for the job.             *)
LEMMA FreshQuiet ==
  ASSUME HarnessAssumption, HarnessInv, Fresh, stop' \in {"no", "exited"}
  PROVE  /\ OneJob' /\ QuietNow' /\ request'[Harness] = NoRequest
         /\ \A k : AllOf(k)' /\ running'.pc # "work"
         /\ status' \in [Jobs -> {"idle", "queued", "running"}]
         /\ request' \in [Clients -> Requests]
  BY DEF HarnessAssumption, Fresh, OneJob, QuietNow, AllOf, Quiet, NoRequest, Kinds, Requests

(* The server is started: at first, and after it was killed.               *)
LEMMA SpawnKeeps == ASSUME HarnessAssumption, HarnessInv, Spawn PROVE HarnessInv'
<1>1. /\ At("spawn") /\ Fresh /\ stop' = "no" /\ spawned' = spawned + 1
      /\ Goes(IF stopped = {} THEN "start" ELSE "recover")
      /\ UNCHANGED <<rows, audio, renders, outputs, mode, sabotage, fresh, stopped, evidence, handler>>
  BY DEF Spawn, Restart, workspace, arguments
<1>2. HarnessTyped /\ OneJob /\ Reaped /\ RenderedOnce /\ Placed
  BY DEF HarnessInv
<1>3. harness.verdict = "none" /\ fresh /\ Place = "spawn"
  BY <1>1, AtWork, PlaceAt DEF At
<1>4. /\ OneJob' /\ QuietNow' /\ \A k : AllOf(k)' /\ running'.pc # "work"
      /\ status' \in [Jobs -> {"idle", "queued", "running"}]
      /\ request' \in [Clients -> Requests]
  BY <1>1, FreshQuiet
<1>5. /\ harness'.verdict = "none" /\ harness'.pc = (IF stopped = {} THEN "start" ELSE "recover")
      /\ Place' = harness'.pc
      /\ harness' \in Mains
  BY <1>1, <1>2, <1>3 DEF Goes, HarnessTyped, Place, At, BeforeStop, AfterKill, Mains
<1>6. spawned' \in Nat /\ handler' <= spawned' /\ spawned' # 0
  BY <1>1, <1>2 DEF HarnessTyped, Reaped
<1>7. HarnessTyped'
  BY <1>1, <1>2, <1>4, <1>5, <1>6 DEF HarnessTyped, At
<1>8. RenderedOnce'
  BY <1>1, <1>2 DEF RenderedOnce
<1>9. Placed'
  <2>1. CASE stopped = {}
    BY <1>1, <1>2, <1>3, <1>5, <2>1 DEF Placed, BeforeStop
  <2>2. CASE stopped # {}
    <3>1. Midway /\ mode = "real" /\ NeverRecovered
      BY <1>2, <1>3, <2>2 DEF Placed, AfterStop
    <3>2. NeverRecovered'
      BY <1>1, <1>4, <3>1 DEF NeverRecovered
    <3> QED
      BY <1>1, <1>5, <2>2, <3>1, <3>2 DEF Placed, Midway, AfterKill
  <2> QED
    BY <2>1, <2>2
<1>10. CutShows' /\ Compared' /\ Verified'
  BY <1>5 DEF CutShows, Compared, Verified, Passed, AfterStop
<1> QED
  BY <1>1, <1>3, <1>4, <1>5, <1>6, <1>7, <1>8, <1>9, <1>10, GoesKeeps

(* The server goes, by main's hand or the handler's.                       *)
LEMMA DyingKeeps ==
  ASSUME HarnessAssumption, HarnessInv, ServerDies,
         UNCHANGED <<audio, renders, outputs, mode, sabotage, fresh, stopped, evidence, harness, handler,
                     spawned>>
  PROVE  HarnessInv'
<1>1. UNCHANGED rows /\ stop' = "exited" /\ Fresh /\ ~Up'
  BY DEF ServerDies, Up
<1>2. /\ HarnessTyped /\ OneJob /\ Reaped /\ RenderedOnce /\ Placed /\ CutShows /\ Compared
      /\ Verified /\ Verdicts
  BY DEF HarnessInv
<1>3. /\ OneJob' /\ QuietNow' /\ \A k : AllOf(k)' /\ running'.pc # "work"
      /\ status' \in [Jobs -> {"idle", "queued", "running"}]
      /\ request' \in [Clients -> Requests]
  BY <1>1, FreshQuiet
<1>4. Place' = Place /\ \A pc : At(pc)' = At(pc)
  BY DEF Place, At
<1>5. HarnessTyped'
  BY <1>1, <1>2, <1>3 DEF HarnessTyped, At
<1>6. Verdicts' /\ Reaped' /\ RenderedOnce'
  BY <1>1, <1>2, <1>4 DEF Verdicts, Reaped, ServerReaped, RenderedOnce
<1>7. Placed'
  <2>1. NeverRecovered => NeverRecovered'
    BY <1>1, <1>3 DEF NeverRecovered
  <2> QED
    BY <1>1, <1>2, <1>3, <1>4, <2>1 DEF Placed, Midway
<1>8. CutShows' /\ Compared'
  BY <1>2, <1>4 DEF CutShows, Compared, Passed, Midway, Missing, Whole
<1>9. Verified'
  BY <1>2, <1>3, <1>4 DEF Verified, Passed, QuietNow
<1> QED
  BY <1>3, <1>5, <1>6, <1>7, <1>8, <1>9 DEF HarnessInv

(* The kill, which leaves the row as it was.                               *)
LEMMA KillKeeps == ASSUME HarnessAssumption, HarnessInv, Kill PROVE HarnessInv'
<1>1. /\ At("kill") /\ ServerDies /\ Goes("inspect")
      /\ UNCHANGED <<audio, renders, outputs, mode, sabotage, fresh, stopped, evidence, handler, spawned>>
  BY DEF Kill, workspace, arguments, signals
<1>2. UNCHANGED rows /\ stop' = "exited" /\ Fresh /\ ~Up'
  BY <1>1 DEF ServerDies, Up
<1>3. HarnessTyped /\ Reaped /\ RenderedOnce /\ Placed
  BY DEF HarnessInv
<1>4. harness.verdict = "none" /\ fresh /\ Place = "kill"
  BY <1>1, AtWork, PlaceAt DEF At
<1>5. /\ OneJob' /\ QuietNow' /\ \A k : AllOf(k)'
      /\ status' \in [Jobs -> {"idle", "queued", "running"}]
      /\ request' \in [Clients -> Requests]
  BY <1>2, FreshQuiet
<1>6. /\ harness'.verdict = "none" /\ harness'.pc = "inspect" /\ Place' = "inspect"
      /\ harness' \in Mains
  BY <1>1, <1>3, <1>4 DEF Goes, HarnessTyped, Place, At, BeforeStop, Mains
<1>7. HarnessTyped' /\ RenderedOnce' /\ handler' <= spawned'
  BY <1>1, <1>2, <1>3, <1>5, <1>6 DEF HarnessTyped, RenderedOnce, Reaped, At
<1>8. Placed'
  BY <1>1, <1>2, <1>3, <1>4, <1>5, <1>6 DEF Placed, BeforeStop, AfterStop, AfterKill
<1>9. CutShows' /\ Compared' /\ Verified'
  BY <1>6 DEF CutShows, Compared, Verified, Passed, AfterStop
<1> QED
  BY <1>1, <1>2, <1>4, <1>5, <1>6, <1>7, <1>8, <1>9, GoesKeeps

(* The end: the server is stopped before the proof is called green.        *)
LEMMA CleanupKeeps == ASSUME HarnessAssumption, HarnessInv, Cleanup PROVE HarnessInv'
<1>1. /\ At("cleanup") /\ ServerDies
      /\ harness' = [harness EXCEPT !.pc = "over",
                                    !.verdict = IF @ = "none" THEN "green" ELSE @]
      /\ UNCHANGED <<audio, renders, outputs, mode, sabotage, fresh, stopped, evidence, handler, spawned>>
  BY DEF Cleanup, workspace, arguments, signals
<1>2. UNCHANGED rows /\ stop' = "exited" /\ Fresh /\ ~Up'
  BY <1>1 DEF ServerDies, Up
<1>3. /\ HarnessTyped /\ Verdicts /\ Reaped /\ RenderedOnce /\ Compared /\ Verified
  BY DEF HarnessInv
<1>4. /\ OneJob' /\ QuietNow'
      /\ status' \in [Jobs -> {"idle", "queued", "running"}]
      /\ request' \in [Clients -> Requests]
  BY <1>2, FreshQuiet
<1>5. /\ harness'.verdict = (IF harness.verdict = "none" THEN "green" ELSE harness.verdict)
      /\ harness'.pc = "over" /\ harness'.verdict # "none" /\ Place = "cleanup" /\ Place' = "over"
      /\ harness' \in Mains
  BY <1>1, <1>3 DEF HarnessTyped, Place, At, Mains
<1>6. HarnessTyped' /\ RenderedOnce'
  BY <1>1, <1>2, <1>3, <1>4, <1>5 DEF HarnessTyped, RenderedOnce, At
<1>7. Verdicts' /\ Reaped'
  BY <1>1, <1>2, <1>3, <1>5 DEF Verdicts, Reaped, ServerReaped, At
<1>8. Placed' /\ CutShows'
  BY <1>5 DEF Placed, CutShows
<1>9. Passed({"verify", "evidence", "cleanup"})' => Passed({"verify", "evidence", "cleanup"})
  BY <1>5 DEF Passed
<1>10. Passed({"evidence", "cleanup"})' => Passed({"evidence", "cleanup"})
  BY <1>5 DEF Passed
<1>11. Compared'
  BY <1>1, <1>3, <1>9 DEF Compared, Midway, Missing, Whole
<1>12. Verified'
  BY <1>1, <1>3, <1>4, <1>5, <1>10 DEF Verified, QuietNow
<1> QED
  BY <1>4, <1>6, <1>7, <1>8, <1>11, <1>12 DEF HarnessInv

(* An interrupt, and the handler's two steps.                              *)
LEMMA HandlerKeeps ==
  ASSUME HarnessAssumption, HarnessInv, Interrupt \/ HandlerStops \/ HandlerExits
  PROVE  HarnessInv'
<1>1. /\ HarnessTyped /\ OneJob /\ Reaped /\ RenderedOnce /\ Placed /\ CutShows /\ Compared
      /\ Verified /\ Verdicts
  BY DEF HarnessInv
<1>2. CASE HandlerStops
  <2>1. UNCHANGED <<audio, renders, outputs, mode, sabotage, fresh, stopped, evidence, harness, handler,
                    spawned>> /\ ServerDies
    BY <1>2 DEF HandlerStops, workspace, arguments, proof, signals
  <2> QED
    BY <2>1, DyingKeeps
<1>3. CASE Interrupt
  <2>1. /\ UNCHANGED <<rows, chain, status, running, request, stop, audio, renders, outputs, mode,
                       sabotage, fresh, stopped, evidence, harness, spawned>>
        /\ ~At("over") /\ handler' = spawned
    BY <1>3 DEF Interrupt, vars, workspace, arguments, proof
  <2>2. Place' = Place /\ Up' = Up /\ \A pc : At(pc)' = At(pc)
    BY <2>1 DEF Place, At, Up
  <2>3. HarnessTyped' /\ OneJob' /\ Verdicts' /\ RenderedOnce'
    BY <1>1, <2>1, <2>2 DEF HarnessTyped, OneJob, QuietNow, Queued, UnderWayNow, Verdicts,
                            RenderedOnce
  <2>4. Reaped'
    BY <1>1, <2>1, <2>2 DEF Reaped, ServerReaped, HarnessTyped
  <2>5. Placed' /\ CutShows' /\ Compared' /\ Verified'
    BY <1>1, <2>1, <2>2 DEF Placed, NeverRecovered, AllOf, Midway, CutShows, Compared, Verified, Passed,
                            Missing, Whole, Quiet
  <2> QED
    BY <2>3, <2>4, <2>5 DEF HarnessInv
<1>4. CASE HandlerExits
  <2>1. /\ UNCHANGED <<rows, chain, status, running, request, stop, audio, renders, mode,
                       sabotage, fresh, stopped, evidence, handler, spawned>>
        /\ ~Held /\ harness' = [harness EXCEPT !.pc = "over", !.verdict = "interrupted"]
    BY <1>4 DEF HandlerExits, Unserved, vars, workspace, arguments, signals
  <2>2. /\ harness'.pc = "over" /\ harness'.verdict = "interrupted"
        /\ harness' \in Mains
    BY <1>1, <2>1 DEF HarnessTyped, Mains
  <2>3. HarnessTyped' /\ OneJob' /\ Verdicts' /\ RenderedOnce'
    BY <1>1, <2>1, <2>2 DEF HarnessTyped, OneJob, QuietNow, Queued, UnderWayNow, Verdicts,
                            RenderedOnce, At, Up
  <2>4. Reaped'
    <3>1. handler \in Nat /\ spawned \in Nat /\ handler <= spawned /\ (spawned = 0 => ~Up)
      BY <1>1 DEF HarnessTyped, Reaped
    <3>2. Up' = Up /\ (Up => handler # spawned)
      BY <2>1 DEF Held, Up
    <3>3. Up => handler < spawned
      BY <3>1, <3>2
    <3> QED
      BY <2>1, <2>2, <3>1, <3>2, <3>3 DEF Reaped, ServerReaped
  <2>5. Placed' /\ CutShows' /\ Compared' /\ Verified'
    BY <2>2 DEF Placed, CutShows, Compared, Verified, Passed
  <2> QED
    BY <2>3, <2>4, <2>5 DEF HarnessInv
<1> QED
  BY <1>2, <1>3, <1>4

-----------------------------------------------------------------------------
(* What follows                                                            *)

(* Every step of the harness and of its server keeps the invariant.        *)
LEMMA HarnessInvNext ==
  ASSUME HarnessAssumption PROVE HarnessInv /\ [HarnessNext]_proofVars => HarnessInv'
<1> SUFFICES ASSUME HarnessInv, [HarnessNext]_proofVars PROVE HarnessInv'
  OBVIOUS
<1>1. CASE UNCHANGED proofVars
  <2>1. UNCHANGED <<rows, chain, status, running, request, stop, audio, renders, outputs, mode, sabotage,
                    fresh, stopped, evidence, harness, handler, spawned>>
    BY <1>1 DEF proofVars, vars, workspace, arguments, proof, signals
  <2>2. Place' = Place /\ Up' = Up /\ \A pc : At(pc)' = At(pc)
    BY <2>1 DEF Place, At, Up
  <2>3. HarnessTyped' /\ OneJob' /\ Verdicts' /\ Reaped' /\ RenderedOnce'
    BY <2>1, <2>2 DEF HarnessInv, HarnessTyped, OneJob, QuietNow, Queued, UnderWayNow, Verdicts,
                      Reaped, ServerReaped, RenderedOnce
  <2>4. Placed' /\ CutShows' /\ Compared' /\ Verified'
    BY <2>1, <2>2 DEF HarnessInv, Placed, NeverRecovered, AllOf, Midway, CutShows, Compared, Verified,
                      Passed, Missing, Whole, Quiet
  <2> QED
    BY <2>3, <2>4 DEF HarnessInv
<1>2. CASE HarnessNext
  BY <1>2, ServerKeeps, PollsKeep, ReviewKeeps, InspectKeeps, CompareKeeps, VerifyKeeps, WriteKeeps,
     CallKeeps, AnswerKeeps, FailsKeep, SpawnKeeps, KillKeeps, CleanupKeeps, HandlerKeeps
     DEF HarnessNext, Main
<1> QED
  BY <1>1, <1>2

(* A green proof is earned, whatever befalls the server, the calls and the *)
(* harness itself: the render was stopped in its middle, what it had       *)
(* rendered was not rendered again, the rest was rendered once, and there  *)
(* is one output, in a workspace that was empty and was not sabotaged.  No *)
(* server is left behind but by an interrupt that comes while one is       *)
(* replaced.                                                               *)
THEOREM GreenIsEarned == ASSUME HarnessAssumption PROVE HarnessSpec => []ProofEarned
<1>1. HarnessInv => ProofEarned
  <2> SUFFICES ASSUME HarnessInv PROVE EvidenceEarned /\ ServerReaped
    BY DEF ProofEarned
  <2>1. ServerReaped
    BY DEF HarnessInv, Reaped
  <2>2. EvidenceEarned
    <3> SUFFICES ASSUME harness.verdict = "green"
                 PROVE  /\ fresh /\ sabotage = "none" /\ evidence.written
                        /\ evidence.reused # {} /\ evidence.rendered # {}
                        /\ evidence.reused \cup evidence.rendered = Segments
                        /\ \A s \in Segments : renders[s] = 1
                        /\ outputs = 1
      BY DEF EvidenceEarned
    <3>1. At("over") /\ fresh /\ Place = "over"
      BY DEF HarnessInv, Verdicts, At, Place
    <3>2. /\ Midway /\ sabotage # "truncate-segment"
          /\ evidence.reused = stopped /\ evidence.rendered = Segments \ stopped
          /\ \A s \in Segments : renders[s] = 1
      BY DEF HarnessInv, Compared, Passed
    <3>3. outputs = 1 /\ sabotage # "delete-output" /\ evidence.written
      BY <3>1 DEF HarnessInv, Verified, Passed
    <3>4. stopped \subseteq Segments /\ sabotage \in {"none", "truncate-segment", "delete-output"}
      BY DEF HarnessInv, HarnessTyped
    <3> QED
      BY <3>1, <3>2, <3>3, <3>4 DEF Midway
  <2> QED
    BY <2>1, <2>2
<1> QED
  BY <1>1, HarnessInvInit, HarnessInvNext, PTL DEF HarnessSpec

(* No proof of the real mode is green: the render that was killed is never *)
(* completed, for what is asked for in its name is a direction, which      *)
(* abandons it.  (KilledRenderRecovers has the same as a counterexample.)  *)
THEOREM RealNeverGreen ==
  ASSUME HarnessAssumption
  PROVE  HarnessSpec => [](mode = "real" => harness.verdict # "green")
<1>1. HarnessInv => (mode = "real" => harness.verdict # "green")
  BY DEF HarnessInv, Compared, Passed
<1> QED
  BY <1>1, HarnessInvInit, HarnessInvNext, PTL DEF HarnessSpec
=============================================================================
