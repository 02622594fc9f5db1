------------------------------ MODULE MCProcesses -------------------------------
(***************************************************************************)
(* What processes owe each other and their users: two processes that share *)
(* the GPU of a Mac, one directing and then speaking, the other speaking;  *)
(* the work of one web process; and a web process that is driven, stopped  *)
(* or killed, and resumed by the acceptance harness.  A behaviour is one   *)
(* of these.                                                               *)
(***************************************************************************)
EXTENDS ProofHarness, TLC

CONSTANTS
  Parts,        \* which of them
  h1, h2, g1, q1, q2, Nobody

VARIABLE part

VARIABLES up, stopping, lock, marker, lease, director, batch

Gpu == INSTANCE GpuHandover WITH
  Hosts <- {h1, h2}, Directors <- {g1}, Batches <- {q1, q2},
  HostOf <- (g1 :> h1) @@ (q1 :> h1) @@ (q2 :> h2),
  Platform <- "darwin", Faults <- TRUE, Crashes <- FALSE

gpuVars == <<up, stopping, lock, marker, lease, director, batch>>

harnessVars == <<arguments, workspace, proof, signals>>

allVars == <<part, gpuVars, proofVars>>

NoHarness ==
  /\ mode = "fake" /\ sabotage = "none" /\ fresh = TRUE /\ audio = <<>> /\ renders = <<>>
  /\ blocked = {} /\ outputs = 0 /\ harness = Unstarted /\ stopped = {} /\ evidence = NoEvidence
  /\ handler = 0 /\ spawned = 0

MCInit ==
  /\ part \in Parts /\ Gpu!Init
  /\ IF part = "proof" THEN HarnessInit ELSE Init /\ NoHarness

MCNext ==
  \/ part = "gpu" /\ Gpu!Next /\ UNCHANGED <<part, proofVars>>
  \/ part = "queue" /\ Next /\ UNCHANGED <<part, gpuVars, harnessVars>>
  \/ part = "proof" /\ HarnessNext /\ UNCHANGED <<part, gpuVars>>

\* The fairness of the three specifications
MCSpec ==
  /\ MCInit /\ [][MCNext]_allVars
  /\ \A u \in Gpu!Users : WF_gpuVars(part = "gpu" /\ Gpu!Acquire(u))
  /\ WF_gpuVars(part = "gpu" /\ Gpu!DirectOver(g1)) /\ WF_gpuVars(part = "gpu" /\ Gpu!Release(g1))
  /\ WF_gpuVars(part = "gpu" /\ Gpu!Cleanup(g1))
  /\ \A q \in {q1, q2} :
       /\ WF_gpuVars(part = "gpu" /\ Gpu!BatchRefused(q))
       /\ WF_gpuVars(part = "gpu" /\ Gpu!StartWorker(q))
       /\ WF_gpuVars(part = "gpu" /\ Gpu!EndBatch(q))
       /\ WF_gpuVars(part = "gpu" /\ batch[q].pc = "stopping" /\ Gpu!WorkerExits(q))
  /\ WF_vars(part = "queue" /\ Execute) /\ WF_vars(part = "queue" /\ Drain)
  /\ WF_proofVars(part = "proof" /\ Main) /\ WF_proofVars(part = "proof" /\ Serves)

(* Every released director and stopped batch comes to an end, every stop   *)
(* of the web process ends, and what it accepted is over some day, with    *)
(* models that are stuck and operations that fail; and the harness ends,   *)
(* whatever becomes of its job.  (The two jobs are alike: one is watched.) *)
EverythingSettles ==
  /\ part = "gpu" => Gpu!EveryReleaseSettles
  /\ part = "queue" => StopEnds /\ Accepted(Job)
  /\ part = "proof" => HarnessEnds
=============================================================================
