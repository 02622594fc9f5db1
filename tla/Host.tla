--------------------------------- MODULE Host ---------------------------------
(***************************************************************************)
(* Processes on one host: those that share its GPU, and commands of the    *)
(* benchmark for one experiment.  The two have nothing but the host in     *)
(* common, and a behaviour is one of either.                               *)
(***************************************************************************)
EXTENDS GpuHandover

CONSTANTS
  Parts,                                  \* which of the two, or others that leave both alone
  Commands, Plans, NumRuns, Completions,  \* of BenchmarkExperiment
  BenchmarkFaults                         \* its bound on faults

\* No command is called as the free lock is
ASSUME CommandsAssumption == Nobody \notin Commands /\ NumRuns \in Nat

VARIABLES files, litter, locked, owner, server, cmd, told, asked, lapsed, faults

VARIABLE part

Experiment == INSTANCE BenchmarkExperiment WITH
  RunCount <- NumRuns, MaxFaults <- BenchmarkFaults, lock <- locked

experimentVars == <<files, litter, locked, owner, server, cmd, told, asked, lapsed, faults>>

hostVars == <<part, vars, experimentVars>>

HostInit == part \in Parts /\ Init /\ Experiment!Init

HostNext ==
  \/ part = "gpu" /\ Next /\ UNCHANGED <<part, experimentVars>>
  \/ part = "experiment" /\ Experiment!Next /\ UNCHANGED <<part, vars>>

HostSpec == HostInit /\ [][HostNext]_hostVars

(* A verdict stands on the evidence that is on disk, whoever is killed     *)
(* when; and no run is asked for twice while no lock holder is killed.     *)
EvidenceKept == Experiment!EvidenceStands /\ Experiment!NoRunRepeated

(* Nothing that was written is changed, and it keeps its name.             *)
ArtifactsStand == Experiment!ArtifactsStand
=============================================================================
