------------------------------ MODULE SpeechBatch ------------------------------
(***************************************************************************)
(* Batches of QwenTtsSpeechEngine, one after the other on one output       *)
(* directory: a Python worker speaks one segment at a time and puts its    *)
(* WAV in place, the engine then writes the manifest that makes it         *)
(* reusable.  A take whose audio is unhealthy ends its worker, and is      *)
(* tried again with another seed in a new one.  An engine is made once in  *)
(* a process, from what is installed then, and names it in what it makes;  *)
(* each worker of it compares that with what it finds.                     *)
(*                                                                         *)
(* A WAV's bytes are determined by what is spoken, the seed, and what      *)
(* speaks.  Lines the worker wrote before it died can still be read.  What *)
(* is installed does not change while a worker compares and loads it, and  *)
(* the interpreter's own bytes, which nobody compares again, not at all.   *)
(*                                                                         *)
(* A toolchain is its configuration, locked (what the code names) or not,  *)
(* the worker's script, the packages its runtime manifest lists, 0 if they *)
(* are not the locked imports, the packages that are there, and its model, *)
(* locked (the files the model lock names) or not.                         *)
(***************************************************************************)
EXTENDS Naturals, FiniteSets

CONSTANTS
  Segments,
  Identities,   \* what a segment is to be: text, voice, delivery, model, settings
  Scripts,      \* what a batch may be asked for: an identity for each segment
  MaxAttempts,  \* MAX_SEED_ATTEMPTS
  Toolchains,   \* what may be installed
  MaxFaults     \* bound on crashes, dying workers, failed calls, damaged and replaced files

VARIABLES
  wav,       \* <segment>.wav: what it speaks, none if it is not there or damaged
  manifest,  \* <segment>.render.json: the identity it names and the hash it claims
  installed, \* the toolchain on disk
  engine,    \* the one the process made its engine of, none before
  leased,    \* the GPU lease
  worker,    \* processes
  batch,     \* the engine's: where it is, whom it talks to, what it is asked for
  aborted,   \* the caller's signal
  returned,  \* ghost: the takes handed to the caller in this batch
  faults

vars == <<wav, manifest, installed, engine, leased, worker, batch, aborted, returned, faults>>

WorkerIds == {1, 2}

\* validateConfig: every setting is the one the code names
Locked(t) == t.config = "locked"

\* loadWorkerRuntimeIdentity: what an engine says will speak
Named(t) == [worker |-> t.worker, packages |-> t.lists, model |-> "locked"]

\* What does
Voiced(t) == [worker |-> t.worker, packages |-> t.packages, model |-> t.model]

Nobody == [worker |-> 0, packages |-> 0, model |-> "none"]

Engines == {Named(t) : t \in {t \in Toolchains : t.lists # 0}}

Takes ==
  [of : Identities, seed : 1..MaxAttempts,
   by : Engines \cup {Voiced(t) : t \in Toolchains}]

None == [of |-> "none", seed |-> 0, by |-> Nobody]

Dead == [doing |-> "dead", by |-> Nobody, segment |-> "none", take |-> None, mail |-> "none",
         told |-> FALSE]

NoBatch == [pc |-> "idle", current |-> 1, wanted |-> [s \in Segments |-> "none"],
            segment |-> "none", attempt |-> 1, heard |-> None, then |-> "end"]

Nothing == [s \in Segments |-> None]

Init ==
  /\ wav = [s \in Segments |-> None]
  /\ manifest = [s \in Segments |-> [names |-> None, hash |-> None]]
  /\ installed \in Toolchains /\ engine = Nobody
  /\ leased = FALSE /\ worker = [k \in WorkerIds |-> Dead] /\ batch = NoBatch
  /\ aborted = FALSE /\ returned = Nothing /\ faults = 0

Files == <<wav, manifest>>

Tools == <<installed, engine>>

Fault == faults < MaxFaults /\ faults' = faults + 1

At(pc) == batch.pc = pc

Goes(pc) == batch' = [batch EXCEPT !.pc = pc]

Current == worker[batch.current]

Alive(k) == worker[k].doing # "dead"

Ended(k) ==
  [Dead EXCEPT !.mail = worker[k].mail,
               !.take = IF worker[k].mail = "rendered" THEN worker[k].take ELSE None]

Wanted == [of |-> batch.wanted[batch.segment], seed |-> batch.attempt, by |-> engine]

\* SIGTERM to the process group, and SIGKILL after the grace period
Terminated == [worker EXCEPT ![batch.current].told = Alive(batch.current)]

\* abort(): the exit is awaited in the "stopping" state
Stops(then) ==
  /\ worker' = [Terminated EXCEPT ![batch.current].mail = "none"]
  /\ batch' = [batch EXCEPT !.pc = "stopping", !.then = then]

-----------------------------------------------------------------------------
(* The worker                                                              *)

Works(k, w) ==
  /\ worker' = [worker EXCEPT ![k] = w]
  /\ UNCHANGED <<manifest, Tools, leased, batch, aborted, returned>>

\* validate_production_config, and the hashes that came with begin-batch
SameLocks == Locked(installed) /\ Named(installed) = engine

\* validate_runtime: the manifest lists what is there
Fits == installed.packages = installed.lists

\* validate_snapshot
Intact == installed.model = "locked"

Vetted == SameLocks /\ Fits /\ Intact

\* An exception in run(), before the model is loaded
Refuse(k) ==
  /\ worker[k].doing = "loading" /\ ~Vetted
  /\ Works(k, Ended(k))
  /\ UNCHANGED <<wav, faults>>

\* write_wav_atomic: healthy audio is renamed into place, the rest ends the worker
Speak(k) ==
  /\ worker[k].doing = "speaking"
  /\ \/ /\ wav' = [wav EXCEPT ![worker[k].segment] = worker[k].take]
        /\ Works(k, [worker[k] EXCEPT !.doing = "written"])
     \/ Works(k, [Dead EXCEPT !.mail = "gate"]) /\ UNCHANGED wav
  /\ UNCHANGED faults

Report(k) ==
  /\ worker[k].doing = "written"
  /\ Works(k, [worker[k] EXCEPT !.doing = "waiting", !.mail = "rendered"])
  /\ UNCHANGED <<wav, faults>>

\* After end-batch the worker frees the GPU and exits
Exit(k) ==
  /\ worker[k].doing = "ending"
  /\ Works(k, Ended(k))
  /\ UNCHANGED <<wav, faults>>

\* By the signal, wherever it is
Killed(k) ==
  /\ Alive(k) /\ worker[k].told
  /\ Works(k, Ended(k))
  /\ UNCHANGED <<wav, faults>>

\* Out of memory, a fault in the model, a drifted runtime: whatever it was doing
Dies(k) ==
  /\ Alive(k) /\ Fault
  /\ Works(k, Ended(k))
  /\ UNCHANGED wav

-----------------------------------------------------------------------------
(* The engine                                                              *)

Engine == UNCHANGED <<Files, Tools, aborted, returned, faults>>

\* QwenTtsSpeechEngine.create: it reads the configuration and the manifest, not the model
Create ==
  /\ At("idle") /\ engine = Nobody
  /\ Locked(installed) /\ installed.lists # 0
  /\ engine' = Named(installed)
  /\ UNCHANGED <<Files, installed, leased, worker, batch, aborted, returned, faults>>

\* The process ends, between batches
Leave ==
  /\ At("idle") /\ engine # Nobody
  /\ engine' = Nobody
  /\ UNCHANGED <<Files, installed, leased, worker, batch, aborted, returned, faults>>

\* beginManagedBatch, under the lease
Begin(wanted) ==
  /\ At("idle") /\ engine # Nobody /\ ~leased
  /\ leased' = TRUE
  /\ batch' = [NoBatch EXCEPT !.pc = "starting", !.wanted = wanted]
  /\ UNCHANGED <<Files, Tools, worker, aborted, returned, faults>>

\* A session that starts aborted terminates its process at once
Start ==
  /\ At("starting")
  /\ \E k \in WorkerIds :
       /\ ~Alive(k) /\ \A j \in 1..(k - 1) : Alive(j)
       /\ worker' = [worker EXCEPT ![k] = [Dead EXCEPT !.doing = "loading", !.told = aborted]]
       /\ batch' = [batch EXCEPT !.pc = "loading", !.current = k]
  /\ UNCHANGED leased /\ Engine

\* Mutant: the worker loads what it finds
LoadedUnvetted ==
  /\ At("loading") /\ Current.doing = "loading" /\ ~Current.told
  /\ worker' = [worker EXCEPT ![batch.current].doing = "waiting", ![batch.current].by = Voiced(installed)]
  /\ Goes(IF batch.segment = "none" THEN "ready" ELSE "send")
  /\ UNCHANGED leased /\ Engine

\* begin-batch up to model-loaded
Loaded ==
  /\ At("loading") /\ Current.doing = "loading" /\ ~Current.told /\ Vetted
  /\ worker' = [worker EXCEPT ![batch.current].doing = "waiting", ![batch.current].by = Voiced(installed)]
  /\ Goes(IF batch.segment = "none" THEN "ready" ELSE "send")
  /\ UNCHANGED leased /\ Engine

\* Mutant: only the first seed's identity is looked for
ReusableFirst(s) ==
  /\ manifest[s].names = [of |-> batch.wanted[s], seed |-> 1, by |-> engine]
  /\ manifest[s].hash = wav[s] /\ wav[s] # None

\* tryReuse: any seed of the family, and the bytes that are there
Reusable(s) ==
  /\ manifest[s].names.of = batch.wanted[s] /\ manifest[s].names.by = engine
  /\ manifest[s].hash = wav[s] /\ wav[s] # None

Render(s) ==
  /\ At("ready") /\ returned[s] = None
  /\ IF Reusable(s) THEN returned' = [returned EXCEPT ![s] = wav[s]] /\ UNCHANGED batch
     ELSE /\ batch' = [batch EXCEPT !.pc = "send", !.segment = s, !.attempt = 1]
          /\ UNCHANGED returned
  /\ UNCHANGED <<Files, Tools, leased, worker, aborted, faults>>

\* What the worker speaks is its own; the engine's name for it is Wanted
Send ==
  /\ At("send")
  /\ IF aborted \/ ~Alive(batch.current) THEN Stops("end")
     ELSE /\ worker' = [worker EXCEPT ![batch.current] =
                          [@ EXCEPT !.doing = "speaking", !.segment = batch.segment,
                                    !.take = [Wanted EXCEPT !.by = Current.by], !.mail = "none"]]
          /\ Goes("hearing")
  /\ UNCHANGED leased /\ Engine

HearRendered ==
  /\ At("hearing") /\ Current.mail = "rendered"
  /\ batch' = [batch EXCEPT !.pc = "recording", !.heard = Current.take]
  /\ UNCHANGED <<leased, worker>> /\ Engine

\* recordRendered: the file has the hash that was reported
Record ==
  /\ At("recording")
  /\ IF wav[batch.segment] = batch.heard
     THEN /\ manifest' = [manifest EXCEPT ![batch.segment] = [names |-> Wanted, hash |-> wav[batch.segment]]]
          /\ returned' = [returned EXCEPT ![batch.segment] = wav[batch.segment]]
          /\ batch' = [batch EXCEPT !.pc = "ready", !.segment = "none", !.heard = None]
          /\ UNCHANGED worker
     ELSE Stops("end") /\ UNCHANGED <<manifest, returned>>
  /\ UNCHANGED <<wav, Tools, leased, aborted, faults>>

\* The health gate's own message, and nothing else, allows another seed
HearGate ==
  /\ At("hearing") /\ Current.mail = "gate"
  /\ Stops(IF ~aborted /\ batch.attempt < MaxAttempts THEN "retry" ELSE "end")
  /\ UNCHANGED leased /\ Engine

\* The worker is gone, or an event was not the one expected
HearEnd ==
  /\ batch.pc \in {"loading", "hearing"} /\ Current.doing = "dead" /\ Current.mail = "none"
  /\ Stops("end")
  /\ UNCHANGED leased /\ Engine

\* A progress callback throws, the disk fails, a protocol line is wrong
Throws ==
  /\ batch.pc \in {"loading", "ready", "hearing", "recording", "ending"} /\ Fault
  /\ Stops("end")
  /\ UNCHANGED <<Files, Tools, leased, aborted, returned>>

Retry ==
  /\ At("stopping") /\ batch.then = "retry" /\ ~Alive(batch.current)
  /\ IF aborted THEN Stops("end")
     ELSE batch' = [batch EXCEPT !.pc = "starting", !.attempt = @ + 1] /\ UNCHANGED worker
  /\ UNCHANGED leased /\ Engine

\* end(): a cancelled batch's worker is not asked to finish
End ==
  /\ At("ready")
  /\ IF aborted \/ ~Alive(batch.current) THEN Stops("end")
     ELSE /\ worker' = [worker EXCEPT ![batch.current].doing = "ending"]
          /\ Goes("ending")
  /\ UNCHANGED leased /\ Engine

\* Mutant: the lease is released when the worker has been told to go
FreeAtOnce ==
  /\ batch.pc \in {"stopping", "ending"} /\ (At("stopping") => batch.then = "end")
  /\ leased' = FALSE /\ batch' = NoBatch /\ aborted' = FALSE /\ returned' = Nothing
  /\ UNCHANGED <<Files, Tools, worker, faults>>

\* The worker's exit is awaited, then the lease is released
Free ==
  /\ batch.pc \in {"stopping", "ending"} /\ (At("stopping") => batch.then = "end")
  /\ ~Alive(batch.current)
  /\ leased' = FALSE /\ batch' = NoBatch /\ aborted' = FALSE /\ returned' = Nothing
  /\ UNCHANGED <<Files, Tools, worker, faults>>

\* The session listens to the signal
Cancel ==
  /\ ~At("idle") /\ ~aborted
  /\ aborted' = TRUE /\ worker' = Terminated
  /\ UNCHANGED <<Files, Tools, leased, batch, returned, faults>>

\* The process dies: the kernel frees the lease and ends the worker bound to it
Crash ==
  /\ ~At("idle") /\ Fault
  /\ leased' = FALSE /\ batch' = NoBatch /\ aborted' = FALSE /\ returned' = Nothing
  /\ worker' = [k \in WorkerIds |-> Dead] /\ engine' = Nobody
  /\ UNCHANGED <<Files, installed>>

\* Between batches a file is lost or damaged
Damage(s) ==
  /\ At("idle") /\ Fault
  /\ \/ wav' = [wav EXCEPT ![s] = None] /\ UNCHANGED manifest
     \/ manifest' = [manifest EXCEPT ![s] = [names |-> None, hash |-> None]] /\ UNCHANGED wav
  /\ UNCHANGED <<Tools, leased, worker, batch, aborted, returned>>

\* Somebody upgrades the packages, edits the configuration, replaces the model
Install(t) ==
  /\ t # installed /\ Fault /\ \A k \in WorkerIds : worker[k].doing # "loading"
  /\ installed' = t
  /\ UNCHANGED <<Files, engine, leased, worker, batch, aborted, returned>>

Own ==
  \/ Start \/ Send \/ HearRendered \/ Record \/ HearGate \/ HearEnd \/ Retry \/ End \/ Free

Next ==
  \/ Create \/ Leave \/ Own \/ Loaded \/ Throws \/ Cancel \/ Crash
  \/ \E t \in Toolchains : Install(t)
  \/ \E wanted \in Scripts : Begin(wanted)
  \/ \E s \in Segments : Render(s) \/ Damage(s)
  \/ \E k \in WorkerIds : Refuse(k) \/ Speak(k) \/ Report(k) \/ Exit(k) \/ Killed(k) \/ Dies(k)

\* The caller ends what it began; a worker that was sent SIGKILL goes; nothing else is promised
Fairness == WF_vars(Own) /\ \A k \in WorkerIds : WF_vars(Killed(k))

Spec == Init /\ [][Next]_vars /\ Fairness

-----------------------------------------------------------------------------

TypeOK ==
  /\ wav \in [Segments -> Takes \cup {None}]
  /\ \A s \in Segments : manifest[s].names \in Takes \cup {None}
  /\ batch.attempt \in 1..MaxAttempts /\ leased \in BOOLEAN
  /\ installed \in Toolchains /\ engine \in Engines \cup {Nobody}
  /\ \A k \in WorkerIds : worker[k].take \in Takes \cup {None}

(* One worker lives at a time, and only under the lease: through retries   *)
(* with other seeds, cancellations and failures, of any step.              *)
OneWorker ==
  /\ Cardinality({k \in WorkerIds : Alive(k)}) <= 1
  /\ ~leased => \A k \in WorkerIds : ~Alive(k)

(* What a batch returned is on disk, speaks what the caller asked for, was *)
(* made by what the engine says made it, whatever was installed meanwhile, *)
(* and has a manifest that makes the next batch reuse it.                  *)
ReturnedStands ==
  ~At("idle") => \A s \in Segments : returned[s] # None =>
    /\ wav[s] = returned[s] /\ returned[s].of = batch.wanted[s] /\ returned[s].by = engine
    /\ manifest[s] = [names |-> wav[s], hash |-> wav[s]]

(* Audio that can be reused is not spoken again or replaced, whatever seed *)
(* it took and however the batch that made it ended.                       *)
SpokenOnce ==
  [][\A s \in Segments : wav'[s] # wav[s] /\ ~At("idle") =>
       \/ manifest[s].names.of # batch.wanted[s] \/ manifest[s].names.by # engine
       \/ manifest[s].hash # wav[s] \/ wav[s] = None]_vars

(* A cancelled batch ends, though the worker hangs.                        *)
CancelEnds == aborted ~> At("idle")
=============================================================================
