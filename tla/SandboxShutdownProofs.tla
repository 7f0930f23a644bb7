----------------------- MODULE SandboxShutdownProofs -----------------------
(***************************************************************************)
(* Theorems about SandboxShutdown, for any number of generations, units of *)
(* work and restarts.                                                      *)
(***************************************************************************)
EXTENDS SandboxShutdown, TLAPS

(***************************************************************************)
(* The type invariant.  What the shared effects of the coordinator yield:  *)
(***************************************************************************)
LEMMA FailedType ==
  ASSUME NEW r \in Records, NEW phase \in Phases, NEW capFail \in BOOLEAN
  PROVE  Failed(r, phase, capFail) \in Records
BY DEF Failed, Records

LEMMA ReleasedType == ASSUME NEW r \in Records PROVE Released(r) \in Records
BY DEF Released, Records

LEMMA StoppedType == ASSUME src \in Sources, NEW g PROVE Stopped(g) \in Sources
BY DEF Stopped, Sources

LEMMA FencedType == ASSUME row \in Rows PROVE Fenced \in Rows
BY DEF Fenced, Rows

LEMMA CaptureType ==
  ASSUME TypeOK, NEW r \in Records, NEW late, Capture(r, late)
  PROVE  rec' \in Records /\ cp' \in Memory /\ asks' \in SUBSET Requests
<1>1. CASE r.handle = 0 \/ late
  BY <1>1, FailedType DEF Capture, TypeOK, Phases
<1>2. CASE ~(r.handle = 0 \/ late)
  <2>1. rec' \in Records
    BY <1>2 DEF Capture, Records, Phases
  <2>2. cp' \in Memory
    BY <1>2 DEF Capture, Records, Memory, TypeOK
  <2>3. r.handle \in Gens
    BY <1>2, BoundsAssumption DEF Records, Gens
  <2>4. [gen |-> r.handle, kind |-> "shutdown", low |-> src[r.handle].work] \in Requests
    BY <2>3 DEF Requests, Kinds, Sources, TypeOK
  <2> QED BY <1>2, <2>1, <2>2, <2>4 DEF Capture, TypeOK
<1> QED BY <1>1, <1>2

LEMMA RetireType ==
  ASSUME TypeOK, NEW r \in Records, NEW c \in Memory, Retire(r, c)
  PROVE  rec' \in Records /\ cp' \in Memory
<1>1. [c EXCEPT !.retire = r.gen] \in Memory
  BY DEF Memory, Records
<1> QED BY <1>1, FailedType DEF Retire, Phases

LEMMA FinishType ==
  ASSUME TypeOK, NEW r \in Records, Finish(r)
  PROVE  rec' \in Records /\ row' \in Rows
<1>1. [r EXCEPT !.phase = "saved", !.retired = TRUE] \in Records
  BY DEF Records, Phases
<1>2. [row EXCEPT !.status = "stopped"] \in Rows
  BY DEF Rows, TypeOK
<1> QED BY <1>1, <1>2 DEF Finish

LEMMA BlankType ==
  ASSUME NEW phase \in Phases, NEW g \in 0..MaxGens, NEW retired \in BOOLEAN,
         NEW receipt \in [gen: 0..MaxGens, work: 0..MaxWork, shutdown: BOOLEAN]
  PROVE  Blank(phase, g, retired, receipt) \in Records
BY BoundsAssumption DEF Blank, Records

LEMMA IdleType == Idle \in Memory
BY BoundsAssumption DEF Idle, Memory

LEMMA NoReceiptType ==
  NoReceipt \in [gen: 0..MaxGens, work: 0..MaxWork, shutdown: BOOLEAN]
BY BoundsAssumption DEF NoReceipt

LEMMA ReserveType ==
  ASSUME TypeOK, NEW restores \in BOOLEAN, rec.gen < MaxGens, Reserve(restores)
  PROVE  /\ rec' \in Records /\ row' \in Rows /\ cp' \in Memory
         /\ due' \in SUBSET Deadlines /\ processing' \in BOOLEAN
         /\ user' \in [interrupted: BOOLEAN, chose: BOOLEAN]
<1> DEFINE restoring == /\ rec.receipt.gen # 0
                        /\ rec.phase = "saved" \/ (rec.phase = "restoring" /\ ~rec.invoked)
           phase == IF restoring THEN "restoring" ELSE "running"
<1>1. rec.gen + 1 \in 0..MaxGens
  BY BoundsAssumption DEF TypeOK, Records
<1>2. phase \in Phases
  BY DEF Phases
<1>3. rec' = Blank(phase, rec.gen + 1, rec.retired \/ rec.phase = "saved", rec.receipt)
  BY DEF Reserve
<1>4. (rec.retired \/ rec.phase = "saved") \in BOOLEAN
  OBVIOUS
<1>5. rec.receipt \in [gen: 0..MaxGens, work: 0..MaxWork, shutdown: BOOLEAN]
  BY DEF TypeOK, Records
<1>6. rec' \in Records
  <2> HIDE DEF phase
  <2> QED BY <1>1, <1>2, <1>3, <1>4, <1>5, BlankType
<1>7. row' \in Rows
  BY DEF Reserve, TypeOK, Rows
<1>8. cp' \in Memory
  <2>1. PICK a \in {0, rec.gen + 1} :
          cp' = [cp EXCEPT !.start = rec.gen + 1, !.asked = FALSE, !.restores = restores,
                           !.active = a]
    BY DEF Reserve
  <2>2. a \in 0..MaxGens
    BY <1>1, BoundsAssumption
  <2> QED BY <1>1, <2>1, <2>2 DEF TypeOK, Memory
<1>9. user' \in [interrupted: BOOLEAN, chose: BOOLEAN]
  BY DEF Reserve, TypeOK
<1> QED BY <1>6, <1>7, <1>8, <1>9 DEF Reserve

-----------------------------------------------------------------------------
(***************************************************************************)
(* and what the steps do to the types.                                     *)
(***************************************************************************)
LEMMA EndedStartType ==
  ASSUME cp \in Memory PROVE [cp EXCEPT !.start = 0, !.asked = FALSE] \in Memory
<1>1. 0 \in 0..MaxGens
  BY BoundsAssumption
<1> QED BY <1>1 DEF Memory

LEMMA WatchType ==
  ASSUME cp \in Memory, NEW g \in 0..MaxGens, NEW h \in 0..MaxGens
  PROVE  [cp EXCEPT !.ckpt = g, !.watch = "saving", !.watchOf = h] \in Memory
BY DEF Memory

LEMMA EndedWatchType ==
  ASSUME cp \in Memory PROVE [cp EXCEPT !.watch = "idle", !.watchOf = 0] \in Memory
<1>1. 0 \in 0..MaxGens
  BY BoundsAssumption
<1> QED BY <1>1 DEF Memory

LEMMA RuntimeTypes ==
  ASSUME TypeOK,
         \/ Dispatch \/ RefusedExit \/ RuntimeReady \/ GenerationReady
         \/ \E g \in Gens : Work(g) \/ Quiesce(g) \/ ProviderCreates(g)
  PROVE  TypeOK'
<1>1. CASE Dispatch
  <2>1. src' \in Sources
    BY <1>1 DEF Dispatch, TypeOK, Sources
  <2> QED BY <1>1, <2>1 DEF Dispatch, TypeOK
<1>2. CASE RefusedExit
  BY <1>2, StoppedType DEF RefusedExit, TypeOK
<1>3. CASE RuntimeReady
  <2>1. rec' \in Records
    BY <1>3 DEF RuntimeReady, TypeOK, Records
  <2>2. row' \in Rows
    BY <1>3 DEF RuntimeReady, TypeOK, Rows
  <2> QED BY <1>3, <2>1, <2>2 DEF RuntimeReady, TypeOK
<1>4. CASE GenerationReady
  <2>1. rec' \in Records
    BY <1>4 DEF GenerationReady, TypeOK, Records
  <2> QED BY <1>4, <2>1 DEF GenerationReady, TypeOK
<1>5. ASSUME NEW g \in Gens, Work(g) PROVE TypeOK'
  <2>1. src' \in Sources
    BY <1>5, BoundsAssumption DEF Work, TypeOK, Sources
  <2> QED BY <1>5, <2>1 DEF Work, TypeOK
<1>6. ASSUME NEW g \in Gens, Quiesce(g) PROVE TypeOK'
  <2>1. src' \in Sources
    BY <1>6 DEF Quiesce, TypeOK, Sources
  <2> QED BY <1>6, <2>1 DEF Quiesce, TypeOK
<1>7. ASSUME NEW g \in Gens, ProviderCreates(g) PROVE TypeOK'
  <2> DEFINE w == IF rec.receipt.gen # 0 THEN rec.receipt.work ELSE 0
  <2>1. w \in 0..MaxWork
    BY BoundsAssumption DEF TypeOK, Records
  <2>2. src' = [src EXCEPT ![g].alive = TRUE, ![g].work = w]
    BY <1>7 DEF ProviderCreates
  <2>3. src' \in Sources
    <3> HIDE DEF w
    <3> QED BY <2>1, <2>2 DEF TypeOK, Sources
  <2> QED BY <1>7, <2>3 DEF ProviderCreates, TypeOK
<1> QED BY <1>1, <1>2, <1>3, <1>4, <1>5, <1>6, <1>7

LEMMA StartTypes ==
  ASSUME TypeOK, Spawn \/ InvokeProvider \/ ProviderAnswers \/ StartFails \/ BootFails
  PROVE  TypeOK'
<1>1. CASE Spawn
  <2>1. ASSUME NEW restores \in BOOLEAN, Reserve(restores), src' \in Sources PROVE TypeOK'
    BY <1>1, <2>1, ReserveType DEF Spawn, TypeOK
  <2>2. Stopped(row.handle) \in Sources
    BY StoppedType DEF TypeOK
  <2>3. CASE rec' = Failed([rec EXCEPT !.retired = @ \/ rec.phase = "saved"], "unknown", FALSE)
             /\ UNCHANGED <<row, cp, due, processing, user, src>>
    <3>1. (rec.retired \/ rec.phase = "saved") \in BOOLEAN
      OBVIOUS
    <3>2. [rec EXCEPT !.retired = @ \/ rec.phase = "saved"] \in Records
      BY <3>1 DEF TypeOK, Records
    <3>3. rec' \in Records
      BY <2>3, <3>2, FailedType DEF Phases
    <3> QED BY <1>1, <2>3, <3>3 DEF Spawn, TypeOK
  <2>4. (rec.receipt.gen # 0) \in BOOLEAN
    OBVIOUS
  <2>5. \/ Reserve(rec.receipt.gen # 0) /\ src' = Stopped(row.handle)
        \/ Reserve(rec.receipt.gen # 0) /\ src' = src
        \/ /\ rec' = Failed([rec EXCEPT !.retired = @ \/ rec.phase = "saved"], "unknown", FALSE)
           /\ UNCHANGED <<row, cp, due, processing, user, src>>
    BY <1>1 DEF Spawn
  <2> QED BY <2>1, <2>2, <2>3, <2>4, <2>5 DEF TypeOK
<1>2. CASE InvokeProvider
  <2>1. src' \in Sources
    BY <1>2, StoppedType DEF InvokeProvider, TypeOK
  <2>2. row' \in Rows
    BY <1>2, BoundsAssumption DEF InvokeProvider, TypeOK, Rows
  <2>3. rec' \in Records
    BY <1>2 DEF InvokeProvider, TypeOK, Records
  <2>4. cp' \in Memory
    BY <1>2 DEF InvokeProvider, TypeOK, Memory
  <2>5. creating' \in SUBSET Gens
    BY <1>2 DEF InvokeProvider, TypeOK, Memory, Gens
  <2> QED BY <1>2, <2>1, <2>2, <2>3, <2>4, <2>5 DEF InvokeProvider, TypeOK
<1>3. CASE ProviderAnswers
  <2>1. cp' \in Memory
    BY <1>3, EndedStartType DEF ProviderAnswers, TypeOK
  <2>2. rec' \in Records
    <3>1. ASSUME NEW phase \in Phases
          PROVE  [rec EXCEPT !.phase = phase, !.invoked = FALSE, !.handle = cp.start,
                             !.retired = FALSE] \in Records
      BY DEF TypeOK, Records, Memory
    <3>2. (IF rec.phase = "restoring" THEN "running" ELSE rec.phase) \in Phases
      BY DEF TypeOK, Records, Phases
    <3> QED BY <1>3, <3>1, <3>2 DEF ProviderAnswers, TypeOK
  <2>3. row' \in Rows
    BY <1>3 DEF ProviderAnswers, TypeOK, Rows, Memory
  <2>4. src' \in Sources
    BY <1>3, StoppedType DEF ProviderAnswers, TypeOK
  <2> QED BY <1>3, <2>1, <2>2, <2>3, <2>4 DEF ProviderAnswers, TypeOK
<1>4. CASE StartFails
  <2>1. cp' \in Memory
    BY <1>4, EndedStartType DEF StartFails, TypeOK
  <2>2. row' \in Rows
    BY <1>4 DEF StartFails, TypeOK, Rows
  <2>3. (rec.retired \/ rec.phase = "saved") \in BOOLEAN
    OBVIOUS
  <2>4. [rec EXCEPT !.retired = @ \/ rec.phase = "saved"] \in Records
    BY <2>3 DEF TypeOK, Records
  <2>5. rec' \in Records
    BY <1>4, <2>4, FailedType DEF StartFails, TypeOK, Phases
  <2> QED BY <1>4, <2>1, <2>2, <2>5 DEF StartFails, TypeOK
<1>5. CASE BootFails
  <2>1. row' \in Rows
    BY <1>5 DEF BootFails, TypeOK, Rows
  <2>2. src' \in Sources
    BY <1>5, StoppedType DEF BootFails, TypeOK
  <2> QED BY <1>5, <2>1, <2>2 DEF BootFails, TypeOK
<1> QED BY <1>1, <1>2, <1>3, <1>4, <1>5

LEMMA BeginCheckpointType ==
  ASSUME TypeOK, CheckpointAdmitted, NEW after \in {"continue", "stop"},
         NEW status \in {"starting", "ready", "snapshotting", "stopped", "stale", "failed"},
         BeginCheckpoint(after, status)
  PROVE  rec' \in Records /\ row' \in Rows /\ asks' \in SUBSET Requests /\ due' \in SUBSET Deadlines
<1>1. rec' \in Records
  BY DEF BeginCheckpoint, TypeOK, Records
<1>2. row' \in Rows
  BY DEF BeginCheckpoint, TypeOK, Rows
<1>3. row.handle \in Gens
  BY BoundsAssumption DEF CheckpointAdmitted, TypeOK, Rows, Gens
<1>4. [gen |-> row.handle, kind |-> after, low |-> src[row.handle].work] \in Requests
  BY <1>3 DEF Requests, Kinds, Sources, TypeOK
<1> QED BY <1>1, <1>2, <1>4 DEF BeginCheckpoint, TypeOK

LEMMA CheckpointTypes ==
  ASSUME TypeOK,
         Complete \/ HeartbeatStale \/ CheckpointSaved \/ CheckpointUnconfirmed \/ WatchdogEnds
  PROVE  TypeOK'
<1>1. CASE Complete
  <2>1. src' \in Sources
    BY <1>1 DEF Complete, TypeOK, Sources
  <2>2. CASE CheckpointAdmitted /\ row.status # "snapshotting"
    <3>1. (IF Dead THEN row.status ELSE "snapshotting")
             \in {"starting", "ready", "snapshotting", "stopped", "stale", "failed"}
      BY DEF TypeOK, Rows
    <3>2. rec' \in Records /\ row' \in Rows /\ asks' \in SUBSET Requests /\ due' \in SUBSET Deadlines
      BY <1>1, <2>2, <3>1, BeginCheckpointType DEF Complete
    <3>3. cp' \in Memory
      BY <1>1, <2>2 DEF Complete, TypeOK, Memory, Records
    <3> QED BY <1>1, <2>1, <3>2, <3>3 DEF Complete, TypeOK
  <2> QED BY <1>1, <2>1, <2>2 DEF Complete, TypeOK
<1>2. CASE HeartbeatStale
  <2>1. CASE CheckpointAdmitted
    <3>1. rec' \in Records /\ row' \in Rows /\ asks' \in SUBSET Requests /\ due' \in SUBSET Deadlines
      BY <1>2, <2>1, BeginCheckpointType DEF HeartbeatStale
    <3>2. cp' \in Memory
      <4>1. rec.gen \in 0..MaxGens /\ row.handle \in 0..MaxGens
        BY DEF TypeOK, Records, Rows
      <4> QED BY <1>2, <2>1, <4>1, WatchType DEF HeartbeatStale, TypeOK
    <3> QED BY <1>2, <3>1, <3>2 DEF HeartbeatStale, TypeOK
  <2>2. CASE ~CheckpointAdmitted
    <3>1. row' \in Rows
      BY <1>2, <2>2 DEF HeartbeatStale, TypeOK, Rows
    <3>2. cp' \in Memory
      BY <1>2, <2>2 DEF HeartbeatStale, TypeOK, Memory, Rows
    <3> QED BY <1>2, <2>2, <3>1, <3>2 DEF HeartbeatStale, TypeOK
  <2> QED BY <2>1, <2>2
<1>3. ASSUME NEW holding PROVE [Watched(cp, holding) EXCEPT !.ckpt = 0] \in Memory
  BY BoundsAssumption DEF Watched, TypeOK, Memory
<1>4. CASE CheckpointSaved
  <2>1. PICK a \in CheckpointAsk :
          /\ asks' = asks \ {a}
          /\ \E w \in a.low .. src[a.gen].work :
               rec' = IF OwnsCheckpoint
                      THEN [Released(rec) EXCEPT !.receipt =
                              [gen |-> a.gen, work |-> w, shutdown |-> FALSE]]
                      ELSE rec
          /\ row' = IF OwnsCheckpoint /\ a.kind = "continue" /\ row.status = "snapshotting"
                    THEN [row EXCEPT !.status = "ready"] ELSE row
          /\ cp' = [Watched(cp, rec'.phase # "running") EXCEPT !.ckpt = 0]
    BY <1>4 DEF CheckpointSaved
  <2>2. a \in Requests
    BY DEF CheckpointAsk, TypeOK
  <2>3. a.gen \in Gens /\ a.gen \in 0..MaxGens /\ a.low .. src[a.gen].work \subseteq 0..MaxWork
    BY <2>2, BoundsAssumption DEF Requests, Gens, TypeOK, Sources
  <2>4. rec' \in Records
    <3>1. CASE OwnsCheckpoint
      <4>1. PICK w \in 0..MaxWork :
              rec' = [Released(rec) EXCEPT !.receipt = [gen |-> a.gen, work |-> w, shutdown |-> FALSE]]
        BY <2>1, <2>3, <3>1
      <4>2. Released(rec) \in Records
        BY ReleasedType DEF TypeOK
      <4> HIDE DEF Released
      <4> QED BY <2>3, <4>1, <4>2 DEF Records
    <3> QED BY <2>1, <3>1 DEF TypeOK
  <2>5. row' \in Rows
    BY <2>1 DEF TypeOK, Rows
  <2> QED BY <1>3, <1>4, <2>1, <2>4, <2>5 DEF CheckpointSaved, TypeOK
<1>5. CASE CheckpointUnconfirmed
  <2>1. [rec EXCEPT !.uncertain = TRUE] \in Records
    BY DEF TypeOK, Records
  <2>2. rec' \in Records
    BY <1>5, <2>1, ReleasedType, FailedType DEF CheckpointUnconfirmed, TypeOK, Phases
  <2> QED BY <1>3, <1>5, <2>2 DEF CheckpointUnconfirmed, TypeOK
<1>6. CASE WatchdogEnds
  <2>1. cp' \in Memory
    BY <1>6, EndedWatchType DEF WatchdogEnds, TypeOK
  <2>2. src' \in Sources
    BY <1>6, StoppedType DEF WatchdogEnds, TypeOK
  <2>3. processing' \in BOOLEAN
    BY <1>6 DEF WatchdogEnds, TypeOK
  <2> QED BY <1>6, <2>1, <2>2, <2>3 DEF WatchdogEnds, TypeOK
<1> QED BY <1>1, <1>2, <1>4, <1>5, <1>6

LEMMA InterruptType ==
  ASSUME TypeOK, NEW paused, Interrupt(paused)
  PROVE  processing' \in BOOLEAN /\ user' \in [interrupted: BOOLEAN, chose: BOOLEAN]
<1>1. (user.interrupted \/ processing) \in BOOLEAN
  OBVIOUS
<1> QED BY <1>1 DEF Interrupt, TypeOK

LEMMA ClaimTypes ==
  ASSUME TypeOK, RequestShutdown \/ Emergency \/ RecordFailure \/ ClearFailure
  PROVE  TypeOK'
<1>1. CASE RequestShutdown
  <2>1. PICK paused \in BOOLEAN :
          /\ Interrupt(paused)
          /\ rec' = [rec EXCEPT !.phase = "draining", !.paused = paused,
                                !.failure = FALSE, !.began = TRUE]
    BY <1>1 DEF RequestShutdown
  <2>2. rec' \in Records
    BY <2>1 DEF TypeOK, Records, Phases
  <2>3. due' \in SUBSET Deadlines
    BY <1>1 DEF RequestShutdown, TypeOK, Spent, Window, Deadlines
  <2> QED BY <1>1, <2>1, <2>2, <2>3, InterruptType DEF RequestShutdown, TypeOK
<1>2. CASE Emergency
  <2> DEFINE retired == Recovering /\ rec.retired
             claim == [rec EXCEPT !.handle = row.handle, !.paused = TRUE,
                         !.failure = FALSE, !.began = TRUE, !.retired = Recovering /\ @]
  <2>1. retired \in BOOLEAN /\ row.handle \in 0..MaxGens
    BY DEF TypeOK, Rows
  <2>2. claim \in Records
    <3>1. claim = [rec EXCEPT !.handle = row.handle, !.paused = TRUE,
                     !.failure = FALSE, !.began = TRUE, !.retired = retired]
      BY DEF TypeOK, Records
    <3> HIDE DEF claim, retired
    <3> QED BY <2>1, <3>1 DEF TypeOK, Records
  <2>3. [claim EXCEPT !.phase = "unknown"] \in Records
    <3> HIDE DEF claim
    <3> QED BY <2>2 DEF Records, Phases
  <2>4. \/ rec' = [claim EXCEPT !.phase = "unknown"] /\ UNCHANGED <<cp, asks>>
        \/ \E late \in {FALSE, Due("drain")} : Capture(claim, late)
    BY <1>2 DEF Emergency
  <2>5. rec' \in Records /\ cp' \in Memory /\ asks' \in SUBSET Requests
    <3> HIDE DEF claim
    <3> QED BY <2>2, <2>3, <2>4, CaptureType DEF TypeOK
  <2>6. due' \in SUBSET Deadlines
    BY <1>2 DEF Emergency, TypeOK, Window, Deadlines
  <2>7. row' \in Rows
    BY <1>2 DEF Emergency, TypeOK, Rows
  <2>8. user' \in [interrupted: BOOLEAN, chose: BOOLEAN]
    <3>1. (user.interrupted \/ processing) \in BOOLEAN
      OBVIOUS
    <3> QED BY <1>2, <3>1 DEF Emergency, TypeOK
  <2> QED BY <1>2, <2>5, <2>6, <2>7, <2>8 DEF Emergency, TypeOK
<1>3. CASE RecordFailure
  <2>1. rec' \in Records
    BY <1>3 DEF RecordFailure, TypeOK, Records
  <2> QED BY <1>3, <2>1 DEF RecordFailure, TypeOK
<1>4. CASE ClearFailure
  <2>1. rec' \in Records
    BY <1>4 DEF ClearFailure, TypeOK, Records
  <2> QED BY <1>4, <2>1 DEF ClearFailure, TypeOK
<1> QED BY <1>1, <1>2, <1>3, <1>4

LEMMA AdvanceTypes ==
  ASSUME TypeOK, AdvanceDraining \/ Prepared \/ AdvancePrepared \/ AdvanceCapturing
  PROVE  TypeOK'
<1>1. CASE AdvanceDraining
  <2> DEFINE r == IF HandOff THEN Released(rec) ELSE rec
  <2>1. r \in Records
    BY ReleasedType DEF TypeOK
  <2>2. [r EXCEPT !.paused = TRUE] \in Records
    <3> HIDE DEF r
    <3> QED BY <2>1 DEF Records
  <2>3. \/ /\ rec' = Failed(r, "unknown", FALSE)
           /\ UNCHANGED <<row, cp, src, asks, due>>
        \/ /\ \E late \in BOOLEAN \cup {Due("capture")} : Capture([r EXCEPT !.paused = TRUE], late)
           /\ due' \subseteq due /\ row' = Fenced /\ UNCHANGED src
        \/ /\ rec' = r
           /\ src' = [src EXCEPT ![rec.gen].told = @ \/ rec.genReady]
           /\ UNCHANGED <<row, cp, asks, due>>
    BY <1>1 DEF AdvanceDraining
  <2>4. [src EXCEPT ![rec.gen].told = @ \/ rec.genReady] \in Sources
    <3>1. ASSUME rec.gen \in Gens PROVE (src[rec.gen].told \/ rec.genReady) \in BOOLEAN
      OBVIOUS
    <3> QED BY <3>1 DEF TypeOK, Sources
  <2> HIDE DEF r
  <2>5. rec' \in Records /\ cp' \in Memory /\ asks' \in SUBSET Requests
    BY <2>1, <2>2, <2>3, CaptureType, FailedType DEF TypeOK, Phases
  <2>6. row' \in Rows /\ src' \in Sources /\ due' \in SUBSET Deadlines
    BY <2>3, <2>4, FencedType DEF TypeOK
  <2> QED BY <1>1, <2>5, <2>6 DEF AdvanceDraining, TypeOK
<1>2. CASE Prepared
  <2>1. [rec EXCEPT !.phase = "prepared"] \in Records
    BY DEF TypeOK, Records, Phases
  <2>2. [rec EXCEPT !.paused = TRUE] \in Records
    BY DEF TypeOK, Records
  <2>3. rec' \in Records /\ cp' \in Memory /\ asks' \in SUBSET Requests /\ row' \in Rows
    BY <1>2, <2>1, <2>2, CaptureType, FencedType DEF Prepared, TypeOK
  <2> QED BY <1>2, <2>3 DEF Prepared, TypeOK
<1>3. CASE AdvancePrepared
  <2>1. rec' \in Records /\ cp' \in Memory /\ asks' \in SUBSET Requests
    BY <1>3, CaptureType DEF AdvancePrepared, TypeOK
  <2> QED BY <1>3, <2>1 DEF AdvancePrepared, TypeOK
<1>4. CASE AdvanceCapturing
  BY <1>4, FailedType DEF AdvanceCapturing, TypeOK, Phases
<1> QED BY <1>1, <1>2, <1>3, <1>4

LEMMA CallTypes ==
  ASSUME TypeOK,
         CaptureSaved \/ CaptureUnconfirmed \/ AdvanceRetiring \/ StopConfirmed \/ StopUnconfirmed
  PROVE  TypeOK'
<1>0. 0 \in 0..MaxGens
  BY BoundsAssumption
<1>1. CASE CaptureSaved
  <2>1. PICK a \in CaptureAsk :
          /\ asks' = asks \ {a}
          /\ \E w \in a.low .. src[a.gen].work :
               IF OwnsCapture
               THEN Retire([rec EXCEPT !.phase = "retiring", !.receipt =
                              [gen |-> a.gen, work |-> w, shutdown |-> TRUE]],
                           [cp EXCEPT !.capture = 0])
               ELSE rec' = rec /\ cp' = [cp EXCEPT !.capture = 0]
    BY <1>1 DEF CaptureSaved
  <2>2. a \in Requests
    BY DEF CaptureAsk, TypeOK
  <2>3. a.gen \in 0..MaxGens /\ a.low .. src[a.gen].work \subseteq 0..MaxWork
    BY <2>2, BoundsAssumption DEF Requests, Gens, TypeOK, Sources
  <2>4. [cp EXCEPT !.capture = 0] \in Memory
    BY <1>0 DEF TypeOK, Memory
  <2>5. ASSUME NEW w \in 0..MaxWork
        PROVE  [rec EXCEPT !.phase = "retiring", !.receipt =
                  [gen |-> a.gen, work |-> w, shutdown |-> TRUE]] \in Records
    BY <2>3 DEF TypeOK, Records, Phases
  <2>6. rec' \in Records /\ cp' \in Memory
    BY <2>1, <2>3, <2>4, <2>5, RetireType DEF TypeOK
  <2> QED BY <1>1, <2>1, <2>6 DEF CaptureSaved, TypeOK
<1>2. CASE CaptureUnconfirmed
  <2>1. cp' \in Memory
    BY <1>0, <1>2 DEF CaptureUnconfirmed, TypeOK, Memory
  <2> QED BY <1>2, <2>1, FailedType DEF CaptureUnconfirmed, TypeOK, Phases
<1>3. CASE AdvanceRetiring
  <2>1. rec' \in Records /\ cp' \in Memory
    BY <1>3, RetireType DEF AdvanceRetiring, TypeOK
  <2> QED BY <1>3, <2>1 DEF AdvanceRetiring, TypeOK
<1>4. [cp EXCEPT !.retire = 0] \in Memory
  BY <1>0 DEF TypeOK, Memory
<1>5. CASE StopConfirmed
  <2>1. rec' \in Records /\ row' \in Rows
    BY <1>5, FinishType DEF StopConfirmed, TypeOK
  <2>2. src' \in Sources
    BY <1>5, StoppedType DEF StopConfirmed, TypeOK
  <2> QED BY <1>4, <1>5, <2>1, <2>2 DEF StopConfirmed, TypeOK
<1>6. CASE StopUnconfirmed
  <2>1. src' \in Sources
    BY <1>6, StoppedType DEF StopUnconfirmed, TypeOK
  <2>2. rec' \in Records
    BY <1>6, FailedType DEF StopUnconfirmed, TypeOK, Phases
  <2> QED BY <1>4, <1>6, <2>1, <2>2 DEF StopUnconfirmed, TypeOK
<1> QED BY <1>1, <1>2, <1>3, <1>5, <1>6

LEMMA RetryCaptureType ==
  ASSUME TypeOK, RetryCapture
  PROVE  /\ rec' \in Records /\ cp' \in Memory /\ asks' \in SUBSET Requests
         /\ row' \in Rows /\ due' \in SUBSET Deadlines
BY CaptureType, FencedType DEF RetryCapture, TypeOK

LEMMA HeldTypes ==
  ASSUME TypeOK, SettleRunning \/ AutoRetry \/ RecoverRetry
  PROVE  TypeOK'
<1>1. CASE SettleRunning
  <2>1. [rec EXCEPT !.after = "none"] \in Records /\ [rec EXCEPT !.deferred = TRUE] \in Records
    BY DEF TypeOK, Records
  <2>2. Released(rec) \in Records
    BY ReleasedType DEF TypeOK
  <2>3. [Released(rec) EXCEPT !.inFlight = ~rec.uncertain] \in Records
    <3>1. (~rec.uncertain) \in BOOLEAN
      OBVIOUS
    <3> QED BY <2>2, <3>1 DEF Records
  <2>4. [row EXCEPT !.status = "ready"] \in Rows
    BY DEF TypeOK, Rows
  <2>5. rec' \in Records /\ row' \in Rows
    BY <1>1, <2>1, <2>2, <2>3, <2>4, FailedType DEF SettleRunning, TypeOK, Phases
  <2> QED BY <1>1, <2>5 DEF SettleRunning, TypeOK
<1>3. CASE AutoRetry \/ RecoverRetry
  BY <1>3, RetryCaptureType DEF AutoRetry, RecoverRetry, TypeOK
<1> QED BY <1>1, <1>3

LEMMA RecoveryTypes ==
  ASSUME TypeOK, RecoverPaused \/ RecoverSaved \/ RecoverDiscard \/ DiscardEnds
  PROVE  TypeOK'
<1>1. CASE RecoverPaused
  <2>1. rec' \in Records
    BY <1>1 DEF RecoverPaused, TypeOK, Records
  <2> QED BY <1>1, <2>1 DEF RecoverPaused, TypeOK
<1>2. CASE RecoverSaved
  <2> DEFINE next == [rec EXCEPT !.phase = "retiring", !.paused = FALSE]
  <2>1. next \in Records
    BY DEF TypeOK, Records, Phases
  <2>2. [cp EXCEPT !.retire = rec.gen] \in Memory
    BY DEF TypeOK, Records, Memory
  <2>3. \/ Finish(next) /\ UNCHANGED cp
        \/ rec' = next /\ cp' = [cp EXCEPT !.retire = rec.gen] /\ UNCHANGED row
    BY <1>2 DEF RecoverSaved
  <2>4. rec' \in Records /\ cp' \in Memory /\ row' \in Rows
    <3> HIDE DEF next
    <3> QED BY <2>1, <2>2, <2>3, FinishType DEF TypeOK
  <2> QED BY <1>2, <2>4 DEF RecoverSaved, TypeOK
<1>3. CASE RecoverDiscard
  <2>1. rec' \in Records
    BY <1>3 DEF RecoverDiscard, TypeOK, Records
  <2>2. cp' \in Memory
    BY <1>3 DEF RecoverDiscard, TypeOK, Memory
  <2> QED BY <1>3, <2>1, <2>2 DEF RecoverDiscard, TypeOK
<1>4. CASE DiscardEnds
  <2>1. cp' \in Memory
    BY <1>4 DEF DiscardEnds, TypeOK, Memory
  <2>2. src' \in Sources
    BY <1>4, StoppedType DEF DiscardEnds, TypeOK
  <2>3. Blank("running", rec.gen, TRUE, NoReceipt) \in Records
    <3>1. rec.gen \in 0..MaxGens /\ "running" \in Phases /\ TRUE \in BOOLEAN
      BY DEF TypeOK, Records, Phases
    <3> QED BY <3>1, BlankType, NoReceiptType
  <2>4. [rec EXCEPT !.discarding = FALSE] \in Records
    BY DEF TypeOK, Records
  <2>5. [row EXCEPT !.status = "stopped", !.handle = 0] \in Rows
    <3>1. 0 \in 0..MaxGens
      BY BoundsAssumption
    <3> QED BY <3>1 DEF TypeOK, Rows
  <2>6. [user EXCEPT !.interrupted = FALSE] \in [interrupted: BOOLEAN, chose: BOOLEAN]
    BY DEF TypeOK
  <2>7. /\ rec' \in Records /\ row' \in Rows
        /\ user' \in [interrupted: BOOLEAN, chose: BOOLEAN]
    BY <1>4, <2>3, <2>4, <2>5, <2>6 DEF DiscardEnds, TypeOK
  <2> QED BY <1>4, <2>1, <2>2, <2>7 DEF DiscardEnds, TypeOK
<1> QED BY <1>1, <1>2, <1>3, <1>4

LEMMA TimeTypes ==
  ASSUME TypeOK, Restart \/ \E d \in Deadlines : Passes(d)
  PROVE  TypeOK'
<1>1. CASE Restart
  <2>1. ASSUME NEW h \in 0..MaxGens
        PROVE  [rec EXCEPT !.phase = "unknown", !.handle = h] \in Records
    BY DEF TypeOK, Records, Phases
  <2>2. (IF row.handle # 0 THEN row.handle ELSE rec.handle) \in 0..MaxGens
    BY DEF TypeOK, Rows, Records
  <2>3. rec' \in Records
    BY <1>1, <2>1, <2>2 DEF Restart, TypeOK
  <2>4. crashes' \in 0..MaxCrashes
    BY <1>1, BoundsAssumption DEF Restart, TypeOK
  <2>5. asks' \in SUBSET Requests
    BY <1>1 DEF Restart, TypeOK
  <2> QED BY <1>1, <2>3, <2>4, <2>5, IdleType DEF Restart, TypeOK
<1>2. ASSUME NEW d \in Deadlines, Passes(d) PROVE TypeOK'
  <2>1. src' \in Sources
    BY <1>2, StoppedType DEF Passes, TypeOK
  <2> QED BY <1>2, <2>1 DEF Passes, TypeOK
<1> QED BY <1>1, <1>2

LEMMA TypeInductive == TypeOK /\ [Next]_vars => TypeOK'
<1> SUFFICES ASSUME TypeOK, [Next]_vars PROVE TypeOK'
  OBVIOUS
<1>1. CASE UNCHANGED vars
  BY <1>1 DEF vars, TypeOK
<1>2. CASE Next
  BY <1>2, RuntimeTypes, StartTypes, CheckpointTypes, ClaimTypes, AdvanceTypes, CallTypes,
     HeldTypes, RecoveryTypes, TimeTypes DEF Next
<1> QED BY <1>1, <1>2

(***************************************************************************)
(* Every variable keeps its type.                                          *)
(***************************************************************************)
THEOREM TypeCorrect == Spec => []TypeOK
<1>1. Init => TypeOK
  <2> SUFFICES ASSUME Init PROVE TypeOK
    OBVIOUS
  <2>1. rec \in Records
    <3>1. 0 \in 0..MaxGens /\ "none" \in Phases /\ FALSE \in BOOLEAN
      BY BoundsAssumption DEF Phases
    <3> QED BY <3>1, BlankType, NoReceiptType DEF Init
  <2>2. row \in Rows
    BY BoundsAssumption DEF Init, Rows
  <2>3. src \in Sources
    BY BoundsAssumption DEF Init, Sources
  <2>4. user \in [interrupted: BOOLEAN, chose: BOOLEAN]
    BY DEF Init
  <2>5. crashes \in 0..MaxCrashes
    BY BoundsAssumption DEF Init
  <2>6. asks \in SUBSET Requests /\ creating \in SUBSET Gens /\ due \in SUBSET Deadlines
    BY DEF Init
  <2> QED BY <2>1, <2>2, <2>3, <2>4, <2>5, <2>6, IdleType DEF Init, TypeOK
<1> QED BY <1>1, TypeInductive, PTL DEF Spec

-----------------------------------------------------------------------------
(***************************************************************************)
(* Which source is whose.  A generation's handle, receipt and pending      *)
(* start all belong to it alone, so that the stop of the recorded handle   *)
(* is the stop of the source the receipt was taken from.                   *)
(***************************************************************************)

\* Everything is of the record's generation or an earlier one.
Generation ==
  /\ rec.gen = 0 <=> rec.phase = "none"
  /\ rec.gen = 0 => rec.handle = 0 /\ row.handle = 0
  /\ rec.discarding => rec.gen # 0
  /\ cp.start \in {0, rec.gen} /\ (cp.asked => cp.start # 0)
  /\ rec.receipt.gen \in 0..rec.gen
  /\ creating \subseteq 1..rec.gen
  /\ \A g \in Gens : g > rec.gen => ~src[g].alive

\* A recorded handle is the generation's own, of a source already created.
Handles ==
  /\ row.handle \in 0..rec.gen
  /\ rec.handle # 0 => /\ rec.handle = rec.gen /\ row.handle = rec.gen
                       /\ cp.start = 0 /\ rec.gen \notin creating
  /\ rec.gen # 0 /\ row.handle = rec.gen => rec.handle = rec.gen
  /\ rec.phase \in {"capturing", "retiring"} \/ rec.inFlight => rec.handle # 0
  /\ rec.gen # 0 /\ rec.receipt.gen = rec.gen => rec.handle = rec.gen
  /\ rec.invoked => row.handle = 0

\* While the row still names an earlier source, its own does not exist.
PriorHandle ==
  rec.gen # 0 /\ row.handle \notin {0, rec.gen} =>
     /\ ~src[rec.gen].alive /\ rec.gen \notin creating
     /\ row.status \notin {"ready", "snapshotting"}

\* A source that outlived its lifetime is gone.
Expired ==
  /\ rec.handle # 0 /\ Due("expiry") => ~src[rec.handle].alive
  /\ cp.start # 0 => ~Due("expiry")

IdInv == Generation /\ Handles /\ PriorHandle /\ Expired /\ RetirementIsTrue

(***************************************************************************)
(* Most steps are steady: the generation keeps its sources, a receipt can  *)
(* only come to name the recorded source, and the record comes to say      *)
(* saved only when that source is gone.                                    *)
(***************************************************************************)
Steady ==
  /\ rec'.gen = rec.gen /\ rec'.handle = rec.handle /\ rec'.invoked = rec.invoked
  /\ rec'.receipt.gen # rec.receipt.gen => rec.handle # 0 /\ rec'.receipt.gen = rec.gen
  /\ rec'.phase = "none" <=> rec.phase = "none"
  /\ rec'.discarding => rec.discarding \/ rec.phase # "none"
  /\ rec'.phase \in {"capturing", "retiring"} \/ rec'.inFlight => rec.handle # 0
  /\ rec'.phase = "saved" =>
       \/ rec.phase = "saved" /\ rec'.receipt = rec.receipt
       \/ rec.handle # 0 => ~src'[rec.handle].alive
  /\ row'.handle = row.handle
  /\ row'.status \in {"ready", "snapshotting"} =>
       \/ row.status \in {"ready", "snapshotting"} \/ row.handle \in {0, rec.gen}
       \/ src[rec.gen].alive
  /\ creating' = creating /\ cp'.start = cp.start /\ cp'.asked = cp.asked
  /\ \A g \in Gens : src'[g].alive => src[g].alive
  /\ "expiry" \in due' => "expiry" \in due

LEMMA SteadyKeeps == ASSUME TypeOK, IdInv, Steady PROVE IdInv'
<1> USE BoundsAssumption DEF IdInv, Steady
<1>0. rec.gen \in 0..MaxGens /\ rec.handle \in 0..MaxGens
  BY DEF TypeOK, Records
<1>1. Generation'
  BY <1>0 DEF Generation
<1>2. Handles'
  BY <1>0 DEF Handles, Generation
<1>3. PriorHandle'
  BY <1>0 DEF PriorHandle, Gens
<1>4. Expired'
  BY <1>0 DEF Expired, Due, Gens
<1>5. RetirementIsTrue'
  BY <1>0 DEF RetirementIsTrue, CoversSource, Handles, Generation, Gens
<1> QED BY <1>1, <1>2, <1>3, <1>4, <1>5

\* A stop only ends sources.
LEMMA StoppedOnlyEnds ==
  ASSUME src \in Sources, NEW g
  PROVE  /\ \A h \in Gens : Stopped(g)[h].alive => src[h].alive
         /\ g \in Gens => ~Stopped(g)[g].alive
         /\ \A h \in Gens : /\ Stopped(g)[h].told = src[h].told
                            /\ Stopped(g)[h].quiet = src[h].quiet
                            /\ Stopped(g)[h].work = src[h].work
                            /\ Stopped(g)[h].busy => src[h].busy
BY BoundsAssumption DEF Stopped, Sources, Gens

(***************************************************************************)
(* The fields the shared effects change.                                   *)
(***************************************************************************)
Agree(r, s) ==
  /\ s.gen = r.gen /\ s.handle = r.handle /\ s.invoked = r.invoked
  /\ s.receipt = r.receipt /\ s.paused = r.paused /\ s.discarding = r.discarding
  /\ s.began = r.began

LEMMA FailedFields ==
  ASSUME NEW r \in Records, NEW phase, NEW capFail
  PROVE  LET f == Failed(r, phase, capFail)
         IN  f.phase = phase /\ Agree(r, f) /\ f.inFlight = r.inFlight /\ f.after = r.after
BY DEF Failed, Records, Agree

LEMMA ReleasedFields ==
  ASSUME NEW r \in Records
  PROVE  LET f == Released(r)
         IN  f.phase = r.phase /\ Agree(r, f) /\ ~f.inFlight /\ f.after = "none"
BY DEF Released, Records, Agree

LEMMA CaptureFields ==
  ASSUME TypeOK, NEW r \in Records, NEW late, Capture(r, late)
  PROVE  /\ Agree(r, rec') /\ rec'.inFlight = r.inFlight /\ rec'.after = r.after
         /\ \/ rec'.phase = "failed" /\ UNCHANGED <<cp, asks>>
            \/ /\ rec'.phase = "capturing" /\ r.handle # 0
               /\ cp' = [cp EXCEPT !.capture = r.gen]
               /\ asks' = asks \cup
                    {[gen |-> r.handle, kind |-> "shutdown", low |-> src[r.handle].work]}
<1>1. CASE r.handle = 0 \/ late
  <2>1. rec' = Failed(r, "failed", TRUE) /\ UNCHANGED <<cp, asks>>
    BY <1>1 DEF Capture
  <2> QED BY <2>1 DEF Failed, Records, Agree
<1>2. CASE ~(r.handle = 0 \/ late)
  BY <1>2 DEF Capture, Records, Agree
<1> QED BY <1>1, <1>2

LEMMA RetireFields ==
  ASSUME TypeOK, NEW r \in Records, NEW c \in Memory, Retire(r, c)
  PROVE  /\ Agree(r, rec') /\ rec'.inFlight = r.inFlight /\ rec'.after = r.after
         /\ \/ rec'.phase = "unknown" /\ cp' = c
            \/ rec' = r /\ cp' = [c EXCEPT !.retire = r.gen]
<1>1. CASE Due("retire")
  <2>1. rec' = Failed(r, "unknown", FALSE) /\ cp' = c
    BY <1>1 DEF Retire
  <2> QED BY <2>1 DEF Failed, Records, Agree
<1>2. CASE ~Due("retire")
  BY <1>2 DEF Retire, Agree
<1> QED BY <1>1, <1>2

LEMMA FinishFields ==
  ASSUME TypeOK, NEW r \in Records, Finish(r)
  PROVE  /\ rec'.phase = "saved" /\ Agree(r, rec') /\ rec'.inFlight = r.inFlight
         /\ rec'.after = r.after /\ row'.handle = row.handle /\ row'.status = "stopped"
BY DEF Finish, Agree, Records, Rows, TypeOK

LEMMA FencedFields ==
  ASSUME row \in Rows
  PROVE  Fenced.handle = row.handle /\ Fenced.status \notin {"ready", "snapshotting"}
         /\ (row.status \in {"stale", "stopped"} => Fenced.status = row.status)
BY DEF Fenced, Dead, Rows

\* What a capture the coordinator begins or refuses leaves the rest to see.
Captures(handle, phases) ==
  \/ rec'.phase \in phases /\ UNCHANGED <<cp, asks>>
  \/ /\ rec'.phase = "capturing" /\ handle # 0
     /\ cp' = [cp EXCEPT !.capture = rec.gen]
     /\ asks' = asks \cup
          {[gen |-> handle, kind |-> "shutdown", low |-> src[handle].work]}

\* The record still is of its generation.
SameIdentity ==
  /\ rec'.gen = rec.gen /\ rec'.invoked = rec.invoked
  /\ rec'.receipt = rec.receipt /\ rec'.discarding = rec.discarding

LEMMA EmergencyFields ==
  ASSUME TypeOK, Emergency
  PROVE  /\ SameIdentity /\ rec'.handle = row.handle /\ rec'.inFlight = rec.inFlight
         /\ rec'.paused /\ rec'.began /\ Captures(row.handle, {"unknown", "failed"})
         /\ row'.handle = row.handle /\ row'.status = "stale"
<1> DEFINE claim == [rec EXCEPT !.handle = row.handle, !.paused = TRUE,
                       !.failure = FALSE, !.began = TRUE, !.retired = Recovering /\ @]
           same == /\ rec'.gen = rec.gen /\ rec'.invoked = rec.invoked
                   /\ rec'.receipt = rec.receipt /\ rec'.discarding = rec.discarding
                   /\ rec'.handle = row.handle /\ rec'.inFlight = rec.inFlight
                   /\ rec'.paused /\ rec'.began
<1>1. claim \in Records
  <2>1. (Recovering /\ rec.retired) \in BOOLEAN
    OBVIOUS
  <2>2. PICK retired \in BOOLEAN :
          claim = [rec EXCEPT !.handle = row.handle, !.paused = TRUE,
                     !.failure = FALSE, !.began = TRUE, !.retired = retired]
    BY <2>1 DEF TypeOK, Records
  <2> HIDE DEF claim
  <2> QED BY <2>2 DEF TypeOK, Records, Rows
<1>2. /\ claim.gen = rec.gen /\ claim.invoked = rec.invoked /\ claim.receipt = rec.receipt
      /\ claim.discarding = rec.discarding /\ claim.handle = row.handle
      /\ claim.inFlight = rec.inFlight /\ claim.paused /\ claim.began
  BY DEF TypeOK, Records
<1>3. \/ rec' = [claim EXCEPT !.phase = "unknown"] /\ UNCHANGED <<cp, asks>>
      \/ \E late \in {FALSE, Due("drain")} : Capture(claim, late)
  BY DEF Emergency
<1>4. row'.handle = row.handle /\ row'.status = "stale"
  BY DEF Emergency, TypeOK, Rows
<1> HIDE DEF claim
<1>5. CASE rec' = [claim EXCEPT !.phase = "unknown"] /\ UNCHANGED <<cp, asks>>
  <2>1. same /\ rec'.phase = "unknown"
    BY <1>1, <1>2, <1>5 DEF Records
  <2> QED BY <1>4, <1>5, <2>1 DEF SameIdentity, Captures
<1>6. CASE \E late : Capture(claim, late)
  BY <1>1, <1>2, <1>4, <1>6, CaptureFields DEF Agree, SameIdentity, Captures
<1> QED BY <1>3, <1>5, <1>6

LEMMA DrainingFields ==
  ASSUME TypeOK, AdvanceDraining
  PROVE  /\ SameIdentity /\ rec'.handle = rec.handle
         /\ rec'.began = rec.began /\ (rec.paused => rec'.paused)
         /\ rec'.phase = "draining" \/ rec.inFlight \/ rec'.paused
         /\ rec'.phase \in {"capturing", "failed"} => rec'.paused
         /\ rec'.inFlight => rec.inFlight /\ rec'.after = rec.after
         /\ rec.inFlight /\ Settles(rec) => Due("settle")
         /\ row' \in {row, Fenced} /\ row'.handle = row.handle
         /\ row'.status \in {"ready", "snapshotting"} => row.status = row'.status
         /\ due' \subseteq due /\ Captures(rec.handle, {"draining", "unknown", "failed"})
         /\ rec'.phase \notin {"draining", "unknown"} => ~rec'.inFlight /\ UNCHANGED src
         /\ \/ UNCHANGED src
            \/ /\ rec'.phase = "draining" /\ ~rec'.inFlight
               /\ src' = [src EXCEPT ![rec.gen].told = @ \/ rec.genReady]
<1> DEFINE r == IF HandOff THEN Released(rec) ELSE rec
           p == [r EXCEPT !.paused = TRUE]
<1>1. /\ r \in Records /\ Agree(rec, r) /\ r.phase = "draining"
      /\ r.inFlight => rec.inFlight /\ r.after = rec.after
  BY ReleasedType, ReleasedFields DEF AdvanceDraining, TypeOK, Agree
<1>2. /\ p \in Records /\ p.paused /\ p.inFlight = r.inFlight
      /\ p.gen = rec.gen /\ p.handle = rec.handle /\ p.invoked = rec.invoked
      /\ p.receipt = rec.receipt /\ p.discarding = rec.discarding /\ p.began = rec.began
  <2> HIDE DEF r
  <2> QED BY <1>1 DEF Records, Agree
<1>3. rec.inFlight /\ Settles(rec) => Due("settle")
  BY DEF AdvanceDraining, HandOff
<1>4. \/ rec' = Failed(r, "unknown", FALSE) /\ r.inFlight /\ UNCHANGED <<row, cp, src, asks, due>>
      \/ /\ ~r.inFlight /\ \E late : Capture(p, late)
         /\ due' \subseteq due /\ row' = Fenced /\ UNCHANGED src
      \/ /\ rec' = r /\ ~r.inFlight
         /\ src' = [src EXCEPT ![rec.gen].told = @ \/ rec.genReady]
         /\ UNCHANGED <<row, cp, asks, due>>
  BY DEF AdvanceDraining
<1> HIDE DEF r, p
<1>5. CASE rec' = Failed(r, "unknown", FALSE) /\ r.inFlight /\ UNCHANGED <<row, cp, src, asks, due>>
  <2>1. /\ rec'.phase = "unknown" /\ Agree(r, rec') /\ rec'.inFlight = r.inFlight
        /\ rec'.after = r.after
    BY <1>1, <1>5 DEF Failed, Records, Agree
  <2> QED BY <1>1, <1>3, <1>5, <2>1 DEF Agree, SameIdentity, Captures
<1>6. CASE /\ ~r.inFlight /\ \E late : Capture(p, late)
           /\ due' \subseteq due /\ row' = Fenced /\ UNCHANGED src
  <2>1. row'.handle = row.handle /\ row'.status \notin {"ready", "snapshotting"}
    BY <1>6, FencedFields DEF TypeOK
  <2> QED BY <1>2, <1>3, <1>6, <2>1, CaptureFields DEF Agree, SameIdentity, Captures
<1>7. CASE /\ rec' = r /\ ~r.inFlight
           /\ src' = [src EXCEPT ![rec.gen].told = @ \/ rec.genReady]
           /\ UNCHANGED <<row, cp, asks, due>>
  BY <1>1, <1>3, <1>7 DEF Agree, SameIdentity, Captures
<1> QED BY <1>4, <1>5, <1>6, <1>7

LEMMA PreparedFields ==
  ASSUME TypeOK, Prepared
  PROVE  /\ SameIdentity /\ rec'.handle = rec.handle /\ rec'.inFlight = rec.inFlight
         /\ rec'.began = rec.began /\ (rec.paused => rec'.paused)
         /\ rec'.phase \in {"capturing", "failed"} => rec'.paused
         /\ rec'.phase = "prepared" => src[rec.gen].quiet
         /\ row' \in {row, Fenced} /\ row'.handle = row.handle
         /\ row'.status \in {"ready", "snapshotting"} => row.status = row'.status
         /\ Captures(rec.handle, {"prepared", "failed"})
<1>1. CASE rec' = [rec EXCEPT !.phase = "prepared"] /\ src[rec.gen].quiet /\ UNCHANGED <<row, cp, asks>>
  BY <1>1, FencedFields DEF SameIdentity, Captures, TypeOK, Records
<1>2. CASE row' = Fenced /\ Capture([rec EXCEPT !.paused = TRUE], Due("capture"))
  <2> DEFINE p == [rec EXCEPT !.paused = TRUE]
  <2>1. /\ p \in Records /\ p.paused /\ p.inFlight = rec.inFlight
        /\ p.gen = rec.gen /\ p.handle = rec.handle /\ p.invoked = rec.invoked
        /\ p.receipt = rec.receipt /\ p.discarding = rec.discarding /\ p.began = rec.began
    BY DEF TypeOK, Records
  <2>2. Capture(p, Due("capture"))
    BY <1>2
  <2> HIDE DEF p
  <2>3. row' = Fenced /\ row'.handle = row.handle
        /\ row'.status \notin {"ready", "snapshotting"}
    BY <1>2, FencedFields DEF TypeOK
  <2> QED BY <2>1, <2>2, <2>3, CaptureFields DEF Agree, SameIdentity, Captures
<1> QED BY <1>1, <1>2 DEF Prepared

LEMMA CaptureSavedFields ==
  ASSUME TypeOK, CaptureSaved
  PROVE  /\ rec'.gen = rec.gen /\ rec'.handle = rec.handle /\ rec'.invoked = rec.invoked
         /\ rec'.discarding = rec.discarding /\ rec'.paused = rec.paused
         /\ rec'.inFlight = rec.inFlight /\ rec'.after = rec.after
         /\ rec'.began = rec.began
         /\ cp'.capture = 0 /\ cp'.start = cp.start /\ cp'.asked = cp.asked
         /\ cp'.watch = cp.watch /\ cp'.watchOf = cp.watchOf /\ cp'.ckpt = cp.ckpt
         /\ asks' \subseteq asks
         /\ \/ rec' = rec /\ cp'.retire = cp.retire
            \/ /\ rec.phase = "capturing" /\ rec'.receipt.gen = rec.gen
               /\ \E a \in CaptureAsk : rec'.receipt.work \in a.low .. src[rec.gen].work
               /\ \/ rec'.phase = "retiring" /\ cp'.retire = rec.gen
                  \/ rec'.phase = "unknown" /\ cp'.retire = cp.retire
<1>1. PICK a \in CaptureAsk :
        /\ a.gen = cp.capture /\ asks' = asks \ {a}
        /\ \E w \in a.low .. src[a.gen].work :
             IF OwnsCapture
             THEN Retire([rec EXCEPT !.phase = "retiring", !.receipt =
                            [gen |-> a.gen, work |-> w, shutdown |-> TRUE]],
                         [cp EXCEPT !.capture = 0])
             ELSE rec' = rec /\ cp' = [cp EXCEPT !.capture = 0]
  BY DEF CaptureSaved
<1>2. a \in Requests
  BY DEF CaptureAsk, TypeOK
<1>3. a.gen \in 0..MaxGens /\ a.low .. src[a.gen].work \subseteq 0..MaxWork
  BY <1>2, BoundsAssumption DEF Requests, Gens, TypeOK, Sources
<1> DEFINE c == [cp EXCEPT !.capture = 0]
<1>4. /\ c \in Memory /\ c.capture = 0 /\ c.start = cp.start /\ c.asked = cp.asked
      /\ c.retire = cp.retire /\ c.watch = cp.watch /\ c.watchOf = cp.watchOf
      /\ c.ckpt = cp.ckpt
  BY BoundsAssumption DEF TypeOK, Memory
<1>5. CASE ~OwnsCapture
  BY <1>1, <1>4, <1>5
<1>6. CASE OwnsCapture
  <2>1. PICK w \in a.low .. src[a.gen].work :
          Retire([rec EXCEPT !.phase = "retiring", !.receipt =
                    [gen |-> a.gen, work |-> w, shutdown |-> TRUE]], c)
    BY <1>1, <1>6
  <2> DEFINE r == [rec EXCEPT !.phase = "retiring", !.receipt =
                     [gen |-> a.gen, work |-> w, shutdown |-> TRUE]]
  <2>2. /\ r \in Records /\ r.phase = "retiring" /\ r.receipt.gen = a.gen
        /\ r.gen = rec.gen /\ r.handle = rec.handle /\ r.invoked = rec.invoked
        /\ r.discarding = rec.discarding /\ r.paused = rec.paused
        /\ r.inFlight = rec.inFlight /\ r.after = rec.after /\ r.began = rec.began
        /\ r.receipt.work = w
    BY <1>3 DEF TypeOK, Records, Phases
  <2>3. Retire(r, c)
    BY <2>1
  <2>4. a.gen = rec.gen /\ rec.phase = "capturing"
    BY <1>1, <1>6 DEF OwnsCapture
  <2> HIDE DEF r, c
  <2>5. /\ cp'.capture = 0 /\ cp'.start = cp.start /\ cp'.asked = cp.asked
        /\ cp'.watch = cp.watch /\ cp'.watchOf = cp.watchOf /\ cp'.ckpt = cp.ckpt
        /\ cp'.retire \in {rec.gen, cp.retire}
        /\ rec'.phase # "retiring" => cp'.retire = cp.retire
        /\ rec'.phase = "retiring" => cp'.retire = rec.gen
    <3>1. CASE rec'.phase = "unknown" /\ cp' = c
      BY <1>4, <3>1
    <3>2. CASE rec' = r /\ cp' = [c EXCEPT !.retire = r.gen]
      BY <1>4, <2>2, <3>2 DEF Memory
    <3> QED BY <1>4, <2>2, <2>3, <3>1, <3>2, RetireFields
  <2> QED BY <1>1, <1>4, <2>2, <2>3, <2>4, <2>5, RetireFields DEF Agree
<1> QED BY <1>5, <1>6

LEMMA SteadyServing ==
  ASSUME TypeOK, IdInv,
         \/ UNCHANGED vars
         \/ Dispatch \/ RefusedExit \/ RuntimeReady \/ GenerationReady \/ BootFails
         \/ WatchdogEnds \/ (\E g \in Gens : Work(g) \/ Quiesce(g))
  PROVE  Steady
<1> USE DEF Steady
<1>1. CASE UNCHANGED vars
  BY <1>1 DEF vars, IdInv, Handles
<1>2. CASE Dispatch
  BY <1>2 DEF Dispatch, IdInv, Handles, TypeOK, Sources
<1>3. CASE RefusedExit
  BY <1>3, StoppedOnlyEnds DEF RefusedExit, IdInv, Handles, TypeOK
<1>4. CASE RuntimeReady
  BY <1>4 DEF RuntimeReady, IdInv, Handles, TypeOK, Records, Rows
<1>5. CASE GenerationReady
  BY <1>5 DEF GenerationReady, IdInv, Handles, TypeOK, Records
<1>6. CASE BootFails
  BY <1>6, StoppedOnlyEnds DEF BootFails, IdInv, Handles, TypeOK, Rows
<1>7. CASE WatchdogEnds
  <2>1. cp'.start = cp.start /\ cp'.asked = cp.asked
    BY <1>7 DEF WatchdogEnds, TypeOK, Memory
  <2>2. \A g \in Gens : src'[g].alive => src[g].alive
    BY <1>7, StoppedOnlyEnds DEF WatchdogEnds, TypeOK
  <2> QED BY <1>7, <2>1, <2>2 DEF WatchdogEnds, IdInv, Handles
<1>8. CASE \E g \in Gens : Work(g) \/ Quiesce(g)
  BY <1>8 DEF Work, Quiesce, IdInv, Handles, TypeOK, Sources
<1> QED BY <1>1, <1>2, <1>3, <1>4, <1>5, <1>6, <1>7, <1>8

LEMMA SteadyCheckpoint ==
  ASSUME TypeOK, IdInv,
         \/ Complete \/ HeartbeatStale \/ CheckpointSaved \/ CheckpointUnconfirmed
         \/ SettleRunning
  PROVE  Steady
<1> USE DEF Steady
<1>1. CASE Complete
  <2>1. \A g \in Gens : src'[g].alive => src[g].alive
    BY <1>1 DEF Complete, TypeOK, Sources
  <2>2. CASE UNCHANGED <<rec, row, cp, asks, due>>
    BY <1>1, <2>1, <2>2 DEF Complete, IdInv, Handles
  <2>3. CASE /\ CheckpointAdmitted
             /\ BeginCheckpoint("continue", IF Dead THEN row.status ELSE "snapshotting")
             /\ cp' = [cp EXCEPT !.ckpt = rec.gen]
    <3>1. /\ rec'.gen = rec.gen /\ rec'.handle = rec.handle /\ rec'.invoked = rec.invoked
          /\ rec'.receipt = rec.receipt /\ rec'.phase = rec.phase
      BY <2>3 DEF BeginCheckpoint, TypeOK, Records
    <3>2. rec.handle # 0
      BY <2>3 DEF CheckpointAdmitted, Admission
    <3>3. row'.handle = row.handle /\ cp'.start = cp.start /\ cp'.asked = cp.asked /\ due' \subseteq due
      BY <2>3 DEF BeginCheckpoint, TypeOK, Rows, Memory
    <3> QED BY <1>1, <2>1, <3>1, <3>2, <3>3 DEF Complete, IdInv, Handles
  <2> QED BY <1>1, <2>2, <2>3 DEF Complete
<1>2. CASE HeartbeatStale
  <2>1. CASE CheckpointAdmitted
    <3>1. /\ rec'.gen = rec.gen /\ rec'.handle = rec.handle /\ rec'.invoked = rec.invoked
          /\ rec'.receipt = rec.receipt /\ rec'.phase = rec.phase
      BY <1>2, <2>1 DEF HeartbeatStale, BeginCheckpoint, TypeOK, Records
    <3>2. rec.handle # 0
      BY <2>1 DEF CheckpointAdmitted, Admission
    <3>3. row'.handle = row.handle /\ row'.status = "stale" /\ cp'.start = cp.start /\ cp'.asked = cp.asked
          /\ due' \subseteq due
      BY <1>2, <2>1 DEF HeartbeatStale, BeginCheckpoint, TypeOK, Rows, Memory
    <3> QED BY <1>2, <3>1, <3>2, <3>3 DEF HeartbeatStale, IdInv, Handles
  <2>2. CASE ~CheckpointAdmitted
    <3>1. row'.handle = row.handle /\ row'.status = "stale" /\ cp'.start = cp.start /\ cp'.asked = cp.asked
      BY <1>2, <2>2 DEF HeartbeatStale, TypeOK, Rows, Memory
    <3> QED BY <1>2, <2>2, <3>1 DEF HeartbeatStale, IdInv, Handles
  <2> QED BY <2>1, <2>2
<1>3. CASE CheckpointSaved
  <2>1. PICK a \in CheckpointAsk : \E w :
          /\ src[a.gen].alive
          /\ rec' = IF OwnsCheckpoint
                    THEN [Released(rec) EXCEPT !.receipt =
                            [gen |-> a.gen, work |-> w, shutdown |-> FALSE]]
                    ELSE rec
          /\ row' = IF OwnsCheckpoint /\ a.kind = "continue" /\ row.status = "snapshotting"
                    THEN [row EXCEPT !.status = "ready"] ELSE row
          /\ cp' = [Watched(cp, rec'.phase # "running") EXCEPT !.ckpt = 0]
    BY <1>3 DEF CheckpointSaved
  <2>2. cp'.start = cp.start /\ cp'.asked = cp.asked
    BY <2>1 DEF Watched, TypeOK, Memory
  <2>3. row'.handle = row.handle
        /\ (row'.status \in {"ready", "snapshotting"} => row.status \in {"ready", "snapshotting"})
    BY <2>1 DEF TypeOK, Rows
  <2>4. CASE OwnsCheckpoint
    <3>0. PICK w : rec' = [Released(rec) EXCEPT !.receipt =
                            [gen |-> a.gen, work |-> w, shutdown |-> FALSE]]
      BY <2>1, <2>4
    <3>1. /\ rec'.gen = rec.gen /\ rec'.handle = rec.handle /\ rec'.invoked = rec.invoked
          /\ rec'.receipt.gen = a.gen /\ rec'.phase = rec.phase /\ ~rec'.inFlight
      BY <3>0 DEF Released, TypeOK, Records
    <3>2. rec.handle # 0 /\ a.gen = rec.gen
      BY <2>4 DEF OwnsCheckpoint, CheckpointAsk, IdInv, Handles
    <3>3. rec.phase \notin {"none", "saved"}
      BY <2>4 DEF OwnsCheckpoint
    <3> QED BY <1>3, <2>2, <2>3, <3>1, <3>2, <3>3 DEF CheckpointSaved
  <2>5. CASE ~OwnsCheckpoint
    BY <1>3, <2>1, <2>2, <2>3, <2>5 DEF CheckpointSaved, IdInv, Handles
  <2> QED BY <2>4, <2>5
<1>4. CASE CheckpointUnconfirmed
  <2>1. /\ rec'.gen = rec.gen /\ rec'.handle = rec.handle /\ rec'.invoked = rec.invoked
        /\ rec'.receipt = rec.receipt /\ rec'.phase \in {rec.phase, "unknown"}
        /\ rec'.inFlight => rec.inFlight
        /\ rec.phase = "none" => rec' = rec
    BY <1>4 DEF CheckpointUnconfirmed, OwnsCheckpoint, Released, Failed, TypeOK, Records
  <2>2. cp'.start = cp.start /\ cp'.asked = cp.asked
    BY <1>4 DEF CheckpointUnconfirmed, Watched, TypeOK, Memory
  <2> QED BY <1>4, <2>1, <2>2 DEF CheckpointUnconfirmed, IdInv, Handles
<1>5. CASE SettleRunning
  <2>1. /\ rec'.gen = rec.gen /\ rec'.handle = rec.handle /\ rec'.invoked = rec.invoked
        /\ rec'.receipt = rec.receipt /\ rec'.phase \in {"running", "unknown"}
        /\ rec.phase = "running" /\ rec.inFlight
    <3>1. \/ rec' = Failed([rec EXCEPT !.after = "none"], "unknown", FALSE)
          \/ \E u : rec' = Failed([Released(rec) EXCEPT !.inFlight = u], "unknown", FALSE)
          \/ rec' = Released(rec) \/ rec' = [rec EXCEPT !.deferred = TRUE]
      BY <1>5 DEF SettleRunning
    <3>2. rec.phase = "running" /\ rec.inFlight
      BY <1>5 DEF SettleRunning
    <3>3. CASE rec' = Failed([rec EXCEPT !.after = "none"], "unknown", FALSE)
      BY <3>2, <3>3 DEF Failed, TypeOK, Records
    <3>4. CASE \E u : rec' = Failed([Released(rec) EXCEPT !.inFlight = u], "unknown", FALSE)
      <4>1. PICK u : rec' = Failed([Released(rec) EXCEPT !.inFlight = u], "unknown", FALSE)
        BY <3>4
      <4> QED BY <3>2, <4>1 DEF Failed, Released, TypeOK, Records
    <3>5. CASE rec' = Released(rec) \/ rec' = [rec EXCEPT !.deferred = TRUE]
      BY <3>2, <3>5 DEF Released, TypeOK, Records
    <3> QED BY <3>1, <3>3, <3>4, <3>5
  <2>2. row'.handle = row.handle
        /\ (row'.status \in {"ready", "snapshotting"} => row.status \in {"ready", "snapshotting"})
    BY <1>5 DEF SettleRunning, TypeOK, Rows
  <2> QED BY <1>5, <2>1, <2>2 DEF SettleRunning, IdInv, Handles
<1> QED BY <1>1, <1>2, <1>3, <1>4, <1>5

LEMMA SteadyShutdown ==
  ASSUME TypeOK, IdInv,
         \/ RequestShutdown \/ Emergency \/ RecordFailure \/ ClearFailure
         \/ AdvanceDraining \/ Prepared \/ AdvancePrepared \/ AdvanceCapturing
         \/ CaptureSaved \/ CaptureUnconfirmed
         \/ AdvanceRetiring \/ StopConfirmed \/ StopUnconfirmed
  PROVE  Steady
<1> USE DEF Steady
<1>1. CASE RequestShutdown
  <2>1. PICK paused \in BOOLEAN :
          rec' = [rec EXCEPT !.phase = "draining", !.paused = paused,
                             !.failure = FALSE, !.began = TRUE]
    BY <1>1 DEF RequestShutdown
  <2>2. /\ rec'.gen = rec.gen /\ rec'.handle = rec.handle /\ rec'.invoked = rec.invoked
        /\ rec'.receipt = rec.receipt /\ rec'.phase = "draining"
        /\ rec'.inFlight = rec.inFlight /\ rec.phase = "running"
    BY <1>1, <2>1 DEF RequestShutdown, TypeOK, Records
  <2>3. "expiry" \in due' => "expiry" \in due
    <3>1. PICK spent \in Spent : due' = (due \ Window) \cup spent
      BY <1>1 DEF RequestShutdown
    <3>2. "expiry" \notin spent
      BY DEF Spent
    <3> QED BY <3>1, <3>2
  <2> QED BY <1>1, <2>2, <2>3 DEF RequestShutdown, IdInv, Handles
<1>2. CASE Emergency
  <2>1. rec.phase \in {"running", "restoring"} /\ ~rec.inFlight
        /\ (src[rec.gen].alive \/ row.status = "ready")
    BY <1>2 DEF Emergency
  <2>2. row.handle = rec.handle
    BY <2>1 DEF IdInv, Handles, PriorHandle, Generation, TypeOK, Records, Rows
  <2>3. "expiry" \in due' => "expiry" \in due
    BY <1>2 DEF Emergency
  <2>4. rec'.phase \notin {"none", "saved", "retiring"}
    BY <1>2, EmergencyFields DEF Captures
  <2>5. cp'.start = cp.start /\ cp'.asked = cp.asked
    BY <1>2, EmergencyFields DEF Captures, TypeOK, Memory
  <2>6. rec'.phase = "capturing" \/ rec'.inFlight => rec.handle # 0
    BY <1>2, <2>1, <2>2, EmergencyFields DEF Captures
  <2> QED BY <1>2, <2>1, <2>2, <2>3, <2>4, <2>5, <2>6, EmergencyFields
          DEF Emergency, SameIdentity
<1>3. CASE RecordFailure \/ ClearFailure
  BY <1>3 DEF RecordFailure, ClearFailure, IdInv, Handles, TypeOK, Records
<1>4. CASE AdvanceDraining
  <2>1. cp'.start = cp.start /\ cp'.asked = cp.asked
    BY <1>4, DrainingFields DEF Captures, TypeOK, Memory
  <2>2. \A g \in Gens : src'[g].alive => src[g].alive
    BY <1>4, DrainingFields DEF TypeOK, Sources
  <2>3. rec'.phase \notin {"none", "saved", "retiring"} /\ (rec'.phase = "capturing" => rec.handle # 0)
    BY <1>4, DrainingFields DEF Captures
  <2>4. rec'.inFlight => rec.handle # 0
    BY <1>4, DrainingFields DEF IdInv, Handles
  <2> QED BY <1>4, <2>1, <2>2, <2>3, <2>4, DrainingFields DEF AdvanceDraining, SameIdentity
<1>5. CASE Prepared
  <2>1. cp'.start = cp.start /\ cp'.asked = cp.asked
    BY <1>5, PreparedFields DEF Captures, TypeOK, Memory
  <2>2. rec'.phase \notin {"none", "saved", "retiring"} /\ (rec'.phase = "capturing" => rec.handle # 0)
    BY <1>5, PreparedFields DEF Captures
  <2> QED BY <1>5, <2>1, <2>2, PreparedFields DEF Prepared, SameIdentity, IdInv, Handles
<1>6. CASE AdvancePrepared
  <2>1. cp'.start = cp.start /\ cp'.asked = cp.asked
    BY <1>6, CaptureFields DEF AdvancePrepared, TypeOK, Memory
  <2> QED BY <1>6, <2>1, CaptureFields DEF AdvancePrepared, Agree, IdInv, Handles, TypeOK
<1>7. CASE AdvanceCapturing
  BY <1>7 DEF AdvanceCapturing, Failed, IdInv, Handles, TypeOK, Records
<1>8. CASE CaptureSaved
  <2>1. rec.phase = "capturing" => rec.handle # 0
    BY DEF IdInv, Handles
  <2> QED BY <1>8, <2>1, CaptureSavedFields DEF CaptureSaved, IdInv, Handles
<1>9. CASE CaptureUnconfirmed
  <2>1. /\ rec'.gen = rec.gen /\ rec'.handle = rec.handle /\ rec'.invoked = rec.invoked
        /\ rec'.receipt = rec.receipt /\ rec'.inFlight = rec.inFlight
        /\ rec' = rec \/ (rec.phase = "capturing" /\ rec'.phase = "unknown")
    BY <1>9 DEF CaptureUnconfirmed, OwnsCapture, Failed, TypeOK, Records
  <2>2. cp'.start = cp.start /\ cp'.asked = cp.asked
    BY <1>9 DEF CaptureUnconfirmed, TypeOK, Memory
  <2> QED BY <1>9, <2>1, <2>2 DEF CaptureUnconfirmed, IdInv, Handles
<1>10. CASE AdvanceRetiring
  <2>1. cp'.start = cp.start /\ cp'.asked = cp.asked
    BY <1>10, RetireFields DEF AdvanceRetiring, TypeOK, Memory
  <2> QED BY <1>10, <2>1, RetireFields DEF AdvanceRetiring, Agree, IdInv, Handles, TypeOK
<1>11. CASE StopConfirmed
  <2>1. cp'.start = cp.start /\ cp'.asked = cp.asked
    BY <1>11 DEF StopConfirmed, TypeOK, Memory
  <2>2. CASE OwnsRetire /\ Finish(rec)
    <3>1. rec.handle # 0 => rec.handle \in Gens
      BY BoundsAssumption DEF TypeOK, Records, Gens
    <3>2. \A g \in Gens : src'[g].alive => src[g].alive
      BY <1>11, StoppedOnlyEnds DEF StopConfirmed, TypeOK
    <3>3. rec.handle # 0 => ~src'[rec.handle].alive
      BY <1>11, <3>1, StoppedOnlyEnds DEF StopConfirmed, TypeOK
    <3>4. rec.phase # "none" /\ rec'.receipt = rec.receipt
      BY <2>2, FinishFields DEF OwnsRetire, Agree, TypeOK
    <3> QED BY <1>11, <2>1, <2>2, <3>2, <3>3, <3>4, FinishFields
            DEF StopConfirmed, Agree, IdInv, Handles, TypeOK
  <2>3. CASE UNCHANGED <<rec, row>>
    <3>1. \A g \in Gens : src'[g].alive => src[g].alive
      BY <1>11, StoppedOnlyEnds DEF StopConfirmed, TypeOK
    <3> QED BY <1>11, <2>1, <2>3, <3>1 DEF StopConfirmed, IdInv, Handles
  <2> QED BY <1>11, <2>2, <2>3 DEF StopConfirmed
<1>12. CASE StopUnconfirmed
  <2>1. cp'.start = cp.start /\ cp'.asked = cp.asked
    BY <1>12 DEF StopUnconfirmed, TypeOK, Memory
  <2>2. \A g \in Gens : src'[g].alive => src[g].alive
    BY <1>12, StoppedOnlyEnds DEF StopUnconfirmed, TypeOK
  <2>3. /\ rec'.gen = rec.gen /\ rec'.handle = rec.handle /\ rec'.invoked = rec.invoked
        /\ rec'.receipt = rec.receipt /\ rec'.inFlight = rec.inFlight
        /\ rec' = rec \/ (rec.phase = "retiring" /\ rec'.phase = "unknown")
    BY <1>12 DEF StopUnconfirmed, OwnsRetire, Failed, TypeOK, Records
  <2> QED BY <1>12, <2>1, <2>2, <2>3 DEF StopUnconfirmed, IdInv, Handles
<1> QED BY <1>1, <1>2, <1>3, <1>4, <1>5, <1>6, <1>7, <1>8, <1>9, <1>10, <1>11, <1>12

LEMMA SteadyRecovery ==
  ASSUME TypeOK, IdInv,
         \/ AutoRetry \/ RecoverRetry \/ RecoverPaused \/ RecoverSaved \/ RecoverDiscard
         \/ \E d \in Deadlines \ {"expiry"} : Passes(d)
  PROVE  Steady
<1> USE DEF Steady
<1>1. CASE AutoRetry \/ RecoverRetry
  <2>1. /\ RetryCapture /\ UNCHANGED <<src, creating>>
        /\ rec.phase \in {"failed", "unknown"}
    BY <1>1 DEF AutoRetry, RecoverRetry, Offered
  <2>2. Capture(rec, FALSE) /\ row' = Fenced /\ due' \subseteq due /\ rec.handle # 0
    BY <2>1 DEF RetryCapture, CanRetry
  <2>3. cp'.start = cp.start /\ cp'.asked = cp.asked
    BY <2>2, CaptureFields DEF TypeOK, Memory
  <2>4. row'.handle = row.handle /\ row'.status \notin {"ready", "snapshotting"}
    BY <2>2, FencedFields DEF TypeOK
  <2>5. Agree(rec, rec') /\ rec'.phase \in {"failed", "capturing"}
    BY <2>2, CaptureFields DEF TypeOK
  <2> QED BY <2>1, <2>2, <2>3, <2>4, <2>5 DEF Agree
<1>2. CASE RecoverPaused
  BY <1>2 DEF RecoverPaused, IdInv, Handles, TypeOK, Records
<1>3. CASE RecoverSaved
  <2> DEFINE next == [rec EXCEPT !.phase = "retiring", !.paused = FALSE]
  <2>1. /\ next \in Records /\ next.gen = rec.gen /\ next.handle = rec.handle
        /\ next.invoked = rec.invoked /\ next.receipt = rec.receipt
        /\ next.inFlight = rec.inFlight /\ next.phase = "retiring"
    BY DEF TypeOK, Records, Phases
  <2>2. /\ rec.phase \in {"failed", "unknown"} /\ UNCHANGED <<src, creating>>
        /\ due' \subseteq due
    BY <1>3 DEF RecoverSaved, Offered
  <2>3. CASE Finish(next) /\ UNCHANGED cp /\ (Due("expiry") \/ rec.handle = 0)
    <3> HIDE DEF next
    <3>1. rec.handle # 0 => ~src'[rec.handle].alive
      BY <2>2, <2>3 DEF IdInv, Expired
    <3> QED BY <2>1, <2>2, <2>3, <3>1, FinishFields DEF Agree, IdInv, Handles
  <2>4. CASE /\ rec' = next /\ cp' = [cp EXCEPT !.retire = rec.gen] /\ UNCHANGED row
             /\ rec.handle # 0
    <3>1. cp'.start = cp.start /\ cp'.asked = cp.asked
      BY <2>4 DEF TypeOK, Memory
    <3> HIDE DEF next
    <3> QED BY <2>1, <2>2, <2>4, <3>1 DEF IdInv, Handles
  <2>5. rec.handle # 0 \/ Due("expiry") \/ rec.retired
    BY <1>3 DEF RecoverSaved, CanRestoreSaved, Offered
  <2> QED BY <1>3, <2>3, <2>4, <2>5 DEF RecoverSaved
<1>4. CASE RecoverDiscard
  BY <1>4 DEF RecoverDiscard, IdInv, Handles, TypeOK, Records, Memory
<1>5. ASSUME NEW d \in Deadlines \ {"expiry"}, Passes(d) PROVE Steady
  BY <1>5 DEF Passes, IdInv, Handles
<1> QED BY <1>1, <1>2, <1>3, <1>4, <1>5

(***************************************************************************)
(* The remaining steps start a generation, end one, or lose its callers.   *)
(***************************************************************************)
LEMMA IdSpawn == ASSUME TypeOK, IdInv, Spawn PROVE IdInv'
<1> USE BoundsAssumption DEF IdInv
<1>1. CASE Reserve(rec.receipt.gen # 0)
  <2> DEFINE g == rec.gen + 1
  <2>1. g \in Gens /\ rec.gen \in 0..MaxGens /\ g > rec.gen
    BY DEF Spawn, TypeOK, Records, Gens
  <2>2. /\ rec'.gen = g /\ rec'.handle = 0 /\ rec'.receipt = rec.receipt
        /\ rec'.phase \in {"restoring", "running"}
        /\ ~rec'.invoked /\ ~rec'.inFlight /\ ~rec'.discarding
    BY <1>1 DEF Reserve, Blank
  <2>3. row'.handle = row.handle /\ row'.status = "starting"
    BY <1>1 DEF Reserve, TypeOK, Rows
  <2>4. cp'.start = g /\ due' = {} /\ creating' = creating
    BY <1>1 DEF Reserve, Spawn, TypeOK, Memory
  <2>5. \A h \in Gens : src'[h].alive => src[h].alive
    BY StoppedOnlyEnds DEF Spawn, TypeOK
  <2>6. Generation'
    BY <2>1, <2>2, <2>3, <2>4, <2>5 DEF Generation, Gens
  <2>7. Handles'
    BY <2>1, <2>2, <2>3, <2>4 DEF Handles, Generation
  <2>8. PriorHandle'
    <3>1. ~src[g].alive /\ g \notin creating
      BY <2>1 DEF Generation
    <3> QED BY <2>1, <2>2, <2>3, <2>4, <2>5, <3>1 DEF PriorHandle
  <2>9. Expired' /\ RetirementIsTrue'
    BY <2>2, <2>4 DEF Expired, Due, RetirementIsTrue
  <2> QED BY <2>6, <2>7, <2>8, <2>9
<1>2. CASE ~Reserve(rec.receipt.gen # 0)
  <2>1. /\ \E b : rec' = Failed([rec EXCEPT !.retired = b], "unknown", FALSE)
        /\ rec.receipt.gen # 0 /\ UNCHANGED <<row, cp, due, processing, user, src, creating>>
    BY <1>2 DEF Spawn
  <2>2. /\ rec'.gen = rec.gen /\ rec'.handle = rec.handle /\ rec'.invoked = rec.invoked
        /\ rec'.receipt = rec.receipt /\ rec'.phase = "unknown"
        /\ rec'.inFlight = rec.inFlight /\ rec'.discarding = rec.discarding
    <3>1. PICK b : rec' = Failed([rec EXCEPT !.retired = b], "unknown", FALSE)
      BY <2>1
    <3> QED BY <3>1 DEF Failed, TypeOK, Records
  <2>3. rec.phase # "none"
    BY <2>1 DEF Generation, TypeOK, Records
  <2>4. Steady
    BY <2>1, <2>2, <2>3 DEF Steady, Handles
  <2> QED BY <2>4, SteadyKeeps
<1> QED BY <1>1, <1>2

LEMMA IdInvoke == ASSUME TypeOK, IdInv, InvokeProvider PROVE IdInv'
<1> USE BoundsAssumption DEF IdInv
<1>1. /\ rec'.gen = rec.gen /\ rec'.handle = rec.handle /\ rec'.receipt = rec.receipt
      /\ rec'.phase = rec.phase /\ rec'.inFlight = rec.inFlight
      /\ rec'.discarding = rec.discarding
  BY DEF InvokeProvider, TypeOK, Records
<1>2. row'.handle = 0 /\ cp'.start = cp.start /\ cp.start = rec.gen /\ cp.start # 0
  BY DEF InvokeProvider, TypeOK, Rows, Memory, Generation
<1>3. \A h \in Gens : src'[h].alive => src[h].alive
  BY StoppedOnlyEnds DEF InvokeProvider, TypeOK
<1>4. creating' = creating \cup {cp.start} /\ due' = due /\ rec.handle = 0
  BY <1>2 DEF InvokeProvider, Handles
<1>5. rec.gen \in 0..MaxGens
  BY DEF TypeOK, Records
<1>6. Generation'
  <2>1. creating' \subseteq 1..rec'.gen
    <3>1. cp.start \in 1..rec.gen
      BY <1>2, <1>5
    <3>2. creating \subseteq 1..rec.gen
      BY DEF Generation
    <3> QED BY <1>1, <1>4, <3>1, <3>2
  <2>2. \A g \in Gens : g > rec'.gen => ~src'[g].alive
    BY <1>1, <1>3 DEF Generation
  <2> QED BY <1>1, <1>2, <1>5, <2>1, <2>2 DEF Generation
<1>7. Handles' /\ PriorHandle'
  BY <1>1, <1>2, <1>3, <1>4, <1>5 DEF Handles, PriorHandle
<1>8. Expired' /\ RetirementIsTrue'
  BY <1>1, <1>2, <1>3, <1>4, <1>5 DEF Expired, Due, RetirementIsTrue, CoversSource, Gens
<1> QED BY <1>6, <1>7, <1>8

LEMMA IdCreates ==
  ASSUME TypeOK, IdInv, NEW g \in Gens, ProviderCreates(g) PROVE IdInv'
<1> USE BoundsAssumption DEF IdInv
<1>1. /\ g \in creating /\ creating' = creating \ {g}
      /\ UNCHANGED <<rec, row, cp, due>>
  BY DEF ProviderCreates
<1>2. \A h \in Gens \ {g} : src'[h] = src[h]
  BY DEF ProviderCreates, TypeOK, Sources
<1>3. g \in 1..rec.gen /\ rec.gen \in 0..MaxGens
  BY <1>1 DEF Generation, TypeOK, Records
<1>4. g = rec.gen => rec.handle = 0 /\ rec.receipt.gen # rec.gen /\ row.handle \in {0, rec.gen}
  BY <1>1, <1>3 DEF Handles, PriorHandle
<1>5. Generation' /\ Handles'
  BY <1>1, <1>2, <1>3 DEF Generation, Handles, Gens
<1>6. PriorHandle' /\ Expired' /\ RetirementIsTrue'
  BY <1>1, <1>2, <1>3, <1>4
  DEF PriorHandle, Expired, Due, RetirementIsTrue, CoversSource, Handles, Gens
<1> QED BY <1>5, <1>6

LEMMA IdAnswers == ASSUME TypeOK, IdInv, ProviderAnswers PROVE IdInv'
<1> USE BoundsAssumption DEF IdInv
<1>1. /\ cp'.start = 0 /\ ~cp'.asked /\ UNCHANGED <<creating, due>>
      /\ cp.start = rec.gen /\ cp.start # 0 /\ cp.start \notin creating
  BY DEF ProviderAnswers, TypeOK, Memory, Generation
<1>2. rec.gen \in 0..MaxGens /\ rec.handle = 0
  BY <1>1 DEF TypeOK, Records, Handles
<1>3. \A h \in Gens : src'[h].alive => src[h].alive
  BY StoppedOnlyEnds DEF ProviderAnswers, TypeOK
<1>4. CASE UNCHANGED <<rec, row>>
  <2>1. Generation' /\ Handles' /\ PriorHandle'
    BY <1>1, <1>2, <1>3, <1>4 DEF Generation, Handles, PriorHandle, Gens
  <2>2. Expired' /\ RetirementIsTrue'
    BY <1>1, <1>2, <1>3, <1>4 DEF Expired, Due, RetirementIsTrue, CoversSource, Gens
  <2> QED BY <2>1, <2>2
<1>5. CASE /\ row' = [row EXCEPT !.handle = cp.start] /\ UNCHANGED src
           /\ rec' = [rec EXCEPT !.phase = IF @ = "restoring" THEN "running" ELSE @,
                        !.invoked = FALSE, !.handle = cp.start, !.retired = FALSE]
  <2>1. row'.handle = rec.gen
    BY <1>1, <1>5 DEF TypeOK, Rows
  <2>2. /\ rec'.gen = rec.gen /\ rec'.handle = rec.gen /\ rec'.receipt = rec.receipt
        /\ ~rec'.invoked /\ rec'.discarding = rec.discarding
        /\ rec'.phase = rec.phase \/ (rec.phase = "restoring" /\ rec'.phase = "running")
    BY <1>1, <1>5 DEF TypeOK, Records
  <2>3. Generation' /\ Handles' /\ PriorHandle'
    BY <1>1, <1>2, <1>5, <2>1, <2>2 DEF Generation, Handles, PriorHandle
  <2>4. Expired' /\ RetirementIsTrue'
    BY <1>1, <1>2, <1>5, <2>2 DEF Expired, Due, RetirementIsTrue, CoversSource
  <2> QED BY <2>3, <2>4
<1> QED BY <1>4, <1>5 DEF ProviderAnswers

LEMMA IdStartFails == ASSUME TypeOK, IdInv, StartFails PROVE IdInv'
<1> USE BoundsAssumption DEF IdInv
<1>1. /\ cp'.start = 0 /\ ~cp'.asked /\ UNCHANGED <<due, src>>
      /\ cp.start = rec.gen /\ cp.start # 0 /\ creating' \subseteq creating
  BY DEF StartFails, TypeOK, Memory, Generation
<1>2. rec.gen \in 0..MaxGens /\ rec.handle = 0
  BY <1>1 DEF TypeOK, Records, Handles
<1>3. /\ rec'.gen = rec.gen /\ rec'.handle = rec.handle /\ rec'.receipt = rec.receipt
      /\ rec'.invoked = rec.invoked /\ rec'.discarding = rec.discarding
      /\ rec'.inFlight = rec.inFlight /\ rec'.phase \in {rec.phase, "unknown"}
      /\ rec'.phase = rec.phase \/ rec.receipt.gen # 0
  <2>1. \/ rec' = rec
        \/ /\ rec.receipt.gen # 0
           /\ \E b : rec' = Failed([rec EXCEPT !.retired = b], "unknown", FALSE)
    BY DEF StartFails
  <2>2. CASE \E b : rec' = Failed([rec EXCEPT !.retired = b], "unknown", FALSE)
    <3>1. PICK b : rec' = Failed([rec EXCEPT !.retired = b], "unknown", FALSE)
      BY <2>2
    <3> QED BY <2>1, <3>1 DEF Failed, TypeOK, Records
  <2> QED BY <2>1, <2>2
<1>4. /\ row'.handle = row.handle
      /\ row'.status \in {"ready", "snapshotting"} => row.status = row'.status
  BY DEF StartFails, TypeOK, Rows
<1>5. Generation' /\ Handles' /\ PriorHandle'
  BY <1>1, <1>2, <1>3, <1>4 DEF Generation, Handles, PriorHandle
<1>6. Expired' /\ RetirementIsTrue'
  BY <1>1, <1>2, <1>3 DEF Expired, Due, RetirementIsTrue, CoversSource
<1> QED BY <1>5, <1>6

LEMMA IdDiscardEnds == ASSUME TypeOK, IdInv, DiscardEnds PROVE IdInv'
<1> USE BoundsAssumption DEF IdInv
<1>1. /\ cp'.start = cp.start /\ cp'.asked = cp.asked /\ UNCHANGED <<creating, due>>
      /\ rec.discarding /\ rec.gen # 0
  BY DEF DiscardEnds, TypeOK, Memory, Generation
<1>2. \A h \in Gens : src'[h].alive => src[h].alive
  BY StoppedOnlyEnds DEF DiscardEnds, TypeOK
<1>3. CASE /\ rec' = Blank("running", rec.gen, TRUE, NoReceipt)
           /\ row' = [row EXCEPT !.status = "stopped", !.handle = 0]
  <2>1. /\ rec'.gen = rec.gen /\ rec'.handle = 0 /\ rec'.receipt.gen = 0
        /\ ~rec'.invoked /\ ~rec'.inFlight /\ ~rec'.discarding /\ rec'.phase = "running"
    BY <1>3 DEF Blank, NoReceipt
  <2>2. row'.handle = 0
    BY <1>3 DEF TypeOK, Rows
  <2>3. rec.gen \in 0..MaxGens
    BY DEF TypeOK, Records
  <2> QED BY <1>1, <1>2, <2>1, <2>2, <2>3
          DEF Generation, Handles, PriorHandle, Expired, Due, RetirementIsTrue
<1>4. CASE rec' = [rec EXCEPT !.discarding = FALSE] /\ UNCHANGED row
  <2>1. /\ rec'.gen = rec.gen /\ rec'.handle = rec.handle /\ rec'.receipt = rec.receipt
        /\ rec'.invoked = rec.invoked /\ ~rec'.discarding
        /\ rec'.inFlight = rec.inFlight /\ rec'.phase = rec.phase
    BY <1>4 DEF TypeOK, Records
  <2>2. Steady
    BY <1>1, <1>2, <1>4, <2>1 DEF Steady, Handles
  <2> QED BY <2>2, SteadyKeeps
<1> QED BY <1>3, <1>4 DEF DiscardEnds

LEMMA IdRestart == ASSUME TypeOK, IdInv, Restart PROVE IdInv'
<1> USE BoundsAssumption DEF IdInv
<1>1. cp'.start = 0 /\ ~cp'.asked /\ UNCHANGED <<row, src, creating, due>>
  BY DEF Restart, Idle
<1>2. rec' = rec \/ (/\ rec' = [rec EXCEPT !.phase = "unknown", !.handle = rec.handle]
                    /\ rec.phase \in {"restoring", "running"})
  BY DEF Restart, Handles, TypeOK, Records
<1>3. /\ rec'.gen = rec.gen /\ rec'.handle = rec.handle /\ rec'.receipt = rec.receipt
      /\ rec'.invoked = rec.invoked /\ rec'.discarding = rec.discarding
      /\ rec'.inFlight = rec.inFlight
      /\ rec'.phase = rec.phase \/ (rec.phase # "none" /\ rec'.phase = "unknown")
  BY <1>2 DEF TypeOK, Records
<1>4. rec.gen \in 0..MaxGens
  BY DEF TypeOK, Records
<1>5. Generation' /\ Handles' /\ PriorHandle'
  BY <1>1, <1>3, <1>4 DEF Generation, Handles, PriorHandle
<1>6. Expired' /\ RetirementIsTrue'
  BY <1>1, <1>3 DEF Expired, Due, RetirementIsTrue, CoversSource
<1> QED BY <1>5, <1>6

LEMMA IdExpires == ASSUME TypeOK, IdInv, Passes("expiry") PROVE IdInv'
<1> USE BoundsAssumption DEF IdInv
<1>1. /\ rec.handle # 0 /\ src' = Stopped(rec.handle) /\ due' = due \cup {"expiry"}
      /\ UNCHANGED <<rec, row, cp, creating>>
  BY DEF Passes, MayPass
<1>2. rec.handle \in Gens
  BY <1>1 DEF TypeOK, Records, Gens
<1>3. (\A h \in Gens : src'[h].alive => src[h].alive) /\ ~src'[rec.handle].alive
  BY <1>1, <1>2, StoppedOnlyEnds DEF TypeOK
<1>4. Generation' /\ Handles' /\ PriorHandle'
  BY <1>1, <1>2, <1>3 DEF Generation, Handles, PriorHandle, Gens
<1>5. Expired' /\ RetirementIsTrue'
  BY <1>1, <1>2, <1>3 DEF Expired, Due, RetirementIsTrue, CoversSource, Handles
<1> QED BY <1>4, <1>5

LEMMA IdInductive == TypeOK /\ IdInv /\ [Next]_vars => IdInv'
<1> SUFFICES ASSUME TypeOK, IdInv, [Next]_vars PROVE IdInv'
  OBVIOUS
<1>1. CASE Steady
  BY <1>1, SteadyKeeps
<1>2. CASE \E d \in Deadlines : Passes(d)
  <2>1. CASE \E d \in Deadlines \ {"expiry"} : Passes(d)
    BY <2>1, <1>1, SteadyRecovery
  <2>2. CASE Passes("expiry")
    BY <2>2, IdExpires
  <2> QED BY <1>2, <2>1, <2>2
<1>3. CASE \/ UNCHANGED vars
           \/ Dispatch \/ RefusedExit \/ RuntimeReady \/ GenerationReady \/ BootFails
           \/ WatchdogEnds \/ (\E g \in Gens : Work(g) \/ Quiesce(g))
  BY <1>1, <1>3, SteadyServing
<1>4. CASE \/ Complete \/ HeartbeatStale \/ CheckpointSaved \/ CheckpointUnconfirmed
           \/ SettleRunning
  BY <1>1, <1>4, SteadyCheckpoint
<1>5. CASE \/ RequestShutdown \/ Emergency \/ RecordFailure \/ ClearFailure
           \/ AdvanceDraining \/ Prepared \/ AdvancePrepared \/ AdvanceCapturing
           \/ CaptureSaved \/ CaptureUnconfirmed
           \/ AdvanceRetiring \/ StopConfirmed \/ StopUnconfirmed
  BY <1>1, <1>5, SteadyShutdown
<1>6. CASE AutoRetry \/ RecoverRetry \/ RecoverPaused \/ RecoverSaved \/ RecoverDiscard
  BY <1>1, <1>6, SteadyRecovery
<1>7. CASE \/ Spawn \/ InvokeProvider \/ ProviderAnswers \/ StartFails \/ DiscardEnds
           \/ Restart \/ \E g \in Gens : ProviderCreates(g)
  BY <1>7, IdSpawn, IdInvoke, IdAnswers, IdStartFails, IdDiscardEnds, IdRestart, IdCreates
<1> QED BY <1>2, <1>3, <1>4, <1>5, <1>6, <1>7 DEF Next

LEMMA IdHolds == Spec => []IdInv
<1>1. Init => IdInv
  <2> SUFFICES ASSUME Init PROVE IdInv
    OBVIOUS
  <2>1. rec.gen = 0 /\ rec.handle = 0 /\ rec.phase = "none" /\ rec.receipt.gen = 0
        /\ ~rec.inFlight /\ ~rec.invoked /\ ~rec.discarding
    BY DEF Init, Blank, NoReceipt
  <2>2. row.handle = 0 /\ cp.start = 0 /\ ~cp.asked
    BY DEF Init, Idle
  <2>3. \A g \in Gens : ~src[g].alive
    BY DEF Init
  <2>4. creating = {}
    BY DEF Init
  <2>5. Generation
    BY <2>1, <2>2, <2>3, <2>4 DEF Generation
  <2>6. Handles /\ PriorHandle
    BY <2>1, <2>2, <2>4 DEF Handles, PriorHandle
  <2>7. Expired /\ RetirementIsTrue
    BY <2>1, <2>2 DEF Expired, RetirementIsTrue
  <2> QED BY <2>5, <2>6, <2>7 DEF IdInv
<1> QED BY <1>1, IdInductive, TypeCorrect, PTL DEF Spec

(***************************************************************************)
(* A source whose own capture is recorded as saved and retired is gone:    *)
(* retire() and restore_saved() stop the handle the record names, and that *)
(* handle is the captured generation's.                                    *)
(***************************************************************************)
THEOREM RetirementIsProven == Spec => []RetirementIsTrue
<1>1. IdInv => RetirementIsTrue
  BY DEF IdInv
<1> QED BY <1>1, IdHolds, PTL

-----------------------------------------------------------------------------
(***************************************************************************)
(* An interrupted prompt.  The record that interrupts it is paused, and    *)
(* only the user's choice unpauses it or leads back to running.            *)
(***************************************************************************)
Waits ==
  user.interrupted =>
    rec.paused /\ rec.phase \in ShuttingDown \cup {"saved", "failed", "unknown"}

LEMMA WaitsWhileServing ==
  ASSUME TypeOK, Waits,
         \/ UNCHANGED <<rec, user>>
         \/ RuntimeReady \/ GenerationReady \/ Complete \/ HeartbeatStale
         \/ CheckpointSaved \/ CheckpointUnconfirmed \/ RecordFailure \/ ClearFailure
         \/ SettleRunning
  PROVE  Waits'
<1> USE DEF Waits, ShuttingDown
<1>1. CASE UNCHANGED <<rec, user>>
  BY <1>1
<1>2. CASE RuntimeReady \/ GenerationReady
  BY <1>2 DEF RuntimeReady, GenerationReady, TypeOK, Records
<1>3. CASE Complete
  BY <1>3 DEF Complete, BeginCheckpoint, TypeOK, Records
<1>4. CASE HeartbeatStale
  BY <1>4 DEF HeartbeatStale, BeginCheckpoint, TypeOK, Records
<1>5. CASE CheckpointSaved
  <2>1. rec'.phase = rec.phase /\ rec'.paused = rec.paused
    BY <1>5 DEF CheckpointSaved, Released, TypeOK, Records
  <2> QED BY <1>5, <2>1 DEF CheckpointSaved
<1>6. CASE CheckpointUnconfirmed
  <2>1. rec'.phase \in {rec.phase, "unknown"} /\ rec'.paused = rec.paused
    BY <1>6 DEF CheckpointUnconfirmed, Released, Failed, TypeOK, Records
  <2> QED BY <1>6, <2>1 DEF CheckpointUnconfirmed
<1>7. CASE RecordFailure \/ ClearFailure
  BY <1>7 DEF RecordFailure, ClearFailure, TypeOK, Records
<1>8. CASE SettleRunning
  BY <1>8 DEF SettleRunning
<1> QED BY <1>1, <1>2, <1>3, <1>4, <1>5, <1>6, <1>7, <1>8

LEMMA WaitsWhileStarting ==
  ASSUME TypeOK, Waits, Spawn \/ InvokeProvider \/ ProviderAnswers \/ StartFails
  PROVE  Waits'
<1> USE DEF Waits, ShuttingDown
<1>1. CASE Spawn
  BY <1>1 DEF Spawn, Reserve, Holding, RestoreDue, Failed, TypeOK, Records
<1>2. CASE InvokeProvider
  BY <1>2 DEF InvokeProvider, TypeOK, Records
<1>3. CASE ProviderAnswers
  BY <1>3 DEF ProviderAnswers, TypeOK, Records
<1>4. CASE StartFails
  BY <1>4 DEF StartFails, Failed, TypeOK, Records
<1> QED BY <1>1, <1>2, <1>3, <1>4

LEMMA WaitsWhileShuttingDown ==
  ASSUME TypeOK, Waits,
         \/ RequestShutdown \/ Emergency \/ AdvanceDraining \/ Prepared
         \/ AdvancePrepared \/ AdvanceCapturing \/ CaptureSaved \/ CaptureUnconfirmed
         \/ AdvanceRetiring \/ StopConfirmed \/ StopUnconfirmed
  PROVE  Waits'
<1> USE DEF Waits, ShuttingDown
<1>1. CASE RequestShutdown
  BY <1>1 DEF RequestShutdown, Interrupt, TypeOK, Records
<1>2. CASE Emergency
  BY <1>2, EmergencyFields DEF Captures
<1>3. CASE AdvanceDraining
  BY <1>3, DrainingFields DEF AdvanceDraining, Captures
<1>4. CASE Prepared
  BY <1>4, PreparedFields DEF Prepared, Captures
<1>5. CASE AdvancePrepared
  BY <1>5, CaptureFields DEF AdvancePrepared, Agree, TypeOK
<1>6. CASE AdvanceCapturing
  BY <1>6 DEF AdvanceCapturing, Failed, TypeOK, Records
<1>7. CASE CaptureSaved
  BY <1>7, CaptureSavedFields DEF CaptureSaved
<1>8. CASE CaptureUnconfirmed
  BY <1>8 DEF CaptureUnconfirmed, Failed, TypeOK, Records
<1>9. CASE AdvanceRetiring
  BY <1>9, RetireFields DEF AdvanceRetiring, Agree, TypeOK
<1>10. CASE StopConfirmed
  BY <1>10 DEF StopConfirmed, Finish, TypeOK, Records
<1>11. CASE StopUnconfirmed
  BY <1>11 DEF StopUnconfirmed, Failed, TypeOK, Records
<1> QED BY <1>1, <1>2, <1>3, <1>4, <1>5, <1>6, <1>7, <1>8, <1>9, <1>10, <1>11

LEMMA WaitsWhileRecovering ==
  ASSUME TypeOK, Waits,
         \/ AutoRetry \/ RecoverRetry \/ RecoverPaused \/ RecoverSaved
         \/ RecoverDiscard \/ DiscardEnds \/ Restart
  PROVE  Waits'
<1> USE DEF Waits, ShuttingDown
<1>1. CASE AutoRetry
  BY <1>1, CaptureFields DEF AutoRetry, RetryCapture, Agree, TypeOK
<1>2. CASE RecoverRetry
  BY <1>2, CaptureFields DEF RecoverRetry, RetryCapture, Agree, TypeOK
<1>3. CASE RecoverPaused
  BY <1>3 DEF RecoverPaused
<1>4. CASE RecoverSaved
  BY <1>4 DEF RecoverSaved
<1>5. CASE RecoverDiscard
  BY <1>5 DEF RecoverDiscard, TypeOK, Records
<1>6. CASE DiscardEnds
  BY <1>6 DEF DiscardEnds, TypeOK, Records
<1>7. CASE Restart
  BY <1>7 DEF Restart, TypeOK, Records
<1> QED BY <1>1, <1>2, <1>3, <1>4, <1>5, <1>6, <1>7

(***************************************************************************)
(* While a prompt a shutdown interrupted waits for the user, the record    *)
(* admits no dispatch and no automatic start, across restarts.             *)
(***************************************************************************)
THEOREM InterruptedPromptWaits == Spec => []InterruptedWaits
<1>1. Init => Waits
  BY DEF Init, Waits
<1>2. TypeOK /\ Waits /\ [Next]_vars => Waits'
  <2> SUFFICES ASSUME TypeOK, Waits, [Next]_vars PROVE Waits'
    OBVIOUS
  <2>1. CASE UNCHANGED vars
    BY <2>1, WaitsWhileServing DEF vars
  <2>2. CASE Next
    <3>1. CASE \/ Dispatch \/ RefusedExit \/ BootFails \/ WatchdogEnds
               \/ \E g \in Gens : Work(g) \/ Quiesce(g) \/ ProviderCreates(g)
               \/ \E d \in Deadlines : Passes(d)
      BY <3>1, WaitsWhileServing
      DEF Dispatch, RefusedExit, BootFails, WatchdogEnds, Work, Quiesce,
          ProviderCreates, Passes
    <3> QED BY <2>2, <3>1, WaitsWhileServing, WaitsWhileStarting, WaitsWhileShuttingDown,
            WaitsWhileRecovering DEF Next
  <2> QED BY <2>1, <2>2
<1>3. TypeOK /\ Waits => InterruptedWaits
  <2> SUFFICES ASSUME rec.paused, rec.phase \in ShuttingDown \cup {"saved", "failed", "unknown"}
               PROVE  Admission = "held"
    BY DEF Waits, InterruptedWaits
  <2>1. CASE rec.phase = "saved"
    BY <2>1 DEF Admission
  <2>2. CASE rec.phase # "saved"
    <3>1. rec.phase \notin {"none", "saved", "restoring", "running"}
      BY <2>2 DEF ShuttingDown
    <3> QED BY <3>1 DEF Admission
  <2> QED BY <2>1, <2>2
<1> QED BY <1>1, <1>2, <1>3, TypeCorrect, PTL DEF Spec

-----------------------------------------------------------------------------
(***************************************************************************)
(* Which provider requests may still run.  A request the control plane     *)
(* awaits belongs to the phase the record is in; a routine checkpoint that *)
(* nobody awaits any more is covered by the record's exclusion.            *)
(***************************************************************************)

\* A capture or a stop in progress is the one the record asks for.
Calls ==
  /\ cp.capture # 0 => cp.capture = rec.gen /\ rec.phase = "capturing"
  /\ cp.retire # 0 => cp.retire = rec.gen /\ rec.phase = "retiring"
  /\ rec.discarding => rec.phase \in {"failed", "unknown"}

\* A shutdown's request is awaited, and there is only one.
ShutdownAsks ==
  /\ \A a \in asks : a.kind = "shutdown" => cp.capture # 0
  /\ \A a, b \in asks : a.kind = "shutdown" /\ b.kind = "shutdown" => a = b

\* A routine checkpoint's request is held in the record until its settle time.
RoutineAsks ==
  \A a \in asks : a.kind = "continue" =>
    /\ rec.inFlight /\ rec.after = "continue" /\ ~Due("settle") /\ ~rec.discarding
    /\ rec.phase \in {"running", "draining", "failed", "unknown"}

\* Only one checkpoint is requested at a time; one that stops is awaited.
OrdinaryAsks ==
  /\ \A a \in asks : a.kind = "stop" => cp.ckpt = a.gen
  /\ \A a, b \in asks : a.kind # "shutdown" /\ b.kind # "shutdown" => a = b

\* A source told to prepare takes no more checkpoints.
Told ==
  /\ rec.gen # 0 /\ src[rec.gen].told =>
       /\ ~rec.inFlight /\ rec.phase # "restoring"
       /\ rec.phase = "running" => rec.handle = 0 /\ row.status = "stopped"
  /\ \A g \in Gens : g > rec.gen => ~src[g].told

ExInv == Calls /\ ShutdownAsks /\ RoutineAsks /\ OrdinaryAsks /\ Told

\* Most steps neither begin nor end a request, and tell no source anything.
Quiet ==
  /\ rec'.gen = rec.gen /\ rec'.phase = rec.phase /\ rec'.discarding = rec.discarding
  /\ rec'.inFlight = rec.inFlight /\ rec'.after = rec.after
  /\ cp'.capture = cp.capture /\ cp'.retire = cp.retire /\ cp'.ckpt = cp.ckpt
  /\ asks' \subseteq asks
  /\ "settle" \in due' => Due("settle") \/ \A a \in asks' : a.kind # "continue"
  /\ \A g \in Gens : src'[g].told = src[g].told
  /\ rec.handle = 0 /\ row.status = "stopped" => rec'.handle = 0 /\ row'.status = "stopped"

LEMMA QuietKeeps == ASSUME TypeOK, ExInv, Quiet PROVE ExInv'
<1> USE DEF ExInv, Quiet
<1>0. rec.gen # 0 => rec.gen \in Gens
  BY BoundsAssumption DEF TypeOK, Records, Gens
<1>1. Calls' /\ ShutdownAsks'
  BY DEF Calls, ShutdownAsks
<1>2. RoutineAsks' /\ OrdinaryAsks'
  BY DEF RoutineAsks, OrdinaryAsks, Due
<1>3. Told'
  BY <1>0 DEF Told
<1> QED BY <1>1, <1>2, <1>3

LEMMA QuietSteps ==
  ASSUME TypeOK, IdInv,
         \/ UNCHANGED vars
         \/ Dispatch \/ RefusedExit \/ RuntimeReady \/ GenerationReady \/ BootFails
         \/ WatchdogEnds \/ InvokeProvider \/ RecordFailure \/ ClearFailure
         \/ (\E g \in Gens : Work(g) \/ Quiesce(g) \/ ProviderCreates(g))
         \/ (\E d \in Deadlines : Passes(d)) \/ RecoverPaused
  PROVE  Quiet
<1> USE DEF Quiet
<1>1. CASE UNCHANGED vars
  BY <1>1 DEF vars, Due
<1>2. CASE Dispatch
  BY <1>2 DEF Dispatch, TypeOK, Sources, Due
<1>3. CASE RefusedExit
  BY <1>3, StoppedOnlyEnds DEF RefusedExit, TypeOK, Due
<1>4. CASE RuntimeReady \/ GenerationReady
  BY <1>4 DEF RuntimeReady, GenerationReady, TypeOK, Records, Rows, Due
<1>5. CASE BootFails
  BY <1>5, StoppedOnlyEnds DEF BootFails, TypeOK, Due
<1>6. CASE WatchdogEnds
  <2>1. cp'.capture = cp.capture /\ cp'.retire = cp.retire /\ cp'.ckpt = cp.ckpt
    BY <1>6 DEF WatchdogEnds, TypeOK, Memory
  <2>2. \A g \in Gens : src'[g].told = src[g].told
    BY <1>6, StoppedOnlyEnds DEF WatchdogEnds, TypeOK
  <2> QED BY <1>6, <2>1, <2>2 DEF WatchdogEnds, Due
<1>7. CASE InvokeProvider
  <2>1. cp'.capture = cp.capture /\ cp'.retire = cp.retire /\ cp'.ckpt = cp.ckpt
    BY <1>7 DEF InvokeProvider, TypeOK, Memory
  <2>2. \A g \in Gens : src'[g].told = src[g].told
    BY <1>7, StoppedOnlyEnds DEF InvokeProvider, TypeOK
  <2>3. /\ rec'.gen = rec.gen /\ rec'.phase = rec.phase /\ rec'.discarding = rec.discarding
        /\ rec'.inFlight = rec.inFlight /\ rec'.after = rec.after /\ rec'.handle = rec.handle
    BY <1>7 DEF InvokeProvider, TypeOK, Records
  <2>4. row'.status = row.status
    BY <1>7 DEF InvokeProvider, TypeOK, Rows
  <2> QED BY <1>7, <2>1, <2>2, <2>3, <2>4 DEF InvokeProvider, Due
<1>8. CASE RecordFailure \/ ClearFailure
  BY <1>8 DEF RecordFailure, ClearFailure, TypeOK, Records, Due
<1>9. CASE \E g \in Gens : Work(g) \/ Quiesce(g) \/ ProviderCreates(g)
  BY <1>9 DEF Work, Quiesce, ProviderCreates, TypeOK, Sources, Due
<1>10. CASE \E d \in Deadlines : Passes(d)
  BY <1>10, StoppedOnlyEnds DEF Passes, TypeOK, Due
<1>11. CASE RecoverPaused
  BY <1>11 DEF RecoverPaused, TypeOK, Records, Due
<1> QED BY <1>1, <1>2, <1>3, <1>4, <1>5, <1>6, <1>7, <1>8, <1>9, <1>10, <1>11

\* A step that may begin a shutdown's capture, with no routine request left.
LEMMA CaptureKeeps ==
  ASSUME TypeOK, ExInv, NEW handle, NEW phases,
         phases \subseteq {"draining", "prepared", "failed", "unknown"},
         rec.gen # 0, rec.phase \notin {"capturing", "retiring"}, ~rec'.discarding,
         \A a \in asks : a.kind # "continue",
         Captures(handle, phases), rec'.gen = rec.gen, rec'.inFlight => rec.inFlight,
         \A g \in Gens : src'[g].told => src[g].told \/ (g = rec.gen /\ ~rec'.inFlight)
  PROVE  ExInv'
<1> USE DEF ExInv
<1>0. rec.gen # 0 => rec.gen \in Gens
  BY BoundsAssumption DEF TypeOK, Records, Gens
<1>1. cp.capture = 0 /\ cp.retire = 0 /\ \A a \in asks : a.kind # "shutdown"
  BY DEF Calls, ShutdownAsks
<1>2. cp'.ckpt = cp.ckpt /\ cp'.retire = 0 /\ rec'.phase \notin {"restoring", "running"}
      /\ (cp'.capture = 0 \/ (cp'.capture = rec.gen /\ rec'.phase = "capturing"))
  BY <1>1 DEF Captures, TypeOK, Memory
<1>3. CASE UNCHANGED <<cp, asks>>
  <2>1. Calls' /\ ShutdownAsks'
    BY <1>1, <1>2, <1>3 DEF Calls, ShutdownAsks
  <2>2. RoutineAsks' /\ OrdinaryAsks'
    BY <1>3 DEF RoutineAsks, OrdinaryAsks
  <2>3. Told'
    BY <1>0, <1>2, BoundsAssumption DEF Told, Gens
  <2> QED BY <2>1, <2>2, <2>3
<1>4. CASE /\ rec'.phase = "capturing" /\ handle # 0
           /\ cp' = [cp EXCEPT !.capture = rec.gen]
           /\ asks' = asks \cup
                {[gen |-> handle, kind |-> "shutdown", low |-> src[handle].work]}
  <2>1. cp'.capture = rec.gen
    BY <1>4 DEF TypeOK, Memory
  <2>2. Calls'
    BY <1>2, <1>4, <2>1 DEF Calls
  <2>3. RoutineAsks' /\ OrdinaryAsks'
    BY <1>2, <1>4 DEF RoutineAsks, OrdinaryAsks
  <2>4. Told'
    BY <1>0, <1>2, BoundsAssumption DEF Told, Gens
  <2>5. ShutdownAsks'
    BY <1>1, <1>4, <2>1 DEF ShutdownAsks
  <2> QED BY <2>2, <2>3, <2>4, <2>5
<1> QED BY <1>3, <1>4 DEF Captures

LEMMA ExShutdown ==
  ASSUME TypeOK, IdInv, ExInv,
         \/ Emergency \/ AdvanceDraining \/ Prepared \/ AdvancePrepared
         \/ AutoRetry \/ RecoverRetry
  PROVE  ExInv'
<1> USE DEF ExInv
<1>0. rec.gen \in 0..MaxGens /\ (rec.phase # "none" => rec.gen # 0)
      /\ (rec.phase \notin {"failed", "unknown"} => ~rec.discarding)
  BY BoundsAssumption DEF TypeOK, Records, IdInv, Generation, Calls
<1>1. CASE Emergency
  <2>1. rec.phase \in {"running", "restoring"} /\ ~rec.inFlight /\ UNCHANGED src
    BY <1>1 DEF Emergency
  <2>2. \A a \in asks : a.kind # "continue"
    BY <2>1 DEF RoutineAsks
  <2> QED BY <1>0, <1>1, <2>1, <2>2, EmergencyFields, CaptureKeeps DEF SameIdentity
<1>2. CASE AdvanceDraining
  <2>1. rec.phase = "draining"
    BY <1>2 DEF AdvanceDraining
  <2>2. \A a \in asks : a.kind # "continue"
    BY <1>2, DrainingFields DEF RoutineAsks, Settles
  <2>3. \A g \in Gens : src'[g].told => src[g].told \/ (g = rec.gen /\ ~rec'.inFlight)
    BY <1>2, DrainingFields DEF TypeOK, Sources
  <2> QED BY <1>0, <1>2, <2>1, <2>2, <2>3, DrainingFields, CaptureKeeps DEF SameIdentity
<1>3. CASE Prepared
  <2>1. rec.phase = "draining" /\ src[rec.gen].told /\ UNCHANGED src
    BY <1>3 DEF Prepared
  <2>2. \A a \in asks : a.kind # "continue"
    BY <1>0, <2>1 DEF RoutineAsks, Told
  <2> QED BY <1>0, <1>3, <2>1, <2>2, PreparedFields, CaptureKeeps DEF SameIdentity
<1>4. CASE AdvancePrepared
  <2>1. rec.phase = "prepared" /\ UNCHANGED src /\ Capture(rec, Due("capture"))
    BY <1>4 DEF AdvancePrepared
  <2>2. \A a \in asks : a.kind # "continue"
    BY <2>1 DEF RoutineAsks
  <2>3. /\ rec'.gen = rec.gen /\ rec'.inFlight = rec.inFlight
        /\ rec'.discarding = rec.discarding /\ Captures(rec.handle, {"failed"})
    BY <2>1, CaptureFields DEF Agree, Captures, TypeOK
  <2> QED BY <1>0, <2>1, <2>2, <2>3, CaptureKeeps
<1>5. CASE AutoRetry \/ RecoverRetry
  <2>1. /\ rec.phase \in {"failed", "unknown"} /\ UNCHANGED src /\ Capture(rec, FALSE)
        /\ ~rec.discarding /\ ~rec.inFlight
    BY <1>5 DEF AutoRetry, RecoverRetry, Offered, RetryCapture, CanRetry
  <2>2. \A a \in asks : a.kind # "continue"
    BY <2>1 DEF RoutineAsks
  <2>3. /\ rec'.gen = rec.gen /\ rec'.inFlight = rec.inFlight
        /\ rec'.discarding = rec.discarding /\ Captures(rec.handle, {"failed"})
    BY <2>1, CaptureFields DEF Agree, Captures, TypeOK
  <2> QED BY <1>0, <2>1, <2>2, <2>3, CaptureKeeps
<1> QED BY <1>1, <1>2, <1>3, <1>4, <1>5

LEMMA ExBegins ==
  ASSUME TypeOK, IdInv, ExInv, CheckpointAdmitted, NEW after \in {"continue", "stop"},
         NEW status, BeginCheckpoint(after, status),
         \A g \in Gens : src'[g].told = src[g].told,
         cp'.capture = cp.capture, cp'.retire = cp.retire, cp'.ckpt = rec.gen
  PROVE  ExInv'
<1> USE DEF ExInv
<1>1. /\ rec.phase = "running" /\ rec.handle # 0 /\ ~rec.inFlight /\ cp.ckpt = 0
      /\ row.handle # 0
  BY DEF CheckpointAdmitted, Admission
<1>2. /\ row.handle = rec.gen /\ rec.gen \in Gens /\ ~rec.discarding
  BY <1>1, BoundsAssumption DEF IdInv, Handles, Calls, TypeOK, Records, Gens
<1>3. \A a \in asks : a.kind = "shutdown"
  BY <1>1, <1>2 DEF RoutineAsks, OrdinaryAsks, TypeOK, Requests, Kinds, Gens
<1>4. /\ rec'.gen = rec.gen /\ rec'.phase = "running" /\ rec'.inFlight
      /\ rec'.after = after /\ ~rec'.discarding
  BY <1>1, <1>2 DEF BeginCheckpoint, TypeOK, Records
<1>5. \E low : asks' = asks \cup {[gen |-> rec.gen, kind |-> after, low |-> low]}
  BY <1>2 DEF BeginCheckpoint
<1>6. "settle" \notin due'
  BY DEF BeginCheckpoint
<1>7. Calls' /\ ShutdownAsks'
  BY <1>1, <1>4, <1>5 DEF Calls, ShutdownAsks
<1>8. RoutineAsks' /\ OrdinaryAsks'
  BY <1>3, <1>4, <1>5, <1>6 DEF RoutineAsks, OrdinaryAsks, Due
<1>9. Told'
  BY <1>1, <1>2, <1>4 DEF Told
<1> QED BY <1>7, <1>8, <1>9

LEMMA ExCheckpoint ==
  ASSUME TypeOK, IdInv, ExInv,
         \/ Complete \/ HeartbeatStale \/ CheckpointSaved \/ CheckpointUnconfirmed
         \/ SettleRunning
  PROVE  ExInv'
<1> USE DEF ExInv
<1>0. rec.gen \in 0..MaxGens /\ (rec.phase # "none" => rec.gen # 0 /\ rec.gen \in Gens)
  BY BoundsAssumption DEF TypeOK, Records, IdInv, Generation, Gens
<1>1. CASE Complete
  <2>1. \A g \in Gens : src'[g].told = src[g].told
    BY <1>1 DEF Complete, TypeOK, Sources
  <2>2. CASE UNCHANGED <<rec, row, cp, asks, due>>
    BY <2>1, <2>2, QuietKeeps DEF Quiet, Due
  <2>3. CASE /\ CheckpointAdmitted /\ cp' = [cp EXCEPT !.ckpt = rec.gen]
             /\ BeginCheckpoint("continue", IF Dead THEN row.status ELSE "snapshotting")
    <3>1. cp'.capture = cp.capture /\ cp'.retire = cp.retire /\ cp'.ckpt = rec.gen
      BY <2>3 DEF TypeOK, Memory
    <3>2. rec.gen \in Gens
      BY <1>0, <1>1 DEF Complete
    <3> QED BY <2>1, <2>3, <3>1, <3>2, ExBegins
  <2> QED BY <1>1, <2>2, <2>3 DEF Complete
<1>2. CASE HeartbeatStale
  <2>1. CASE CheckpointAdmitted
    <3>1. cp'.capture = cp.capture /\ cp'.retire = cp.retire /\ cp'.ckpt = rec.gen
      BY <1>2, <2>1 DEF HeartbeatStale, TypeOK, Memory
    <3>2. BeginCheckpoint("stop", "stale") /\ UNCHANGED src
      BY <1>2, <2>1 DEF HeartbeatStale
    <3> QED BY <2>1, <3>1, <3>2, ExBegins
  <2>2. CASE ~CheckpointAdmitted
    <3>1. /\ cp'.capture = cp.capture /\ cp'.retire = cp.retire /\ cp'.ckpt = cp.ckpt
          /\ row.status = "ready" /\ UNCHANGED <<rec, asks, due, src>>
      BY <1>2, <2>2 DEF HeartbeatStale, TypeOK, Memory
    <3> QED BY <3>1, QuietKeeps DEF Quiet, Due
  <2> QED BY <2>1, <2>2
<1>3. CASE CheckpointSaved
  <2>1. PICK a \in CheckpointAsk :
          /\ asks' = asks \ {a}
          /\ \E w : rec' = IF OwnsCheckpoint
                    THEN [Released(rec) EXCEPT !.receipt =
                            [gen |-> a.gen, work |-> w, shutdown |-> FALSE]]
                    ELSE rec
          /\ cp' = [Watched(cp, rec'.phase # "running") EXCEPT !.ckpt = 0]
    BY <1>3 DEF CheckpointSaved
  <2>2. a \in asks /\ a.kind # "shutdown" /\ \A b \in asks' : b.kind = "shutdown"
    BY <2>1 DEF CheckpointAsk, OrdinaryAsks
  <2>3. cp'.capture = cp.capture /\ cp'.retire = cp.retire /\ cp'.ckpt = 0
    BY <2>1 DEF Watched, TypeOK, Memory
  <2>4. /\ rec'.gen = rec.gen /\ rec'.phase = rec.phase /\ rec'.handle = rec.handle
        /\ rec'.discarding = rec.discarding /\ (rec'.inFlight => rec.inFlight)
    <3>1. CASE OwnsCheckpoint
      <4>1. PICK w : rec' = [Released(rec) EXCEPT !.receipt =
                              [gen |-> a.gen, work |-> w, shutdown |-> FALSE]]
        BY <2>1, <3>1
      <4> QED BY <4>1 DEF Released, TypeOK, Records
    <3> QED BY <2>1, <3>1
  <2>5. row.status = "stopped" => row'.status = "stopped"
    BY <1>3 DEF CheckpointSaved
  <2>6. UNCHANGED src
    BY <1>3 DEF CheckpointSaved
  <2>7. Calls' /\ ShutdownAsks'
    BY <2>1, <2>3, <2>4 DEF Calls, ShutdownAsks
  <2>8. RoutineAsks' /\ OrdinaryAsks'
    BY <2>1, <2>2 DEF RoutineAsks, OrdinaryAsks
  <2>9. Told'
    BY <2>4, <2>5, <2>6 DEF Told
  <2> QED BY <2>7, <2>8, <2>9
<1>4. CASE CheckpointUnconfirmed
  <2>1. /\ rec'.gen = rec.gen /\ rec'.handle = rec.handle
        /\ rec'.discarding = rec.discarding /\ (rec'.inFlight => rec.inFlight)
        /\ \/ rec'.phase = rec.phase /\ rec'.inFlight = rec.inFlight /\ rec'.after = rec.after
           \/ /\ rec'.phase = "unknown" /\ rec.inFlight /\ rec.after # "continue"
              /\ rec.phase \in {"running", "draining", "failed", "unknown"}
    BY <1>4 DEF CheckpointUnconfirmed, OwnsCheckpoint, Settles, Released, Failed, TypeOK, Records
  <2>2. cp'.capture = cp.capture /\ cp'.retire = cp.retire /\ cp'.ckpt = 0
    BY <1>4 DEF CheckpointUnconfirmed, Watched, TypeOK, Memory
  <2>3. /\ asks' \subseteq asks /\ \A a \in asks' : a.kind # "stop"
        /\ UNCHANGED <<src, row, due>>
    BY <1>4 DEF CheckpointUnconfirmed, CheckpointAsk, OrdinaryAsks
  <2>4. Calls' /\ ShutdownAsks'
    BY <2>1, <2>2, <2>3 DEF Calls, ShutdownAsks
  <2>5. RoutineAsks' /\ OrdinaryAsks'
    BY <2>1, <2>2, <2>3 DEF RoutineAsks, OrdinaryAsks, Due
  <2>6. Told'
    BY <2>1, <2>3 DEF Told
  <2> QED BY <2>4, <2>5, <2>6
<1>5. CASE SettleRunning
  <2>1. /\ rec.phase = "running" /\ rec.inFlight /\ UNCHANGED <<cp, src, asks, due>>
        /\ ~Settles(rec) \/ Due("settle")
    BY <1>5 DEF SettleRunning
  <2>2. \A a \in asks : a.kind # "continue"
    BY <2>1 DEF RoutineAsks, Settles
  <2>3. /\ rec'.gen = rec.gen /\ rec'.phase \in {"running", "unknown"}
        /\ rec'.discarding = rec.discarding
    <3>1. \/ rec' = Failed([rec EXCEPT !.after = "none"], "unknown", FALSE)
          \/ \E u : rec' = Failed([Released(rec) EXCEPT !.inFlight = u], "unknown", FALSE)
          \/ rec' = Released(rec) \/ rec' = [rec EXCEPT !.deferred = TRUE]
      BY <1>5 DEF SettleRunning
    <3>2. CASE rec' = Failed([rec EXCEPT !.after = "none"], "unknown", FALSE)
      BY <2>1, <3>2 DEF Failed, TypeOK, Records
    <3>3. CASE \E u : rec' = Failed([Released(rec) EXCEPT !.inFlight = u], "unknown", FALSE)
      <4>1. PICK u : rec' = Failed([Released(rec) EXCEPT !.inFlight = u], "unknown", FALSE)
        BY <3>3
      <4> QED BY <2>1, <4>1 DEF Failed, Released, TypeOK, Records
    <3>4. CASE rec' = Released(rec) \/ rec' = [rec EXCEPT !.deferred = TRUE]
      BY <2>1, <3>4 DEF Released, TypeOK, Records
    <3> QED BY <3>1, <3>2, <3>3, <3>4
  <2>4. Calls' /\ ShutdownAsks'
    BY <2>1, <2>3 DEF Calls, ShutdownAsks
  <2>5. RoutineAsks' /\ OrdinaryAsks'
    BY <2>1, <2>2 DEF RoutineAsks, OrdinaryAsks
  <2>6. Told'
    BY <1>0, <2>1, <2>3 DEF Told
  <2> QED BY <2>4, <2>5, <2>6
<1> QED BY <1>1, <1>2, <1>3, <1>4, <1>5

LEMMA ExCalls ==
  ASSUME TypeOK, IdInv, ExInv,
         \/ RequestShutdown \/ AdvanceCapturing \/ CaptureSaved \/ CaptureUnconfirmed
         \/ AdvanceRetiring \/ StopConfirmed \/ StopUnconfirmed
  PROVE  ExInv'
<1> USE DEF ExInv
<1>0. rec.gen \in 0..MaxGens /\ (rec.phase # "none" => rec.gen # 0 /\ rec.gen \in Gens)
  BY BoundsAssumption DEF TypeOK, Records, IdInv, Generation, Gens
<1>1. CASE RequestShutdown
  <2>1. PICK paused \in BOOLEAN :
          rec' = [rec EXCEPT !.phase = "draining", !.paused = paused,
                             !.failure = FALSE, !.began = TRUE]
    BY <1>1 DEF RequestShutdown
  <2>2. /\ rec'.gen = rec.gen /\ rec'.phase = "draining" /\ rec.phase = "running"
        /\ rec'.inFlight = rec.inFlight /\ rec'.after = rec.after
        /\ rec'.discarding = rec.discarding /\ UNCHANGED <<cp, src, asks>>
    BY <1>1, <2>1 DEF RequestShutdown, TypeOK, Records
  <2>3. Due("settle")' => Due("settle")
    <3>1. PICK spent \in Spent : due' = (due \ Window) \cup spent
      BY <1>1 DEF RequestShutdown
    <3>2. "settle" \notin spent
      BY DEF Spent
    <3> QED BY <3>1, <3>2 DEF Due
  <2>4. Calls' /\ ShutdownAsks'
    BY <2>2 DEF Calls, ShutdownAsks
  <2>5. RoutineAsks' /\ OrdinaryAsks'
    BY <2>2, <2>3 DEF RoutineAsks, OrdinaryAsks
  <2>6. Told'
    BY <2>2 DEF Told
  <2> QED BY <2>4, <2>5, <2>6
<1>2. CASE AdvanceCapturing
  <2>1. /\ rec'.gen = rec.gen /\ rec'.phase = "unknown" /\ rec.phase = "capturing"
        /\ rec'.inFlight = rec.inFlight /\ rec'.after = rec.after
        /\ rec'.discarding = rec.discarding /\ UNCHANGED <<cp, src, asks, due>>
        /\ cp.capture # rec.gen
    BY <1>2 DEF AdvanceCapturing, Failed, TypeOK, Records
  <2>2. Calls' /\ ShutdownAsks'
    BY <2>1 DEF Calls, ShutdownAsks
  <2>3. RoutineAsks' /\ OrdinaryAsks' /\ Told'
    BY <2>1 DEF RoutineAsks, OrdinaryAsks, Due, Told
  <2> QED BY <2>2, <2>3
<1>3. CASE CaptureSaved
  <2>1. UNCHANGED <<row, src, due>> /\ cp.capture # 0
    BY <1>3 DEF CaptureSaved
  <2>2. /\ rec.phase = "capturing" /\ cp.retire = 0 /\ ~rec.discarding
        /\ \A a \in asks : a.kind # "continue"
    BY <2>1 DEF Calls, RoutineAsks
  <2>3. cp'.ckpt = cp.ckpt /\ \A a \in asks' : a.kind # "shutdown"
    <3>1. PICK a \in CaptureAsk :
            /\ asks' = asks \ {a}
            /\ \E w \in a.low .. src[a.gen].work :
                 IF OwnsCapture
                 THEN Retire([rec EXCEPT !.phase = "retiring", !.receipt =
                                [gen |-> a.gen, work |-> w, shutdown |-> TRUE]],
                             [cp EXCEPT !.capture = 0])
                 ELSE rec' = rec /\ cp' = [cp EXCEPT !.capture = 0]
      BY <1>3 DEF CaptureSaved
    <3>2. \A b \in asks' : b.kind # "shutdown"
      BY <3>1 DEF CaptureAsk, ShutdownAsks
    <3>3. PICK r, c : cp' = [cp EXCEPT !.capture = 0] \/ (c = [cp EXCEPT !.capture = 0] /\ Retire(r, c))
      BY <3>1
    <3>4. cp'.ckpt = cp.ckpt
      BY <3>3 DEF Retire, TypeOK, Memory
    <3> QED BY <3>2, <3>4
  <2>4. Calls' /\ ShutdownAsks'
    BY <1>3, <2>1, <2>2, <2>3, CaptureSavedFields DEF Calls, ShutdownAsks
  <2>5. RoutineAsks' /\ OrdinaryAsks'
    BY <1>3, <2>2, <2>3, CaptureSavedFields DEF RoutineAsks, OrdinaryAsks
  <2>6. Told'
    BY <1>3, <2>1, <2>2, CaptureSavedFields DEF Told
  <2> QED BY <2>4, <2>5, <2>6
<1>4. CASE CaptureUnconfirmed
  <2>1. /\ cp.capture # 0 /\ UNCHANGED <<row, src, due>>
        /\ asks' \subseteq asks /\ \A a \in asks' : a.kind # "shutdown"
        /\ cp'.capture = 0 /\ cp'.retire = cp.retire /\ cp'.ckpt = cp.ckpt
    BY <1>4 DEF CaptureUnconfirmed, CaptureAsk, TypeOK, Memory
  <2>2. rec.phase = "capturing" /\ cp.retire = 0 /\ ~rec.discarding
    BY <2>1 DEF Calls
  <2>3. /\ rec'.gen = rec.gen /\ rec'.phase = "unknown"
        /\ rec'.inFlight = rec.inFlight /\ rec'.discarding = rec.discarding
    BY <1>4, <2>1, <2>2 DEF CaptureUnconfirmed, OwnsCapture, Calls, Failed, TypeOK, Records
  <2>4. Calls' /\ ShutdownAsks'
    BY <2>1, <2>2, <2>3 DEF Calls, ShutdownAsks
  <2>5. RoutineAsks' /\ OrdinaryAsks' /\ Told'
    BY <2>1, <2>2, <2>3 DEF RoutineAsks, OrdinaryAsks, Told
  <2> QED BY <2>4, <2>5
<1>5. CASE AdvanceRetiring
  <2>1. /\ rec.phase = "retiring" /\ cp.retire # rec.gen /\ Retire(rec, cp)
        /\ UNCHANGED <<row, src, asks, due>>
    BY <1>5 DEF AdvanceRetiring
  <2>2. cp.retire = 0 /\ cp.capture = 0 /\ ~rec.discarding /\ rec.gen # 0
        /\ \A a \in asks : a.kind = "stop"
    BY <1>0, <2>1 DEF Calls, RoutineAsks, ShutdownAsks, TypeOK, Requests, Kinds
  <2>3. /\ cp'.capture = 0 /\ cp'.ckpt = cp.ckpt
        /\ \/ rec'.phase = "unknown" /\ cp'.retire = 0
           \/ rec'.phase = "retiring" /\ cp'.retire = rec.gen
    BY <2>1, <2>2, RetireFields DEF TypeOK, Memory
  <2>4. Agree(rec, rec') /\ rec'.inFlight = rec.inFlight
    BY <2>1, RetireFields DEF TypeOK
  <2>5. Calls' /\ ShutdownAsks'
    BY <2>1, <2>2, <2>3, <2>4 DEF Calls, ShutdownAsks, Agree
  <2>6. RoutineAsks' /\ OrdinaryAsks' /\ Told'
    BY <2>1, <2>2, <2>3, <2>4 DEF RoutineAsks, OrdinaryAsks, Told, Agree
  <2> QED BY <2>5, <2>6
<1>6. CASE StopConfirmed \/ StopUnconfirmed
  <2>1. /\ cp.retire # 0 /\ cp'.retire = 0 /\ cp'.capture = cp.capture /\ cp'.ckpt = cp.ckpt
        /\ UNCHANGED asks
    BY <1>6 DEF StopConfirmed, StopUnconfirmed, TypeOK, Memory
  <2>2. rec.phase = "retiring" /\ cp.retire = rec.gen /\ cp.capture = 0 /\ ~rec.discarding
        /\ \A a \in asks : a.kind = "stop"
    BY <1>0, <2>1 DEF Calls, RoutineAsks, ShutdownAsks, TypeOK, Requests, Kinds
  <2>3. Finish(rec) \/ rec' = Failed(rec, "unknown", FALSE)
    BY <1>6, <2>1, <2>2 DEF StopConfirmed, StopUnconfirmed, OwnsRetire
  <2>4. /\ rec'.phase \in {"saved", "unknown"} /\ rec'.gen = rec.gen
        /\ rec'.inFlight = rec.inFlight /\ rec'.discarding = rec.discarding
    <3>1. CASE Finish(rec)
      BY <3>1, FinishFields DEF Agree, TypeOK
    <3>2. CASE rec' = Failed(rec, "unknown", FALSE)
      BY <3>2 DEF Failed, TypeOK, Records
    <3> QED BY <2>3, <3>1, <3>2
  <2>5. \A g \in Gens : src'[g].told = src[g].told
    <3>1. src' = src \/ src' = Stopped(rec.handle)
      BY <1>6 DEF StopConfirmed, StopUnconfirmed
    <3> QED BY <3>1, StoppedOnlyEnds DEF TypeOK
  <2>6. Calls' /\ ShutdownAsks'
    BY <2>1, <2>2, <2>4 DEF Calls, ShutdownAsks
  <2>7. RoutineAsks' /\ OrdinaryAsks'
    BY <2>1, <2>2 DEF RoutineAsks, OrdinaryAsks
  <2>8. Told'
    BY <1>0, <2>4, <2>5, BoundsAssumption DEF Told, Gens
  <2> QED BY <2>6, <2>7, <2>8
<1> QED BY <1>1, <1>2, <1>3, <1>4, <1>5, <1>6

LEMMA ExStarts ==
  ASSUME TypeOK, IdInv, ExInv, Spawn \/ ProviderAnswers \/ StartFails
  PROVE  ExInv'
<1> USE DEF ExInv
<1>0. rec.gen \in 0..MaxGens /\ (rec.phase # "none" => rec.gen # 0 /\ rec.gen \in Gens)
  BY BoundsAssumption DEF TypeOK, Records, IdInv, Generation, Gens
<1>1. CASE Spawn /\ Reserve(rec.receipt.gen # 0)
  <2> DEFINE g == rec.gen + 1
  <2>1. g \in Gens
    BY <1>0, <1>1, BoundsAssumption DEF Spawn, Gens
  <2>2. /\ rec'.gen = g /\ rec'.phase \in {"restoring", "running"} /\ rec'.handle = 0
        /\ ~rec'.inFlight /\ ~rec'.discarding
    BY <1>1 DEF Reserve, Blank
  <2>3. cp'.capture = cp.capture /\ cp'.retire = cp.retire /\ cp'.ckpt = cp.ckpt
        /\ UNCHANGED asks
    BY <1>1 DEF Spawn, Reserve, TypeOK, Memory
  <2>4. \A h \in Gens : src'[h].told = src[h].told
    <3>1. src' = src \/ src' = Stopped(row.handle)
      BY <1>1 DEF Spawn
    <3> QED BY <3>1, StoppedOnlyEnds DEF TypeOK
  <2>5. cp.capture = 0 /\ cp.retire = 0 /\ (rec.phase = "running" => ~rec.inFlight)
        /\ rec.phase \in {"none", "running", "saved", "restoring"}
    BY <1>1 DEF Spawn, Holding, RestoreDue, Calls
  <2>6. \A a \in asks : a.kind = "stop"
    BY <2>5 DEF RoutineAsks, ShutdownAsks, TypeOK, Requests, Kinds
  <2>7. Calls' /\ ShutdownAsks'
    BY <2>2, <2>3, <2>5, <2>6 DEF Calls, ShutdownAsks
  <2>8. RoutineAsks' /\ OrdinaryAsks'
    BY <2>3, <2>6 DEF RoutineAsks, OrdinaryAsks
  <2>9. Told'
    BY <1>0, <2>1, <2>2, <2>4, BoundsAssumption DEF Told, Gens
  <2> QED BY <2>7, <2>8, <2>9
<1>2. CASE Spawn /\ ~Reserve(rec.receipt.gen # 0)
  <2>1. /\ \E b : rec' = Failed([rec EXCEPT !.retired = b], "unknown", FALSE)
        /\ UNCHANGED <<row, cp, due, src, asks>>
    BY <1>2 DEF Spawn
  <2>2. /\ rec'.gen = rec.gen /\ rec'.phase = "unknown"
        /\ rec'.inFlight = rec.inFlight /\ rec'.discarding = rec.discarding
    <3>1. PICK b : rec' = Failed([rec EXCEPT !.retired = b], "unknown", FALSE)
      BY <2>1
    <3> QED BY <3>1 DEF Failed, TypeOK, Records
  <2>3. cp.capture = 0 /\ cp.retire = 0 /\ \A a \in asks : a.kind = "stop"
    BY <1>2 DEF Spawn, Holding, RestoreDue, Calls, RoutineAsks, ShutdownAsks, TypeOK, Requests, Kinds
  <2>4. Calls' /\ ShutdownAsks'
    BY <2>1, <2>2, <2>3 DEF Calls, ShutdownAsks
  <2>5. RoutineAsks' /\ OrdinaryAsks'
    BY <2>1, <2>3 DEF RoutineAsks, OrdinaryAsks
  <2>6. Told'
    BY <2>1, <2>2, <1>0, <1>2, BoundsAssumption DEF Told, Spawn, Holding, RestoreDue
  <2> QED BY <2>4, <2>5, <2>6
<1>3. CASE ProviderAnswers
  <2>1. cp'.capture = cp.capture /\ cp'.retire = cp.retire /\ cp'.ckpt = cp.ckpt
        /\ UNCHANGED <<asks, due>>
    BY <1>3 DEF ProviderAnswers, TypeOK, Memory
  <2>2. \A g \in Gens : src'[g].told = src[g].told
    BY <1>3, StoppedOnlyEnds DEF ProviderAnswers, TypeOK
  <2>3. CASE UNCHANGED <<rec, row>>
    BY <2>1, <2>2, <2>3, QuietKeeps DEF Quiet, Due
  <2>4. CASE /\ ~Holding /\ row.status \in {"starting", "ready"}
             /\ rec' = [rec EXCEPT !.phase = IF @ = "restoring" THEN "running" ELSE @,
                          !.invoked = FALSE, !.handle = cp.start, !.retired = FALSE]
    <3>1. /\ rec'.gen = rec.gen /\ rec'.discarding = rec.discarding
          /\ rec'.inFlight = rec.inFlight /\ rec'.after = rec.after
          /\ rec'.phase = rec.phase \/ (rec.phase = "restoring" /\ rec'.phase = "running")
      BY <2>4 DEF TypeOK, Records
    <3>2. rec.phase \in {"none", "running", "restoring", "saved"} /\ row.status # "stopped"
      BY <2>4 DEF Holding
    <3>3. Calls' /\ ShutdownAsks'
      BY <2>1, <3>1, <3>2 DEF Calls, ShutdownAsks
    <3>4. RoutineAsks' /\ OrdinaryAsks'
      BY <2>1, <3>1 DEF RoutineAsks, OrdinaryAsks, Due
    <3>5. Told'
      BY <2>2, <3>1, <3>2, <1>0, BoundsAssumption DEF Told, Gens
    <3> QED BY <3>3, <3>4, <3>5
  <2> QED BY <1>3, <2>3, <2>4 DEF ProviderAnswers
<1>4. CASE StartFails
  <2>1. cp'.capture = cp.capture /\ cp'.retire = cp.retire /\ cp'.ckpt = cp.ckpt
        /\ UNCHANGED <<src, asks, due>>
    BY <1>4 DEF StartFails, TypeOK, Memory
  <2>2. row.status = "stopped" => row'.status = "stopped"
    BY <1>4 DEF StartFails, TypeOK, Rows
  <2>3. \/ rec' = rec
        \/ \E b : rec' = Failed([rec EXCEPT !.retired = b], "unknown", FALSE)
    BY <1>4 DEF StartFails
  <2>4. CASE rec' = rec
    BY <2>1, <2>2, <2>4, QuietKeeps DEF Quiet, Due
  <2>5. CASE \E b : rec' = Failed([rec EXCEPT !.retired = b], "unknown", FALSE)
    <3>1. PICK b : rec' = Failed([rec EXCEPT !.retired = b], "unknown", FALSE)
      BY <2>5
    <3>2. /\ rec'.gen = rec.gen /\ rec'.phase = "unknown" /\ rec'.discarding = rec.discarding
          /\ rec'.inFlight = rec.inFlight /\ rec'.after = rec.after
      BY <3>1 DEF Failed, TypeOK, Records
    <3>3. rec.handle = 0 /\ rec.phase \notin {"capturing", "retiring"} /\ ~rec.inFlight
      BY <1>4 DEF StartFails, IdInv, Handles
    <3>4. Calls' /\ ShutdownAsks'
      BY <2>1, <3>2, <3>3 DEF Calls, ShutdownAsks
    <3>5. RoutineAsks' /\ OrdinaryAsks' /\ Told'
      BY <2>1, <3>2, <3>3 DEF RoutineAsks, OrdinaryAsks, Told, Due
    <3> QED BY <3>4, <3>5
  <2> QED BY <2>3, <2>4, <2>5
<1> QED BY <1>1, <1>2, <1>3, <1>4

LEMMA ExRecovers ==
  ASSUME TypeOK, IdInv, ExInv,
         RecoverSaved \/ RecoverDiscard \/ DiscardEnds \/ Restart
  PROVE  ExInv'
<1> USE DEF ExInv
<1>0. rec.gen \in 0..MaxGens /\ (rec.gen # 0 => rec.gen \in Gens)
  BY BoundsAssumption DEF TypeOK, Records, Gens
<1>1. CASE RecoverSaved
  <2>1. /\ rec.phase \in {"failed", "unknown"} /\ ~rec.discarding
        /\ cp.ckpt = 0 /\ ~(rec.inFlight /\ Settles(rec)) /\ UNCHANGED <<src, asks>>
    BY <1>1 DEF RecoverSaved, Offered, CanRestoreSaved, NoLiveCheckpoint
  <2>2. cp.capture = 0 /\ cp.retire = 0 /\ \A a \in asks : a.kind = "stop"
    BY <2>1 DEF Calls, RoutineAsks, ShutdownAsks, Settles, TypeOK, Requests, Kinds
  <2> DEFINE next == [rec EXCEPT !.phase = "retiring", !.paused = FALSE]
  <2>3. /\ next \in Records /\ next.gen = rec.gen /\ next.inFlight = rec.inFlight
        /\ next.discarding = rec.discarding /\ next.phase = "retiring"
    BY DEF TypeOK, Records, Phases
  <2>4. /\ rec'.gen = rec.gen /\ rec'.inFlight = rec.inFlight
        /\ rec'.discarding = rec.discarding /\ cp'.capture = 0 /\ cp'.ckpt = cp.ckpt
        /\ \/ rec'.phase = "saved" /\ cp'.retire = 0
           \/ rec'.phase = "retiring" /\ cp'.retire = rec.gen
    <3>1. CASE Finish(next) /\ UNCHANGED cp
      <4> HIDE DEF next
      <4> QED BY <2>2, <2>3, <3>1, FinishFields DEF Agree
    <3>2. CASE rec' = next /\ cp' = [cp EXCEPT !.retire = rec.gen]
      <4>1. cp'.capture = 0 /\ cp'.ckpt = cp.ckpt /\ cp'.retire = rec.gen
        BY <2>2, <3>2 DEF TypeOK, Memory
      <4> HIDE DEF next
      <4> QED BY <2>3, <3>2, <4>1
    <3> QED BY <1>1, <3>1, <3>2 DEF RecoverSaved
  <2>5. Calls' /\ ShutdownAsks'
    BY <2>1, <2>2, <2>4 DEF Calls, ShutdownAsks
  <2>6. RoutineAsks' /\ OrdinaryAsks' /\ Told'
    BY <2>1, <2>2, <2>4 DEF RoutineAsks, OrdinaryAsks, Told
  <2> QED BY <2>5, <2>6
<1>2. CASE RecoverDiscard
  <2>1. /\ rec.phase \in {"failed", "unknown"} /\ UNCHANGED <<row, src, asks, due>>
        /\ rec.discarding \/ ~(rec.inFlight /\ Settles(rec))
    BY <1>2 DEF RecoverDiscard, NoLiveCheckpoint
  <2>2. /\ rec'.gen = rec.gen /\ rec'.inFlight = rec.inFlight /\ rec'.phase = rec.phase
        /\ rec'.handle = rec.handle
    BY <1>2 DEF RecoverDiscard, TypeOK, Records
  <2>3. cp'.capture = cp.capture /\ cp'.retire = cp.retire /\ cp'.ckpt = cp.ckpt
    BY <1>2 DEF RecoverDiscard, TypeOK, Memory
  <2>4. \A a \in asks : a.kind = "stop"
    BY <2>1 DEF Calls, RoutineAsks, ShutdownAsks, Settles, TypeOK, Requests, Kinds
  <2>5. Calls' /\ ShutdownAsks'
    BY <2>1, <2>2, <2>3 DEF Calls, ShutdownAsks
  <2>6. RoutineAsks' /\ OrdinaryAsks' /\ Told'
    BY <2>1, <2>2, <2>3, <2>4 DEF RoutineAsks, OrdinaryAsks, Told
  <2> QED BY <2>5, <2>6
<1>3. CASE DiscardEnds
  <2>1. rec.discarding /\ UNCHANGED asks
    BY <1>3 DEF DiscardEnds
  <2>2. /\ rec.phase \in {"failed", "unknown"} /\ cp.capture = 0 /\ cp.retire = 0
        /\ \A a \in asks : a.kind = "stop"
    BY <2>1 DEF Calls, RoutineAsks, ShutdownAsks, TypeOK, Requests, Kinds
  <2>3. cp'.capture = cp.capture /\ cp'.retire = cp.retire /\ cp'.ckpt = cp.ckpt
    BY <1>3 DEF DiscardEnds, TypeOK, Memory
  <2>4. \A g \in Gens : src'[g].told = src[g].told
    <3>1. src' = src \/ src' = Stopped(rec.handle)
      BY <1>3 DEF DiscardEnds
    <3> QED BY <3>1, StoppedOnlyEnds DEF TypeOK
  <2>5. /\ rec'.gen = rec.gen /\ ~rec'.discarding
        /\ \/ /\ rec'.phase = "running" /\ rec'.handle = 0 /\ ~rec'.inFlight
              /\ row'.status = "stopped"
           \/ rec'.phase = rec.phase /\ rec'.inFlight = rec.inFlight
    <3>1. CASE /\ rec' = Blank("running", rec.gen, TRUE, NoReceipt)
               /\ row' = [row EXCEPT !.status = "stopped", !.handle = 0]
      BY <3>1 DEF Blank, TypeOK, Rows
    <3>2. CASE rec' = [rec EXCEPT !.discarding = FALSE]
      BY <3>2 DEF TypeOK, Records
    <3> QED BY <1>3, <3>1, <3>2 DEF DiscardEnds
  <2>6. Calls' /\ ShutdownAsks'
    BY <2>1, <2>2, <2>3, <2>5 DEF Calls, ShutdownAsks
  <2>7. RoutineAsks' /\ OrdinaryAsks'
    BY <2>1, <2>2, <2>3 DEF RoutineAsks, OrdinaryAsks
  <2>8. Told'
    BY <1>0, <2>2, <2>4, <2>5, BoundsAssumption DEF Told, Gens
  <2> QED BY <2>6, <2>7, <2>8
<1>4. CASE Restart
  <2>1. /\ cp'.capture = 0 /\ cp'.retire = 0 /\ cp'.ckpt = 0 /\ UNCHANGED <<row, src, due>>
        /\ asks' \subseteq asks /\ \A a \in asks' : a.kind = "continue"
    BY <1>4 DEF Restart, Idle
  <2>2. rec' = rec \/ \E h : /\ rec' = [rec EXCEPT !.phase = "unknown", !.handle = h]
                             /\ rec.phase \in {"restoring", "running"}
    BY <1>4 DEF Restart
  <2>3. /\ rec'.gen = rec.gen /\ rec'.inFlight = rec.inFlight /\ rec'.after = rec.after
        /\ rec'.discarding = rec.discarding
        /\ \/ rec' = rec
           \/ rec'.phase = "unknown" /\ rec.phase \in {"restoring", "running"}
    <3>1. CASE \E h : /\ rec' = [rec EXCEPT !.phase = "unknown", !.handle = h]
                      /\ rec.phase \in {"restoring", "running"}
      <4>1. PICK h : rec' = [rec EXCEPT !.phase = "unknown", !.handle = h]
        BY <3>1
      <4> QED BY <3>1, <4>1 DEF TypeOK, Records
    <3> QED BY <2>2, <3>1
  <2>4. Calls' /\ ShutdownAsks'
    BY <2>1, <2>3 DEF Calls, ShutdownAsks
  <2>5. RoutineAsks' /\ OrdinaryAsks' /\ Told'
    BY <2>1, <2>3 DEF RoutineAsks, OrdinaryAsks, Told, Due
  <2> QED BY <2>4, <2>5
<1> QED BY <1>1, <1>2, <1>3, <1>4

LEMMA ExInductive == TypeOK /\ IdInv /\ ExInv /\ [Next]_vars => ExInv'
<1> SUFFICES ASSUME TypeOK, IdInv, ExInv, [Next]_vars PROVE ExInv'
  OBVIOUS
<1>1. CASE \/ UNCHANGED vars
           \/ Dispatch \/ RefusedExit \/ RuntimeReady \/ GenerationReady \/ BootFails
           \/ WatchdogEnds \/ InvokeProvider \/ RecordFailure \/ ClearFailure
           \/ (\E g \in Gens : Work(g) \/ Quiesce(g) \/ ProviderCreates(g))
           \/ (\E d \in Deadlines : Passes(d)) \/ RecoverPaused
  BY <1>1, QuietSteps, QuietKeeps
<1>2. CASE \/ Emergency \/ AdvanceDraining \/ Prepared \/ AdvancePrepared
           \/ AutoRetry \/ RecoverRetry
  BY <1>2, ExShutdown
<1>3. CASE \/ Complete \/ HeartbeatStale \/ CheckpointSaved \/ CheckpointUnconfirmed
           \/ SettleRunning
  BY <1>3, ExCheckpoint
<1>4. CASE \/ RequestShutdown \/ AdvanceCapturing \/ CaptureSaved \/ CaptureUnconfirmed
           \/ AdvanceRetiring \/ StopConfirmed \/ StopUnconfirmed
  BY <1>4, ExCalls
<1>5. CASE Spawn \/ ProviderAnswers \/ StartFails
  BY <1>5, ExStarts
<1>6. CASE RecoverSaved \/ RecoverDiscard \/ DiscardEnds \/ Restart
  BY <1>6, ExRecovers
<1> QED BY <1>1, <1>2, <1>3, <1>4, <1>5, <1>6 DEF Next

LEMMA ExHolds == Spec => []ExInv
<1>1. Init => ExInv
  <2> SUFFICES ASSUME Init PROVE ExInv
    OBVIOUS
  <2>1. rec.gen = 0 /\ ~rec.discarding
    BY DEF Init, Blank
  <2>2. cp.capture = 0 /\ cp.retire = 0
    BY DEF Init, Idle
  <2>3. asks = {} /\ \A g \in Gens : ~src[g].told
    BY DEF Init
  <2> QED BY <2>1, <2>2, <2>3
          DEF ExInv, Calls, ShutdownAsks, RoutineAsks, OrdinaryAsks, Told
<1> QED BY <1>1, ExInductive, IdHolds, TypeCorrect, PTL DEF Spec

(***************************************************************************)
(* No shutdown's capture or stop runs while a routine checkpoint's request *)
(* may still be running: the record keeps the checkpoint's exclusion until *)
(* its settle time, in the process that asked and in any later one.        *)
(***************************************************************************)
THEOREM CheckpointsAreExclusive == Spec => []CheckpointIsExclusive
<1>1. ExInv => CheckpointIsExclusive
  BY DEF ExInv, Calls, ShutdownAsks, RoutineAsks, CheckpointIsExclusive
<1> QED BY <1>1, ExHolds, PTL
-----------------------------------------------------------------------------
(***************************************************************************)
(* What a save holds.  A shutdown nobody interrupted and nobody steered    *)
(* captures a source that no longer works, so that its image holds all the *)
(* source ever did; the prompt that would still be working is known to the *)
(* control plane, and claiming the shutdown records it as interrupted.     *)
(***************************************************************************)

Gone == {"stale", "stopped"}

\* A shutdown was claimed, it interrupted nothing, and nobody chose for it.
Unattended == rec.began /\ ~rec.paused /\ ~user.chose

\* The current source executes a prompt.
Busy == rec.gen # 0 /\ src[rec.gen].busy

\* Which records a shutdown's claim stands behind.
Begun ==
  /\ rec.phase \in {"none", "running", "restoring"} => ~rec.began
  /\ rec.phase \in {"draining", "prepared", "capturing"} => rec.began
  /\ rec.phase \in {"retiring", "saved"} => rec.began \/ user.chose

\* Past the drain, and through it while a checkpoint runs, such a source rests.
Rested == Unattended /\ (rec.phase = "draining" => rec.inFlight) => ~Busy

\* The prompt of a serving source is the one the queue is processing.
Serving == rec.phase = "running" /\ row.status \notin Gone /\ Busy => processing

\* Also under a checkpoint, which only the watchdog takes of a busy source and
\* which ends before the watchdog fails the prompt.
Saving ==
  rec.phase = "running" /\ rec.inFlight =>
    /\ rec.after # "none"
    /\ Busy => /\ rec.after = "stop" /\ processing
               /\ cp.watch \in {"idle", "saving"} \/ cp.watchOf # rec.gen

\* The watchdog fenced what it watches and awaits its own checkpoint.
Watching ==
  cp.watch # "idle" =>
    /\ cp.watchOf \in 0..rec.gen
    /\ cp.watch = "saving" => cp.ckpt = cp.watchOf /\ cp.watchOf # 0
    /\ cp.watchOf = rec.gen => row.status \in Gone

\* A source that is still being started executes nothing.
Starting ==
  /\ cp.start # 0 => ~Busy
  /\ \A h \in Gens : h > rec.gen => ~src[h].busy

\* A source that stopped its execution was told to, and stays so.
Stilled == \A h \in Gens : src[h].quiet => src[h].told /\ ~src[h].busy

\* The capture in progress is of everything the source did.
Kept ==
  rec.phase = "capturing" /\ Unattended =>
    \A a \in asks : a.kind = "shutdown" => a.low = src[rec.gen].work

\* So is the image a shutdown retires its source for.
Whole ==
  rec.phase \in {"retiring", "saved"} /\ ~rec.paused /\ ~user.chose =>
    rec.receipt.gen = rec.gen /\ rec.receipt.work = src[rec.gen].work

CleanInv ==
  Begun /\ Rested /\ Serving /\ Saving /\ Watching /\ Starting /\ Stilled /\ Kept /\ Whole

(***************************************************************************)
(* Most steps are calm: they begin no execution, request or claim, and a   *)
(* source that rests keeps what it holds.                                  *)
(***************************************************************************)
Calm ==
  /\ rec'.gen = rec.gen /\ rec'.began = rec.began
  /\ rec.paused => rec'.paused
  /\ rec'.inFlight => rec.inFlight
  /\ rec'.phase = "running" /\ rec'.inFlight => rec'.after = rec.after
  /\ rec'.phase \in {"retiring", "saved"} => rec'.receipt = rec.receipt
  /\ \/ rec'.phase = rec.phase
     \/ /\ rec'.phase \in {"failed", "unknown"}
        /\ rec.phase = "draining" => rec.inFlight \/ rec'.paused \/ cp.start # 0
     \/ rec'.phase = "running" /\ rec.phase = "restoring" /\ cp.start # 0
  /\ user'.chose = user.chose
  /\ row.status \in Gone => row'.status \in Gone
  /\ \/ cp'.watch = "idle"
     \/ /\ cp'.watch = cp.watch /\ cp'.watchOf = cp.watchOf
        /\ cp.watch = "saving" => cp'.ckpt = cp.ckpt
     \/ /\ cp.watch = "saving" /\ cp'.watch \in {"stopping", "lost"}
        /\ cp'.watchOf = cp.watchOf
        /\ rec'.phase = "running" /\ rec'.inFlight =>
             cp.watchOf # rec.gen \/ rec.after = "continue"
  /\ cp'.start \in {0, cp.start}
  /\ \A a \in asks' : a.kind = "shutdown" => a \in asks
  /\ \A g \in Gens :
       /\ src'[g].busy => src[g].busy
       /\ src[g].told => src'[g].told
       /\ src'[g].quiet => src[g].quiet \/ (src[g].told /\ ~src'[g].busy)
  /\ rec.handle # 0 /\ ~Busy => src'[rec.gen].work = src[rec.gen].work
  /\ rec'.phase = "running" /\ Busy' /\ (row'.status \notin Gone \/ rec'.inFlight) =>
       processing' = processing

LEMMA CalmKeeps == ASSUME TypeOK, IdInv, CleanInv, Calm PROVE CleanInv'
<1> USE DEF CleanInv, Calm
<1>0. rec.gen \in 0..MaxGens /\ (rec.gen # 0 => rec.gen \in Gens)
  BY BoundsAssumption DEF TypeOK, Records, Gens
<1>1. Busy' => Busy
  BY <1>0 DEF Busy
<1>2. Begun'
  BY DEF Begun
<1>3. Rested'
  BY <1>1 DEF Rested, Unattended, Starting, Begun
<1>4. Serving'
  BY <1>1 DEF Serving, Starting
<1>5. Saving'
  <2>1. rec'.phase = "running" /\ rec'.inFlight => rec.phase = "running"
    BY DEF IdInv, Handles
  <2> QED BY <1>1, <2>1 DEF Saving
<1>6. Watching'
  BY DEF Watching
<1>7. Starting'
  BY <1>0, <1>1 DEF Starting
<1>8. Stilled'
  BY DEF Stilled
<1>9. Kept'
  <2>1. rec'.phase = "capturing" /\ Unattended' => rec.phase = "capturing" /\ Unattended
    BY DEF Unattended
  <2>2. rec.phase = "capturing" /\ Unattended => rec.handle # 0 /\ ~Busy
    BY DEF Rested, IdInv, Handles
  <2> QED BY <2>1, <2>2 DEF Kept
<1>10. Whole'
  <2> SUFFICES ASSUME rec'.phase \in {"retiring", "saved"}, ~rec'.paused, ~user'.chose
               PROVE  rec'.receipt.gen = rec'.gen /\ rec'.receipt.work = src'[rec'.gen].work
    BY DEF Whole
  <2>1. rec.phase = rec'.phase /\ ~rec.paused /\ ~user.chose /\ rec'.receipt = rec.receipt
    OBVIOUS
  <2>2. rec.receipt.gen = rec.gen /\ rec.receipt.work = src[rec.gen].work /\ ~Busy
    BY <2>1 DEF Whole, Rested, Begun, Unattended
  <2>3. rec.handle # 0
    BY <2>1, <2>2, <1>0 DEF IdInv, Handles, Generation
  <2> QED BY <2>1, <2>2, <2>3
<1> QED BY <1>2, <1>3, <1>4, <1>5, <1>6, <1>7, <1>8, <1>9, <1>10

LEMMA CalmServing ==
  ASSUME TypeOK, IdInv,
         \/ UNCHANGED vars
         \/ RefusedExit \/ RuntimeReady \/ GenerationReady \/ BootFails
         \/ InvokeProvider \/ RecordFailure \/ ClearFailure
         \/ (\E g \in Gens : Work(g) \/ Quiesce(g) \/ ProviderCreates(g))
         \/ (\E d \in Deadlines : Passes(d))
  PROVE  Calm
<1> USE DEF Calm
<1>0. rec.gen \in 0..MaxGens /\ (rec.gen # 0 => rec.gen \in Gens)
      /\ (rec.handle # 0 => rec.gen \in Gens /\ rec.gen # 0)
  BY BoundsAssumption DEF TypeOK, Records, Gens, IdInv, Handles, Generation
<1>1. CASE UNCHANGED vars
  BY <1>1 DEF vars
<1>2. CASE RefusedExit
  BY <1>0, <1>2, StoppedOnlyEnds DEF RefusedExit, TypeOK
<1>3. CASE RuntimeReady \/ GenerationReady
  BY <1>3 DEF RuntimeReady, GenerationReady, TypeOK, Records, Rows, Gone
<1>4. CASE BootFails
  BY <1>0, <1>4, StoppedOnlyEnds DEF BootFails, TypeOK, Gone, Rows
<1>5. CASE InvokeProvider
  <2>1. /\ rec'.gen = rec.gen /\ rec'.began = rec.began /\ rec'.paused = rec.paused
        /\ rec'.inFlight = rec.inFlight /\ rec'.after = rec.after
        /\ rec'.receipt = rec.receipt /\ rec'.phase = rec.phase
    BY <1>5 DEF InvokeProvider, TypeOK, Records
  <2>2. row'.status = row.status
    BY <1>5 DEF InvokeProvider, TypeOK, Rows
  <2>3. /\ cp'.watch = cp.watch /\ cp'.watchOf = cp.watchOf /\ cp'.ckpt = cp.ckpt
        /\ cp'.start = cp.start
    BY <1>5 DEF InvokeProvider, TypeOK, Memory
  <2>4. \A g \in Gens : /\ src'[g].busy => src[g].busy
                        /\ src'[g].told = src[g].told /\ src'[g].quiet = src[g].quiet
                        /\ src'[g].work = src[g].work
    BY <1>5, StoppedOnlyEnds DEF InvokeProvider, TypeOK
  <2>5. UNCHANGED <<asks, processing, user>>
    BY <1>5 DEF InvokeProvider
  <2> QED BY <1>0, <2>1, <2>2, <2>3, <2>4, <2>5
<1>6. CASE RecordFailure \/ ClearFailure
  BY <1>6 DEF RecordFailure, ClearFailure, TypeOK, Records
<1>7. CASE \E g \in Gens : Work(g)
  <2>1. PICK g \in Gens : /\ src[g].busy /\ src' = [src EXCEPT ![g].work = @ + 1]
                          /\ UNCHANGED <<rec, row, cp, asks, processing, user>>
    BY <1>7 DEF Work
  <2>2. \A h \in Gens : /\ src'[h].busy = src[h].busy /\ src'[h].told = src[h].told
                        /\ src'[h].quiet = src[h].quiet
                        /\ ~src[h].busy => src'[h].work = src[h].work
    BY <2>1 DEF TypeOK, Sources
  <2> QED BY <1>0, <2>1, <2>2 DEF Busy
<1>8. CASE \E g \in Gens : Quiesce(g)
  BY <1>0, <1>8 DEF Quiesce, TypeOK, Sources
<1>9. CASE \E g \in Gens : ProviderCreates(g)
  BY <1>0, <1>9 DEF ProviderCreates, IdInv, Handles, TypeOK, Sources
<1>10. CASE \E d \in Deadlines : Passes(d)
  BY <1>0, <1>10, StoppedOnlyEnds DEF Passes, TypeOK
<1> QED BY <1>1, <1>2, <1>3, <1>4, <1>5, <1>6, <1>7, <1>8, <1>9, <1>10

LEMMA CalmEnding ==
  ASSUME TypeOK, IdInv,
         \/ ProviderAnswers \/ StartFails \/ AdvanceCapturing \/ CaptureUnconfirmed
         \/ AdvanceRetiring \/ StopUnconfirmed \/ RecoverDiscard \/ Restart
  PROVE  Calm
<1> USE DEF Calm
<1>0. rec.gen \in 0..MaxGens /\ (rec.handle # 0 => rec.gen \in Gens)
  BY BoundsAssumption DEF TypeOK, Records, Gens, IdInv, Handles, Generation
<1>1. CASE ProviderAnswers
  <2>1. /\ rec'.gen = rec.gen /\ rec'.began = rec.began /\ rec'.paused = rec.paused
        /\ rec'.inFlight = rec.inFlight /\ rec'.after = rec.after
        /\ rec'.receipt = rec.receipt
        /\ \/ rec'.phase = rec.phase
           \/ rec'.phase = "running" /\ rec.phase = "restoring"
    BY <1>1 DEF ProviderAnswers, TypeOK, Records
  <2>2. row'.status = row.status /\ cp.start # 0
    BY <1>1 DEF ProviderAnswers, TypeOK, Rows, IdInv, Generation
  <2>3. /\ cp'.watch = cp.watch /\ cp'.watchOf = cp.watchOf /\ cp'.ckpt = cp.ckpt
        /\ cp'.start = 0
    BY <1>1 DEF ProviderAnswers, TypeOK, Memory
  <2>4. \A g \in Gens : /\ src'[g].busy => src[g].busy
                        /\ src'[g].told = src[g].told /\ src'[g].quiet = src[g].quiet
                        /\ src'[g].work = src[g].work
    BY <1>1, StoppedOnlyEnds DEF ProviderAnswers, TypeOK
  <2>5. UNCHANGED <<asks, processing, user>>
    BY <1>1 DEF ProviderAnswers
  <2> QED BY <1>0, <2>1, <2>2, <2>3, <2>4, <2>5
<1>2. CASE StartFails
  <2>1. /\ rec'.gen = rec.gen /\ rec'.began = rec.began /\ rec'.paused = rec.paused
        /\ rec'.inFlight = rec.inFlight /\ rec'.after = rec.after
        /\ rec'.receipt = rec.receipt /\ rec'.phase \in {rec.phase, "unknown"}
    BY <1>2 DEF StartFails, Failed, TypeOK, Records
  <2>2. row'.status = row.status \/ row.status = "starting"
    BY <1>2 DEF StartFails, TypeOK, Rows
  <2>3. /\ cp'.watch = cp.watch /\ cp'.watchOf = cp.watchOf /\ cp'.ckpt = cp.ckpt
        /\ cp'.start = 0 /\ cp.start # 0
    BY <1>2 DEF StartFails, TypeOK, Memory
  <2>4. UNCHANGED <<src, asks, processing, user>>
    BY <1>2 DEF StartFails
  <2> QED BY <2>1, <2>2, <2>3, <2>4 DEF Gone
<1>3. CASE AdvanceCapturing
  BY <1>3 DEF AdvanceCapturing, Failed, TypeOK, Records
<1>4. CASE CaptureUnconfirmed
  <2>1. /\ cp'.watch = cp.watch /\ cp'.watchOf = cp.watchOf /\ cp'.ckpt = cp.ckpt
        /\ cp'.start = cp.start
    BY <1>4 DEF CaptureUnconfirmed, TypeOK, Memory
  <2>2. /\ Agree(rec, rec') /\ rec'.inFlight = rec.inFlight /\ rec'.after = rec.after
        /\ rec'.phase = rec.phase \/ (rec'.phase = "unknown" /\ rec.phase = "capturing")
    BY <1>4 DEF CaptureUnconfirmed, OwnsCapture, Failed, Agree, TypeOK, Records
  <2> QED BY <1>4, <2>1, <2>2 DEF CaptureUnconfirmed, Agree
<1>5. CASE AdvanceRetiring
  <2>1. /\ rec.phase = "retiring" /\ Retire(rec, cp)
        /\ UNCHANGED <<row, src, asks, processing, user>>
    BY <1>5 DEF AdvanceRetiring
  <2>2. /\ Agree(rec, rec') /\ rec'.inFlight = rec.inFlight /\ rec'.after = rec.after
        /\ rec'.phase \in {rec.phase, "unknown"}
        /\ cp' \in {cp, [cp EXCEPT !.retire = rec.gen]}
    BY <2>1, RetireFields DEF TypeOK
  <2>3. /\ cp'.watch = cp.watch /\ cp'.watchOf = cp.watchOf /\ cp'.ckpt = cp.ckpt
        /\ cp'.start = cp.start
    BY <2>2 DEF TypeOK, Memory
  <2> QED BY <2>1, <2>2, <2>3 DEF Agree
<1>6. CASE StopUnconfirmed
  <2>1. /\ cp'.watch = cp.watch /\ cp'.watchOf = cp.watchOf /\ cp'.ckpt = cp.ckpt
        /\ cp'.start = cp.start
    BY <1>6 DEF StopUnconfirmed, TypeOK, Memory
  <2>2. \A g \in Gens : /\ src'[g].busy => src[g].busy
                        /\ src'[g].told = src[g].told /\ src'[g].quiet = src[g].quiet
                        /\ src'[g].work = src[g].work
    BY <1>6, StoppedOnlyEnds DEF StopUnconfirmed, TypeOK
  <2>3. /\ Agree(rec, rec') /\ rec'.inFlight = rec.inFlight /\ rec'.after = rec.after
        /\ rec'.phase = rec.phase \/ (rec'.phase = "unknown" /\ rec.phase = "retiring")
    BY <1>6 DEF StopUnconfirmed, OwnsRetire, Failed, Agree, TypeOK, Records
  <2>4. UNCHANGED <<row, asks, processing, user>>
    BY <1>6 DEF StopUnconfirmed
  <2> QED BY <1>0, <2>1, <2>2, <2>3, <2>4 DEF Agree
<1>7. CASE RecoverDiscard
  BY <1>7 DEF RecoverDiscard, TypeOK, Records, Memory
<1>8. CASE Restart
  BY <1>8 DEF Restart, Idle, TypeOK, Records
<1> QED BY <1>1, <1>2, <1>3, <1>4, <1>5, <1>6, <1>7, <1>8

LEMMA CalmCheckpoint ==
  ASSUME TypeOK, IdInv, ExInv, CleanInv,
         CheckpointSaved \/ CheckpointUnconfirmed \/ SettleRunning
  PROVE  Calm
<1> USE DEF Calm
<1>1. ASSUME rec.phase = "running", rec.inFlight, cp.watch = "saving",
             cp.watchOf = rec.gen
      PROVE  OwnsCheckpoint
  <2>1. cp.ckpt = rec.gen /\ rec.after # "none"
    BY <1>1 DEF CleanInv, Watching, Saving
  <2>2. ~rec.discarding /\ ~rec.invoked
    BY <1>1, BoundsAssumption
       DEF ExInv, Calls, IdInv, Handles, Generation, TypeOK, Records
  <2> QED BY <1>1, <2>1, <2>2 DEF OwnsCheckpoint
<1>2. CASE CheckpointSaved
  <2>1. PICK a \in CheckpointAsk :
          /\ asks' = asks \ {a}
          /\ \E w : rec' = IF OwnsCheckpoint
                    THEN [Released(rec) EXCEPT !.receipt =
                            [gen |-> a.gen, work |-> w, shutdown |-> FALSE]]
                    ELSE rec
          /\ cp' = [Watched(cp, rec'.phase # "running") EXCEPT !.ckpt = 0]
    BY <1>2 DEF CheckpointSaved
  <2>2. /\ rec'.gen = rec.gen /\ rec'.phase = rec.phase /\ rec'.began = rec.began
        /\ rec'.paused = rec.paused
        /\ \/ OwnsCheckpoint /\ ~rec'.inFlight /\ rec.phase \notin {"retiring", "saved"}
           \/ ~OwnsCheckpoint /\ rec' = rec
    <3>1. CASE OwnsCheckpoint
      <4>1. PICK w : rec' = [Released(rec) EXCEPT !.receipt =
                              [gen |-> a.gen, work |-> w, shutdown |-> FALSE]]
        BY <2>1, <3>1
      <4> QED BY <3>1, <4>1 DEF Released, OwnsCheckpoint, TypeOK, Records
    <3> QED BY <2>1, <3>1
  <2>3. /\ cp'.watchOf = cp.watchOf /\ cp'.start = cp.start
        /\ \/ cp'.watch = cp.watch /\ cp.watch # "saving"
           \/ cp.watch = "saving" /\ cp'.watch \in {"stopping", "lost"}
    BY <2>1 DEF Watched, TypeOK, Memory
  <2>4. row'.status = row.status \/ row.status = "snapshotting"
    BY <1>2 DEF CheckpointSaved
  <2>5. UNCHANGED <<src, processing, user>>
    BY <1>2 DEF CheckpointSaved
  <2> QED BY <1>1, <2>1, <2>2, <2>3, <2>4, <2>5 DEF Gone
<1>3. CASE CheckpointUnconfirmed
  <2>1. /\ rec'.gen = rec.gen /\ rec'.began = rec.began /\ rec'.paused = rec.paused
        /\ rec'.receipt = rec.receipt
        /\ \/ /\ rec'.phase = rec.phase /\ rec'.inFlight = rec.inFlight
              /\ rec'.after = rec.after /\ (OwnsCheckpoint => rec.after = "continue")
           \/ /\ rec'.phase = "unknown" /\ ~rec'.inFlight /\ rec.inFlight
    BY <1>3 DEF CheckpointUnconfirmed, OwnsCheckpoint, Settles, Released, Failed, TypeOK, Records
  <2>2. /\ cp'.watchOf = cp.watchOf /\ cp'.start = cp.start
        /\ \/ cp'.watch = cp.watch /\ cp.watch # "saving"
           \/ cp.watch = "saving" /\ cp'.watch = "lost"
    BY <1>3 DEF CheckpointUnconfirmed, Watched, TypeOK, Memory
  <2>3. asks' \subseteq asks /\ UNCHANGED <<src, row, processing, user>>
    BY <1>3 DEF CheckpointUnconfirmed
  <2> QED BY <1>1, <2>1, <2>2, <2>3
<1>4. CASE SettleRunning
  <2>1. /\ rec.phase = "running" /\ rec.inFlight
        /\ UNCHANGED <<cp, src, asks, processing, user>>
    BY <1>4 DEF SettleRunning
  <2>2. /\ rec'.gen = rec.gen /\ rec'.began = rec.began /\ rec'.paused = rec.paused
        /\ \/ rec'.phase = "unknown"
           \/ rec'.phase = "running" /\ (rec'.inFlight => rec'.after = rec.after)
    <3>1. \/ rec' = Failed([rec EXCEPT !.after = "none"], "unknown", FALSE)
          \/ \E u : rec' = Failed([Released(rec) EXCEPT !.inFlight = u], "unknown", FALSE)
          \/ rec' = Released(rec) \/ rec' = [rec EXCEPT !.deferred = TRUE]
      BY <1>4 DEF SettleRunning
    <3>2. CASE rec' = Failed([rec EXCEPT !.after = "none"], "unknown", FALSE)
      BY <2>1, <3>2 DEF Failed, TypeOK, Records
    <3>3. CASE \E u : rec' = Failed([Released(rec) EXCEPT !.inFlight = u], "unknown", FALSE)
      <4>1. PICK u : rec' = Failed([Released(rec) EXCEPT !.inFlight = u], "unknown", FALSE)
        BY <3>3
      <4> QED BY <2>1, <4>1 DEF Failed, Released, TypeOK, Records
    <3>4. CASE rec' = Released(rec) \/ rec' = [rec EXCEPT !.deferred = TRUE]
      BY <2>1, <3>4 DEF Released, TypeOK, Records
    <3> QED BY <3>1, <3>2, <3>3, <3>4
  <2>3. row' = row \/ row.status \in {"snapshotting", "ready"}
    BY <1>4 DEF SettleRunning
  <2> QED BY <2>1, <2>2, <2>3 DEF Gone
<1> QED BY <1>2, <1>3, <1>4

LEMMA CleanServing ==
  ASSUME TypeOK, IdInv, ExInv, CleanInv,
         Dispatch \/ Complete \/ HeartbeatStale \/ WatchdogEnds
  PROVE  CleanInv'
<1> USE DEF CleanInv
<1>0. rec.gen \in 0..MaxGens /\ (rec.phase # "none" => rec.gen # 0 /\ rec.gen \in Gens)
  BY BoundsAssumption DEF TypeOK, Records, IdInv, Generation, Gens
<1>1. CASE Dispatch
  <2>1. /\ rec.phase = "running" /\ rec.handle # 0 /\ ~rec.inFlight /\ cp.start = 0
        /\ UNCHANGED <<rec, row, cp, asks, user>> /\ processing'
    BY <1>1 DEF Dispatch, Admission
  <2>2. rec.gen \in Gens /\ ~src[rec.gen].quiet /\ ~rec.began
    BY <1>0, <2>1 DEF ExInv, Told, Stilled, Begun
  <2>3. \A g \in Gens : /\ src'[g].busy => src[g].busy \/ g = rec.gen
                        /\ src'[g].told = src[g].told /\ src'[g].quiet = src[g].quiet
    BY <1>1, <2>2 DEF Dispatch, TypeOK, Sources
  <2>4. Begun' /\ Rested' /\ Watching' /\ Kept' /\ Whole'
    BY <2>1, <2>2 DEF Begun, Rested, Unattended, Watching, Kept, Whole
  <2>5. Serving' /\ Saving'
    BY <2>1 DEF Serving, Saving
  <2>6. Starting' /\ Stilled'
    BY <1>0, <2>1, <2>2, <2>3 DEF Starting, Stilled
  <2> QED BY <2>4, <2>5, <2>6
<1>2. CASE Complete
  <2>1. /\ rec.gen \in Gens /\ ~src'[rec.gen].busy /\ UNCHANGED user
        /\ \A g \in Gens : /\ src'[g].busy => src[g].busy
                           /\ src'[g].told = src[g].told /\ src'[g].quiet = src[g].quiet
                           /\ src'[g].work = src[g].work
    BY <1>0, <1>2 DEF Complete, TypeOK, Sources
  <2>2. CASE UNCHANGED <<rec, row, cp, asks, due>>
    <3>1. ~Busy'
      BY <2>1, <2>2 DEF Busy
    <3> QED BY <2>1, <2>2, <3>1, CalmKeeps DEF Calm
  <2>3. CASE /\ CheckpointAdmitted /\ cp' = [cp EXCEPT !.ckpt = rec.gen]
             /\ BeginCheckpoint("continue", IF Dead THEN row.status ELSE "snapshotting")
    <3>1. rec.phase = "running" /\ cp.ckpt = 0 /\ ~rec.began
      BY <2>3 DEF CheckpointAdmitted, Admission, Begun
    <3>2. /\ rec'.gen = rec.gen /\ rec'.phase = "running" /\ ~rec'.began
          /\ rec'.after = "continue"
      BY <2>3, <3>1 DEF BeginCheckpoint, TypeOK, Records
    <3>3. cp'.watch = cp.watch /\ cp'.watchOf = cp.watchOf /\ cp'.start = cp.start
      BY <2>3 DEF TypeOK, Memory
    <3>4. row.status \in Gone => row'.status \in Gone
      BY <2>3 DEF BeginCheckpoint, Dead, Gone, TypeOK, Rows
    <3>5. ~Busy'
      BY <2>1, <3>2 DEF Busy
    <3>6. Begun' /\ Rested' /\ Kept' /\ Whole'
      BY <3>2, <3>5 DEF Begun, Rested, Kept, Whole
    <3>7. Serving' /\ Saving'
      BY <3>2, <3>5 DEF Serving, Saving
    <3>8. Watching'
      BY <3>1, <3>2, <3>3, <3>4 DEF Watching
    <3>9. Starting' /\ Stilled'
      BY <2>1, <3>2, <3>5 DEF Starting, Stilled
    <3> QED BY <3>6, <3>7, <3>8, <3>9
  <2> QED BY <1>2, <2>2, <2>3 DEF Complete
<1>3. CASE HeartbeatStale
  <2>1. /\ rec.phase = "running" /\ row.status = "ready" /\ ~Holding /\ ~rec.inFlight
        /\ UNCHANGED <<src, processing, user>> /\ ~rec.began
    BY <1>3 DEF HeartbeatStale, Holding, Begun
  <2>2. Busy => processing
    BY <2>1 DEF Serving, Gone
  <2>3. CASE CheckpointAdmitted
    <3>1. /\ rec'.gen = rec.gen /\ rec'.phase = "running" /\ ~rec'.began
          /\ rec'.after = "stop"
      BY <1>3, <2>1, <2>3 DEF HeartbeatStale, BeginCheckpoint, TypeOK, Records
    <3>2. row.handle = rec.gen
      BY <2>3, BoundsAssumption DEF CheckpointAdmitted, Admission, IdInv, Handles
    <3>3. /\ cp'.watch = "saving" /\ cp'.watchOf = rec.gen /\ cp'.ckpt = rec.gen
          /\ cp'.start = cp.start
      BY <1>3, <2>3, <3>2 DEF HeartbeatStale, TypeOK, Memory
    <3>4. row'.status = "stale"
      BY <1>3, <2>3 DEF HeartbeatStale, BeginCheckpoint, TypeOK, Rows
    <3>5. Begun' /\ Rested' /\ Kept' /\ Whole'
      BY <3>1 DEF Begun, Rested, Unattended, Kept, Whole
    <3>6. Busy' => Busy
      BY <2>1, <3>1 DEF Busy
    <3>7. Serving' /\ Saving'
      BY <2>1, <2>2, <3>1, <3>3, <3>4, <3>6 DEF Serving, Saving, Gone
    <3>8. Watching'
      BY <1>0, <2>1, <3>1, <3>3, <3>4 DEF Watching, Gone
    <3>9. Starting' /\ Stilled'
      BY <2>1, <3>1, <3>3, <3>6 DEF Starting, Stilled
    <3> QED BY <3>5, <3>7, <3>8, <3>9
  <2>4. CASE ~CheckpointAdmitted
    <3>1. /\ cp'.watch = "stopping" /\ cp'.watchOf = row.handle /\ cp'.start = cp.start
          /\ row'.status = "stale" /\ UNCHANGED <<rec, asks>>
      BY <1>3, <2>4 DEF HeartbeatStale, TypeOK, Memory, Rows
    <3>2. Begun' /\ Rested' /\ Kept' /\ Whole'
      BY <2>1, <3>1 DEF Begun, Rested, Unattended, Kept, Whole
    <3>3. Serving' /\ Saving'
      BY <2>1, <3>1 DEF Serving, Saving, Gone
    <3>4. Watching'
      BY <3>1 DEF Watching, Gone, IdInv, Handles
    <3>5. Starting' /\ Stilled'
      BY <2>1, <3>1 DEF Starting, Stilled, Busy
    <3> QED BY <3>2, <3>3, <3>4, <3>5
  <2> QED BY <2>3, <2>4
<1>4. CASE WatchdogEnds
  <2>1. cp'.watch = "idle" /\ cp'.start = cp.start /\ cp.watch \in {"stopping", "lost"}
    BY <1>4 DEF WatchdogEnds, TypeOK, Memory
  <2>2. \A g \in Gens : /\ src'[g].busy => src[g].busy
                        /\ src'[g].told = src[g].told /\ src'[g].quiet = src[g].quiet
                        /\ src'[g].work = src[g].work
    BY <1>4, StoppedOnlyEnds DEF WatchdogEnds, TypeOK
  <2>3. /\ UNCHANGED <<rec, row, asks, user>>
        /\ processing' = (processing /\ cp.watchOf # rec.gen)
    BY <1>4 DEF WatchdogEnds
  <2>4. Busy' => Busy
    BY <1>0, <2>2, <2>3, BoundsAssumption DEF Busy, Gens
  <2>5. rec.handle # 0 => rec.gen \in Gens
    BY <1>0 DEF IdInv, Handles, Generation
  <2>6. rec.phase = "running" /\ Busy' /\ (row.status \notin Gone \/ rec.inFlight) =>
          cp.watchOf # rec.gen
    BY <2>1, <2>4 DEF Saving, Watching
  <2> QED BY <2>1, <2>2, <2>3, <2>5, <2>6, CalmKeeps DEF Calm, TypeOK
<1> QED BY <1>1, <1>2, <1>3, <1>4

\* A capture, begun or refused, of a source that rests or that the user will
\* decide about.
LEMMA CleanCapture ==
  ASSUME TypeOK, IdInv, ExInv, CleanInv, NEW handle,
         Captures(handle, {"failed", "unknown"}), cp.capture = 0,
         rec'.gen = rec.gen, rec'.began, user'.chose = user.chose, UNCHANGED src,
         row.status \in Gone => row'.status \in Gone,
         rec'.paused \/ user.chose \/ (~Busy /\ handle \in {0, rec.gen})
  PROVE  CleanInv'
<1> USE DEF CleanInv
<1>1. /\ rec'.phase \in {"capturing", "failed", "unknown"}
      /\ cp'.watch = cp.watch /\ cp'.watchOf = cp.watchOf /\ cp'.ckpt = cp.ckpt
      /\ cp'.start = cp.start
  BY DEF Captures, TypeOK, Memory
<1>2. Begun' /\ Serving' /\ Saving' /\ Whole'
  BY <1>1 DEF Begun, Serving, Saving, Whole
<1>3. Busy' = Busy
  BY DEF Busy
<1>4. Rested'
  BY <1>3 DEF Rested, Unattended
<1>5. Watching' /\ Starting' /\ Stilled'
  BY <1>1, <1>3 DEF Watching, Starting, Stilled
<1>6. Kept'
  <2> SUFFICES ASSUME rec'.phase = "capturing", Unattended', NEW a \in asks',
                      a.kind = "shutdown"
               PROVE  a.low = src'[rec'.gen].work
    BY DEF Kept
  <2>1. handle \in {0, rec.gen}
    BY DEF Unattended
  <2>2. a \notin asks
    BY DEF ExInv, ShutdownAsks
  <2>3. handle # 0 /\ a = [gen |-> handle, kind |-> "shutdown", low |-> src[handle].work]
    BY <2>2 DEF Captures
  <2> QED BY <2>1, <2>3
<1> QED BY <1>2, <1>4, <1>5, <1>6

LEMMA CleanShutdown ==
  ASSUME TypeOK, IdInv, ExInv, CleanInv,
         \/ RequestShutdown \/ Emergency \/ AdvanceDraining \/ Prepared
         \/ AdvancePrepared \/ AutoRetry \/ RecoverRetry
  PROVE  CleanInv'
<1> USE DEF CleanInv
<1>0. rec.gen \in 0..MaxGens /\ (rec.phase # "none" => rec.gen # 0 /\ rec.gen \in Gens)
      /\ (rec.phase # "capturing" => cp.capture = 0)
      /\ (rec.handle # 0 => rec.handle = rec.gen /\ rec.gen \in Gens)
  BY BoundsAssumption
     DEF TypeOK, Records, IdInv, Generation, Handles, Gens, ExInv, Calls
<1>1. CASE RequestShutdown
  <2>1. PICK paused \in BOOLEAN :
          /\ Interrupt(paused)
          /\ rec' = [rec EXCEPT !.phase = "draining", !.paused = paused,
                                !.failure = FALSE, !.began = TRUE]
    BY <1>1 DEF RequestShutdown
  <2>2. /\ rec'.phase = "draining" /\ rec'.gen = rec.gen /\ rec'.inFlight = rec.inFlight
        /\ rec'.began /\ rec'.paused = paused
    BY <2>1 DEF TypeOK, Records
  <2>3. (processing => paused) /\ user'.chose = user.chose
    BY <2>1 DEF Interrupt, TypeOK
  <2>4. rec.phase = "running" /\ UNCHANGED <<row, cp, src, asks>>
    BY <1>1 DEF RequestShutdown
  <2>5. Busy' = Busy
    BY <2>2, <2>4 DEF Busy
  <2>6. Begun' /\ Serving' /\ Saving' /\ Kept' /\ Whole'
    BY <2>2 DEF Begun, Serving, Saving, Kept, Whole
  <2>7. Rested'
    BY <2>2, <2>3, <2>4, <2>5 DEF Rested, Unattended, Saving
  <2>8. Watching' /\ Starting' /\ Stilled'
    BY <2>2, <2>4, <2>5 DEF Watching, Starting, Stilled
  <2> QED BY <2>6, <2>7, <2>8
<1>2. CASE Emergency
  <2>1. /\ rec.phase \in {"running", "restoring"} /\ UNCHANGED src
        /\ user'.chose = user.chose
    BY <1>2 DEF Emergency, TypeOK
  <2> QED BY <1>0, <1>2, <2>1, EmergencyFields, CleanCapture DEF SameIdentity, Gone, Captures
<1>3. CASE AdvanceDraining
  <2>1. rec.phase = "draining" /\ UNCHANGED <<processing, user>>
    BY <1>3 DEF AdvanceDraining
  <2>2. row.status \in Gone => row'.status \in Gone
    BY <1>3, DrainingFields, FencedFields DEF Gone, TypeOK
  <2>3. CASE rec'.phase = "capturing"
    <3>1. /\ rec'.gen = rec.gen /\ rec'.began = rec.began /\ rec'.paused
          /\ UNCHANGED src /\ Captures(rec.handle, {"failed", "unknown"})
      BY <1>3, <2>3, DrainingFields DEF SameIdentity, Captures
    <3>2. rec.began
      BY <2>1 DEF Begun
    <3> QED BY <1>0, <2>1, <2>2, <3>1, <3>2, CleanCapture
  <2>4. CASE rec'.phase # "capturing"
    <3>1. /\ rec'.phase \in {"draining", "failed", "unknown"} /\ UNCHANGED <<cp, asks>>
      BY <1>3, <2>4, DrainingFields DEF Captures
    <3>2. /\ rec'.gen = rec.gen /\ rec'.began = rec.began /\ (rec.paused => rec'.paused)
          /\ rec'.inFlight => rec.inFlight
          /\ rec'.phase = "draining" \/ rec.inFlight \/ rec'.paused
      BY <1>3, DrainingFields DEF SameIdentity
    <3>3. \A g \in Gens : /\ src'[g].busy = src[g].busy /\ src'[g].quiet = src[g].quiet
                          /\ src[g].told => src'[g].told
                          /\ src'[g].work = src[g].work
      BY <1>0, <1>3, <2>1, DrainingFields DEF TypeOK, Sources
    <3> QED BY <1>0, <2>1, <2>2, <3>1, <3>2, <3>3, CalmKeeps DEF Calm
  <2> QED BY <2>3, <2>4
<1>4. CASE Prepared
  <2>1. rec.phase = "draining" /\ UNCHANGED <<src, processing, user>>
    BY <1>4 DEF Prepared
  <2>2. row.status \in Gone => row'.status \in Gone
    BY <1>4, PreparedFields, FencedFields DEF Gone, TypeOK
  <2>3. /\ rec'.gen = rec.gen /\ rec'.began = rec.began /\ rec.began
        /\ Captures(rec.handle, {"prepared", "failed"})
    BY <1>4, <2>1, PreparedFields DEF SameIdentity, Begun
  <2>4. CASE rec'.phase \in {"capturing", "failed"}
    <3>1. rec'.paused /\ Captures(rec.handle, {"failed", "unknown"})
      BY <1>4, <2>3, <2>4, PreparedFields DEF Captures
    <3> QED BY <1>0, <2>1, <2>2, <2>3, <3>1, CleanCapture
  <2>5. CASE rec'.phase = "prepared"
    <3>1. UNCHANGED <<cp, asks>> /\ src[rec.gen].quiet
      BY <1>4, <2>3, <2>5, PreparedFields DEF Captures
    <3>2. ~Busy' /\ (Busy' => Busy)
      BY <1>0, <2>1, <2>3, <3>1 DEF Busy, Stilled
    <3>3. Begun' /\ Serving' /\ Saving' /\ Kept' /\ Whole' /\ Rested'
      BY <2>3, <2>5, <3>2 DEF Begun, Serving, Saving, Kept, Whole, Rested
    <3>4. Watching' /\ Starting' /\ Stilled'
      BY <2>1, <2>2, <2>3, <3>1, <3>2 DEF Watching, Starting, Stilled
    <3> QED BY <3>3, <3>4
  <2> QED BY <2>3, <2>4, <2>5 DEF Captures
<1>5. CASE AdvancePrepared \/ AutoRetry \/ RecoverRetry
  <2>1. /\ rec.phase \in {"prepared", "failed", "unknown"} /\ rec.began
        /\ UNCHANGED <<src, user>> /\ row' \in {row, Fenced}
        /\ \E late : Capture(rec, late)
    BY <1>5 DEF AdvancePrepared, AutoRetry, RecoverRetry, Offered, RetryCapture, CanRetry,
                Begun
  <2>2. Agree(rec, rec') /\ Captures(rec.handle, {"failed", "unknown"})
    BY <2>1, CaptureFields DEF Captures, TypeOK
  <2>3. row.status \in Gone => row'.status \in Gone
    BY <2>1, FencedFields DEF Gone, TypeOK
  <2>4. rec.paused \/ user.chose \/ ~Busy
    BY <2>1 DEF Rested, Unattended
  <2>5. cp.capture = 0 /\ rec.handle \in {0, rec.gen}
    BY <1>0, <2>1
  <2>6. rec'.gen = rec.gen /\ rec'.began /\ rec'.paused = rec.paused
    BY <2>1, <2>2 DEF Agree
  <2> QED BY <2>1, <2>2, <2>3, <2>4, <2>5, <2>6, CleanCapture
<1> QED BY <1>1, <1>2, <1>3, <1>4, <1>5

LEMMA CleanRetirement ==
  ASSUME TypeOK, IdInv, ExInv, CleanInv,
         CaptureSaved \/ StopConfirmed \/ RecoverPaused \/ RecoverSaved
  PROVE  CleanInv'
<1> USE DEF CleanInv
<1>0. rec.gen \in 0..MaxGens /\ (rec.phase # "none" => rec.gen # 0 /\ rec.gen \in Gens)
  BY BoundsAssumption DEF TypeOK, Records, IdInv, Generation, Gens
<1>1. CASE CaptureSaved
  <2>1. rec.phase = "capturing" /\ rec.began /\ UNCHANGED <<row, src, processing, user>>
    BY <1>1 DEF CaptureSaved, ExInv, Calls, Begun
  <2>2. cp'.watch = cp.watch /\ cp'.watchOf = cp.watchOf /\ cp'.ckpt = cp.ckpt
        /\ cp'.start = cp.start
    BY <1>1, CaptureSavedFields
  <2>3. Busy' = Busy
    BY <1>1, <2>1, CaptureSavedFields DEF Busy
  <2>4. Watching' /\ Starting' /\ Stilled'
    BY <1>1, <2>1, <2>2, <2>3, CaptureSavedFields DEF Watching, Starting, Stilled
  <2>5. Begun' /\ Rested' /\ Serving' /\ Saving' /\ Kept'
    BY <1>1, <2>1, <2>3, CaptureSavedFields
       DEF Begun, Rested, Unattended, Serving, Saving, Kept
  <2>6. Whole'
    <3> SUFFICES ASSUME rec'.phase \in {"retiring", "saved"}, ~rec'.paused, ~user'.chose
                 PROVE  rec'.receipt.gen = rec'.gen /\ rec'.receipt.work = src'[rec'.gen].work
      BY DEF Whole
    <3>1. PICK a \in CaptureAsk : rec'.receipt.work \in a.low .. src[rec.gen].work
      BY <1>1, <2>1, CaptureSavedFields
    <3>2. Unattended
      BY <1>1, <2>1, CaptureSavedFields DEF Unattended
    <3>3. a.low = src[rec.gen].work
      BY <2>1, <3>2 DEF Kept, CaptureAsk
    <3>4. src[rec.gen].work \in Nat
      BY <1>0, <2>1, BoundsAssumption DEF TypeOK, Sources
    <3>5. rec'.receipt.work = src[rec.gen].work
      BY <3>1, <3>3, <3>4
    <3> QED BY <1>1, <2>1, <3>5, CaptureSavedFields
  <2> QED BY <2>4, <2>5, <2>6
<1>2. CASE StopConfirmed
  <2>1. rec.phase = "retiring" /\ Finish(rec) /\ UNCHANGED <<asks, processing, user>>
    BY <1>2 DEF StopConfirmed, OwnsRetire, ExInv, Calls
  <2>2. /\ rec'.phase = "saved" /\ Agree(rec, rec') /\ rec'.inFlight = rec.inFlight
        /\ row'.status = "stopped"
    BY <2>1, FinishFields DEF TypeOK
  <2>3. /\ cp'.watch = cp.watch /\ cp'.watchOf = cp.watchOf /\ cp'.ckpt = cp.ckpt
        /\ cp'.start = cp.start
    BY <1>2 DEF StopConfirmed, TypeOK, Memory
  <2>4. \A g \in Gens : /\ src'[g].busy => src[g].busy
                        /\ src'[g].told = src[g].told /\ src'[g].quiet = src[g].quiet
                        /\ src'[g].work = src[g].work
    BY <1>2, StoppedOnlyEnds DEF StopConfirmed, TypeOK
  <2>5. (Busy' => Busy) /\ rec.gen \in Gens
    BY <1>0, <2>1, <2>2, <2>4 DEF Busy, Agree
  <2>6. Watching' /\ Starting' /\ Stilled'
    BY <2>2, <2>3, <2>4, <2>5 DEF Watching, Starting, Stilled, Agree, Gone
  <2>7. Begun' /\ Rested' /\ Serving' /\ Saving' /\ Kept' /\ Whole'
    BY <2>1, <2>2, <2>4, <2>5
       DEF Begun, Rested, Unattended, Serving, Saving, Kept, Whole, Agree
  <2> QED BY <2>6, <2>7
<1>3. CASE RecoverPaused
  <2>1. /\ rec.phase = "saved" /\ user'.chose /\ UNCHANGED <<row, cp, src, asks, processing>>
        /\ rec'.gen = rec.gen /\ rec'.phase = rec.phase /\ rec'.began = rec.began
    BY <1>3 DEF RecoverPaused, TypeOK, Records
  <2> QED BY <2>1 DEF Begun, Rested, Unattended, Serving, Saving, Watching, Starting,
             Stilled, Kept, Whole, Busy
<1>4. CASE RecoverSaved
  <2> DEFINE next == [rec EXCEPT !.phase = "retiring", !.paused = FALSE]
  <2>1. next \in Records /\ next.gen = rec.gen
    BY DEF TypeOK, Records, Phases
  <2>2. \/ Finish(next) /\ UNCHANGED cp
        \/ rec' = next /\ cp' = [cp EXCEPT !.retire = rec.gen] /\ UNCHANGED row
    BY <1>4 DEF RecoverSaved
  <2>3. user'.chose /\ UNCHANGED <<src, asks, processing>>
    BY <1>4 DEF RecoverSaved
  <2>4. /\ cp'.watch = cp.watch /\ cp'.watchOf = cp.watchOf /\ cp'.ckpt = cp.ckpt
        /\ cp'.start = cp.start
    BY <2>2 DEF TypeOK, Memory
  <2>5. next.phase = "retiring"
    BY DEF TypeOK, Records
  <2> HIDE DEF next
  <2>6. /\ rec'.gen = rec.gen /\ rec'.phase \in {"retiring", "saved"}
        /\ row.status \in Gone => row'.status \in Gone
    BY <2>1, <2>2, <2>5, FinishFields DEF Agree, Gone
  <2>7. Begun' /\ Rested' /\ Serving' /\ Saving' /\ Kept' /\ Whole'
    BY <2>3, <2>6 DEF Begun, Rested, Unattended, Serving, Saving, Kept, Whole
  <2>8. Watching' /\ Starting' /\ Stilled'
    BY <2>3, <2>4, <2>6 DEF Watching, Starting, Stilled, Busy
  <2> QED BY <2>7, <2>8
<1> QED BY <1>1, <1>2, <1>3, <1>4

LEMMA CleanReserve ==
  ASSUME TypeOK, IdInv, CleanInv, rec.gen < MaxGens, NEW restores, Reserve(restores),
         UNCHANGED asks,
         \A g \in Gens : /\ src'[g].busy => src[g].busy
                         /\ src'[g].told = src[g].told /\ src'[g].quiet = src[g].quiet
  PROVE  CleanInv'
<1> USE DEF CleanInv
<1>1. /\ rec'.gen = rec.gen + 1 /\ rec'.phase \in {"restoring", "running"}
      /\ ~rec'.began /\ ~rec'.inFlight
  BY DEF Reserve, Blank
<1>2. /\ cp'.watch = cp.watch /\ cp'.watchOf = cp.watchOf /\ cp'.ckpt = cp.ckpt
  BY DEF Reserve, TypeOK, Memory
<1>3. rec.gen \in 0..MaxGens /\ rec'.gen \in Gens /\ rec'.gen > rec.gen
  BY <1>1, BoundsAssumption DEF TypeOK, Records, Gens
<1>4. ~Busy' /\ \A h \in Gens : h > rec'.gen => ~src'[h].busy
  BY <1>1, <1>3 DEF Busy, Starting, Gens
<1>5. Begun' /\ Rested' /\ Serving' /\ Saving' /\ Kept' /\ Whole'
  BY <1>1, <1>4 DEF Begun, Rested, Serving, Saving, Kept, Whole
<1>6. Watching'
  BY <1>1, <1>2, <1>3 DEF Watching
<1>7. Starting' /\ Stilled'
  BY <1>4 DEF Starting, Stilled
<1> QED BY <1>5, <1>6, <1>7

LEMMA CleanRestarts ==
  ASSUME TypeOK, IdInv, CleanInv, Spawn \/ DiscardEnds
  PROVE  CleanInv'
<1> USE DEF CleanInv
<1>0. rec.gen \in 0..MaxGens /\ (rec.gen # 0 => rec.gen \in Gens)
      /\ (rec.handle # 0 => rec.gen \in Gens)
  BY BoundsAssumption DEF TypeOK, Records, Gens, IdInv, Handles, Generation
<1>1. \A h : \A g \in Gens :
        /\ Stopped(h)[g].busy => src[g].busy
        /\ Stopped(h)[g].told = src[g].told /\ Stopped(h)[g].quiet = src[g].quiet
        /\ Stopped(h)[g].work = src[g].work
  BY StoppedOnlyEnds DEF TypeOK
<1>2. CASE Spawn
  <2>1. rec.gen < MaxGens /\ rec.phase # "draining" /\ UNCHANGED asks
    BY <1>2 DEF Spawn, Holding
  <2>2. CASE \E restores : Reserve(restores)
    <3>1. src' = src \/ src' = Stopped(row.handle)
      BY <1>2 DEF Spawn
    <3> QED BY <1>1, <2>1, <2>2, <3>1, CleanReserve
  <2>3. CASE /\ rec' = Failed([rec EXCEPT !.retired = @ \/ rec.phase = "saved"],
                              "unknown", FALSE)
             /\ UNCHANGED <<row, cp, due, processing, user, src>>
    <3>1. /\ rec'.gen = rec.gen /\ rec'.began = rec.began /\ rec'.paused = rec.paused
          /\ rec'.inFlight = rec.inFlight /\ rec'.phase = "unknown"
      BY <2>3 DEF Failed, TypeOK, Records
    <3> QED BY <2>1, <2>3, <3>1, CalmKeeps DEF Calm
  <2> QED BY <1>2, <2>2, <2>3 DEF Spawn
<1>3. CASE DiscardEnds
  <2>1. /\ cp'.watch = cp.watch /\ cp'.watchOf = cp.watchOf /\ cp'.ckpt = cp.ckpt
        /\ cp'.start = cp.start /\ UNCHANGED <<asks, processing>>
    BY <1>3 DEF DiscardEnds, TypeOK, Memory
  <2>2. \A g \in Gens : /\ src'[g].busy => src[g].busy
                        /\ src'[g].told = src[g].told /\ src'[g].quiet = src[g].quiet
                        /\ src'[g].work = src[g].work
    BY <1>1, <1>3 DEF DiscardEnds
  <2>3. CASE /\ rec' = [rec EXCEPT !.discarding = FALSE] /\ UNCHANGED <<row, user>>
    <3>1. /\ rec'.gen = rec.gen /\ rec'.began = rec.began /\ rec'.paused = rec.paused
          /\ rec'.inFlight = rec.inFlight /\ rec'.phase = rec.phase
          /\ rec'.after = rec.after /\ rec'.receipt = rec.receipt
      BY <2>3 DEF TypeOK, Records
    <3> QED BY <1>0, <2>1, <2>2, <2>3, <3>1, CalmKeeps DEF Calm
  <2>4. CASE /\ rec' = Blank("running", rec.gen, TRUE, NoReceipt)
             /\ row' = [row EXCEPT !.status = "stopped", !.handle = 0]
    <3>1. /\ rec'.gen = rec.gen /\ rec'.phase = "running" /\ ~rec'.began /\ ~rec'.inFlight
          /\ row'.status = "stopped"
      BY <2>4 DEF Blank, TypeOK, Rows
    <3>2. Busy' => Busy
      BY <1>0, <2>2, <3>1 DEF Busy
    <3>3. Begun' /\ Rested' /\ Serving' /\ Saving' /\ Kept' /\ Whole'
      BY <3>1 DEF Begun, Rested, Unattended, Serving, Saving, Kept, Whole, Gone
    <3>4. Watching' /\ Starting' /\ Stilled'
      BY <2>1, <2>2, <3>1, <3>2 DEF Watching, Starting, Stilled, Gone
    <3> QED BY <3>3, <3>4
  <2> QED BY <1>3, <2>3, <2>4 DEF DiscardEnds
<1> QED BY <1>2, <1>3

LEMMA CleanInductive == TypeOK /\ IdInv /\ ExInv /\ CleanInv /\ [Next]_vars => CleanInv'
<1> SUFFICES ASSUME TypeOK, IdInv, ExInv, CleanInv, [Next]_vars PROVE CleanInv'
  OBVIOUS
<1>1. CASE \/ UNCHANGED vars
           \/ RefusedExit \/ RuntimeReady \/ GenerationReady \/ BootFails
           \/ InvokeProvider \/ RecordFailure \/ ClearFailure
           \/ (\E g \in Gens : Work(g) \/ Quiesce(g) \/ ProviderCreates(g))
           \/ (\E d \in Deadlines : Passes(d))
  BY <1>1, CalmServing, CalmKeeps
<1>2. CASE \/ ProviderAnswers \/ StartFails \/ AdvanceCapturing \/ CaptureUnconfirmed
           \/ AdvanceRetiring \/ StopUnconfirmed \/ RecoverDiscard \/ Restart
  BY <1>2, CalmEnding, CalmKeeps
<1>3. CASE CheckpointSaved \/ CheckpointUnconfirmed \/ SettleRunning
  BY <1>3, CalmCheckpoint, CalmKeeps
<1>4. CASE Dispatch \/ Complete \/ HeartbeatStale \/ WatchdogEnds
  BY <1>4, CleanServing
<1>5. CASE \/ RequestShutdown \/ Emergency \/ AdvanceDraining \/ Prepared
           \/ AdvancePrepared \/ AutoRetry \/ RecoverRetry
  BY <1>5, CleanShutdown
<1>6. CASE CaptureSaved \/ StopConfirmed \/ RecoverPaused \/ RecoverSaved
  BY <1>6, CleanRetirement
<1>7. CASE Spawn \/ DiscardEnds
  BY <1>7, CleanRestarts
<1> QED BY <1>1, <1>2, <1>3, <1>4, <1>5, <1>6, <1>7 DEF Next

(***************************************************************************)
(* A session continues by itself only from an image of its last source     *)
(* that holds all the work the source ever did: a shutdown that            *)
(* interrupted a prompt, or whose capture did not wait for the source to   *)
(* rest, leaves the session paused for the user.                           *)
(***************************************************************************)
THEOREM ContinuesFromTheWholeWork == Spec => []CleanContinuation
<1>1. Init => CleanInv
  <2> SUFFICES ASSUME Init PROVE CleanInv
    OBVIOUS
  <2>1. rec.gen = 0 /\ rec.phase = "none" /\ ~rec.began
    BY DEF Init, Blank
  <2>2. cp.start = 0 /\ cp.watch = "idle"
    BY DEF Init, Idle
  <2>3. \A g \in Gens : ~src[g].busy /\ ~src[g].quiet
    BY DEF Init
  <2> QED BY <2>1, <2>2, <2>3
          DEF CleanInv, Begun, Rested, Unattended, Serving, Saving, Watching, Starting,
              Stilled, Kept, Whole, Busy
<1>2. CleanInv => CleanContinuation
  BY DEF CleanInv, Whole, CleanContinuation, CoversSource
<1> QED BY <1>1, <1>2, CleanInductive, ExHolds, IdHolds, TypeCorrect, PTL DEF Spec

-----------------------------------------------------------------------------
(***************************************************************************)
(* What one save holds of the one before.  A source begins with what was   *)
(* saved last and only adds to it, and a request that may still commit was *)
(* made after the last commit.                                             *)
(***************************************************************************)

\* Without a save there is nothing to restore.
NothingSaved == rec.receipt.gen = 0 => rec.receipt.work = 0

\* An execution the provider was asked for and created has the image.
Restored ==
  cp.asked /\ cp.start \notin creating => rec.receipt.work <= src[rec.gen].work

\* So has the source the record names.
Held == rec.handle # 0 => rec.receipt.work <= src[rec.gen].work

\* A request that may commit saw at least what is saved.
AskedSince ==
  \A a \in asks : a.kind = "shutdown" \/ rec.inFlight => rec.receipt.work <= a.low

\* A capture follows every checkpoint.
Settled == rec.phase \in {"prepared", "capturing"} => ~rec.inFlight

SaveInv == NothingSaved /\ Restored /\ Held /\ AskedSince /\ Settled

\* Most steps commit nothing and begin no source.
Retains ==
  /\ rec'.receipt = rec.receipt /\ rec'.gen = rec.gen
  /\ rec'.handle # 0 => rec.handle # 0
  /\ rec'.inFlight => rec.inFlight
  /\ rec'.phase \in {"prepared", "capturing"} => rec'.phase = rec.phase \/ ~rec'.inFlight
  /\ \A a \in asks' : a \in asks \/ rec.receipt.work <= a.low
  /\ cp'.asked /\ cp'.start \notin creating' => cp.asked /\ cp.start \notin creating
  /\ rec.gen # 0 => src[rec.gen].work <= src'[rec.gen].work

LEMMA WorkIsNat ==
  ASSUME TypeOK
  PROVE  /\ rec.receipt.work \in Nat /\ (rec.gen # 0 => rec.gen \in Gens)
         /\ \A g \in Gens : src[g].work \in Nat
         /\ \A a \in asks : a.low \in Nat
<1>1. rec.receipt.work \in 0..MaxWork /\ rec.gen \in 0..MaxGens
  BY DEF TypeOK, Records
<1>2. \A g \in Gens : src[g].work \in 0..MaxWork
  BY DEF TypeOK, Sources
<1>3. \A a \in asks : a.low \in 0..MaxWork
  BY DEF TypeOK, Requests
<1>4. 0..MaxWork \subseteq Nat /\ \A g \in 0..MaxGens : g # 0 => g \in Gens
  BY BoundsAssumption DEF Gens
<1> QED BY <1>1, <1>2, <1>3, <1>4

LEMMA RetainsKeeps ==
  ASSUME TypeOK, TypeOK', IdInv, SaveInv, Retains
  PROVE  SaveInv'
<1> USE DEF SaveInv, Retains
<1>1. rec.gen # 0 => /\ src[rec.gen].work \in Nat /\ src'[rec.gen].work \in Nat
                     /\ rec.receipt.work \in Nat
  <2>1. \A g \in Gens : src'[g].work \in 0..MaxWork
    BY DEF TypeOK, Sources
  <2> QED BY WorkIsNat, <2>1, BoundsAssumption
<1>2. rec.gen = 0 => rec.handle = 0 /\ ~cp.asked
  BY DEF IdInv, Generation
<1>3. NothingSaved' /\ Settled'
  BY DEF NothingSaved, Settled
<1>4. Restored' /\ Held'
  BY <1>1, <1>2 DEF Restored, Held
<1>5. AskedSince'
  BY DEF AskedSince
<1> QED BY <1>3, <1>4, <1>5

\* Steps of the runtime, of time and of the calls that end without a save.
LEMMA RetainsServing ==
  ASSUME TypeOK, IdInv,
         \/ UNCHANGED vars
         \/ Dispatch \/ RefusedExit \/ RuntimeReady \/ GenerationReady \/ BootFails
         \/ WatchdogEnds \/ InvokeProvider \/ RecordFailure \/ ClearFailure
         \/ (\E g \in Gens : Work(g) \/ Quiesce(g))
         \/ (\E d \in Deadlines : Passes(d))
  PROVE  Retains
<1> USE DEF Retains
<1>0. /\ rec.gen # 0 => rec.gen \in Gens
      /\ \A g \in Gens : src[g].work \in Nat /\ src[g].work <= src[g].work
      /\ rec.phase # "none" => rec.gen # 0
  BY WorkIsNat DEF IdInv, Generation
<1>1. \A h : \A g \in Gens : Stopped(h)[g].work = src[g].work
  BY StoppedOnlyEnds DEF TypeOK
<1>2. CASE UNCHANGED vars
  BY <1>0, <1>2 DEF vars
<1>3. CASE Dispatch
  BY <1>0, <1>3 DEF Dispatch, TypeOK, Sources
<1>4. CASE RefusedExit
  BY <1>0, <1>1, <1>4 DEF RefusedExit
<1>5. CASE RuntimeReady \/ GenerationReady \/ RecordFailure \/ ClearFailure
  BY <1>0, <1>5 DEF RuntimeReady, GenerationReady, RecordFailure, ClearFailure, TypeOK, Records
<1>6. CASE BootFails
  BY <1>0, <1>1, <1>6 DEF BootFails
<1>7. CASE WatchdogEnds
  <2>1. cp'.asked = cp.asked /\ cp'.start = cp.start
    BY <1>7 DEF WatchdogEnds, TypeOK, Memory
  <2> QED BY <1>0, <1>1, <1>7, <2>1 DEF WatchdogEnds
<1>8. CASE InvokeProvider
  <2>1. /\ rec'.receipt = rec.receipt /\ rec'.gen = rec.gen /\ rec'.handle = rec.handle
        /\ rec'.inFlight = rec.inFlight /\ rec'.phase = rec.phase
    BY <1>8 DEF InvokeProvider, TypeOK, Records
  <2>2. cp'.start \in creating'
    BY <1>8 DEF InvokeProvider, TypeOK, Memory
  <2>3. \A g \in Gens : src'[g].work = src[g].work
    BY <1>1, <1>8 DEF InvokeProvider
  <2> QED BY <1>0, <1>8, <2>1, <2>2, <2>3 DEF InvokeProvider
<1>9. CASE \E g \in Gens : Work(g)
  <2>1. PICK g \in Gens : /\ src' = [src EXCEPT ![g].work = @ + 1]
                          /\ UNCHANGED <<rec, cp, asks, creating>>
    BY <1>9 DEF Work
  <2>2. \A h \in Gens : src'[h].work \in {src[h].work, src[h].work + 1}
    BY <2>1 DEF TypeOK, Sources
  <2> QED BY <1>0, <2>1, <2>2
<1>10. CASE \E g \in Gens : Quiesce(g)
  BY <1>0, <1>10 DEF Quiesce, TypeOK, Sources
<1>11. CASE \E d \in Deadlines : Passes(d)
  BY <1>0, <1>1, <1>11 DEF Passes
<1> QED BY <1>2, <1>3, <1>4, <1>5, <1>6, <1>7, <1>8, <1>9, <1>10, <1>11

LEMMA RetainsEnding ==
  ASSUME TypeOK, IdInv,
         \/ StartFails \/ AdvanceCapturing \/ CaptureUnconfirmed \/ CheckpointUnconfirmed
         \/ AdvanceRetiring \/ StopConfirmed \/ StopUnconfirmed \/ SettleRunning
         \/ RecoverDiscard \/ RecoverPaused \/ RecoverSaved \/ Restart
  PROVE  Retains
<1> USE DEF Retains
<1>0. /\ rec.gen # 0 => rec.gen \in Gens
      /\ \A g \in Gens : src[g].work \in Nat /\ src[g].work <= src[g].work
  BY WorkIsNat
<1>1. \A h : \A g \in Gens : Stopped(h)[g].work = src[g].work
  BY StoppedOnlyEnds DEF TypeOK
<1>2. CASE StartFails
  <2>1. /\ rec'.receipt = rec.receipt /\ rec'.gen = rec.gen /\ rec'.handle = rec.handle
        /\ rec'.inFlight = rec.inFlight /\ rec'.phase \in {rec.phase, "unknown"}
    BY <1>2 DEF StartFails, Failed, TypeOK, Records
  <2>2. ~cp'.asked
    BY <1>2 DEF StartFails, TypeOK, Memory
  <2> QED BY <1>0, <1>2, <2>1, <2>2 DEF StartFails
<1>3. CASE AdvanceCapturing
  BY <1>0, <1>3 DEF AdvanceCapturing, Failed, TypeOK, Records
<1>4. CASE CaptureUnconfirmed
  <2>1. cp'.asked = cp.asked /\ cp'.start = cp.start
    BY <1>4 DEF CaptureUnconfirmed, TypeOK, Memory
  <2>2. /\ rec'.receipt = rec.receipt /\ rec'.gen = rec.gen /\ rec'.handle = rec.handle
        /\ rec'.inFlight = rec.inFlight /\ rec'.phase \in {rec.phase, "unknown"}
    BY <1>4 DEF CaptureUnconfirmed, Failed, TypeOK, Records
  <2>3. asks' \subseteq asks /\ UNCHANGED <<src, creating>>
    BY <1>4 DEF CaptureUnconfirmed
  <2> QED BY <1>0, <2>1, <2>2, <2>3
<1>5. CASE CheckpointUnconfirmed
  <2>1. cp'.asked = cp.asked /\ cp'.start = cp.start
    BY <1>5 DEF CheckpointUnconfirmed, Watched, TypeOK, Memory
  <2>2. /\ rec'.receipt = rec.receipt /\ rec'.gen = rec.gen /\ rec'.handle = rec.handle
        /\ (rec'.inFlight => rec.inFlight) /\ rec'.phase \in {rec.phase, "unknown"}
    BY <1>5 DEF CheckpointUnconfirmed, Released, Failed, TypeOK, Records
  <2>3. asks' \subseteq asks /\ UNCHANGED <<src, creating>>
    BY <1>5 DEF CheckpointUnconfirmed
  <2> QED BY <1>0, <2>1, <2>2, <2>3
<1>6. CASE AdvanceRetiring
  <2>1. /\ Agree(rec, rec') /\ rec'.inFlight = rec.inFlight
        /\ rec'.phase \in {rec.phase, "unknown"}
        /\ cp' \in {cp, [cp EXCEPT !.retire = rec.gen]}
    BY <1>6, RetireFields DEF AdvanceRetiring, TypeOK
  <2>2. cp'.asked = cp.asked /\ cp'.start = cp.start
    BY <2>1 DEF TypeOK, Memory
  <2>3. UNCHANGED <<src, asks, creating>>
    BY <1>6 DEF AdvanceRetiring
  <2> QED BY <1>0, <2>1, <2>2, <2>3 DEF Agree
<1>7. CASE StopConfirmed \/ StopUnconfirmed
  <2>1. cp'.asked = cp.asked /\ cp'.start = cp.start
    BY <1>7 DEF StopConfirmed, StopUnconfirmed, TypeOK, Memory
  <2>2. \A g \in Gens : src'[g].work = src[g].work
    BY <1>1, <1>7 DEF StopConfirmed, StopUnconfirmed
  <2>3. /\ rec'.receipt = rec.receipt /\ rec'.gen = rec.gen /\ rec'.handle = rec.handle
        /\ rec'.inFlight = rec.inFlight /\ rec'.phase \in {rec.phase, "saved", "unknown"}
    BY <1>7 DEF StopConfirmed, StopUnconfirmed, Finish, Failed, TypeOK, Records
  <2> QED BY <1>0, <1>7, <2>1, <2>2, <2>3 DEF StopConfirmed, StopUnconfirmed
<1>8. CASE SettleRunning
  <2>1. /\ rec.phase = "running" /\ rec.inFlight /\ UNCHANGED <<cp, src, asks, creating>>
    BY <1>8 DEF SettleRunning
  <2>2. /\ rec'.receipt = rec.receipt /\ rec'.gen = rec.gen /\ rec'.handle = rec.handle
        /\ rec'.phase \in {"running", "unknown"}
    <3>1. \/ rec' = Failed([rec EXCEPT !.after = "none"], "unknown", FALSE)
          \/ \E u : rec' = Failed([Released(rec) EXCEPT !.inFlight = u], "unknown", FALSE)
          \/ rec' = Released(rec) \/ rec' = [rec EXCEPT !.deferred = TRUE]
      BY <1>8 DEF SettleRunning
    <3>2. CASE rec' = Failed([rec EXCEPT !.after = "none"], "unknown", FALSE)
      BY <2>1, <3>2 DEF Failed, TypeOK, Records
    <3>3. CASE \E u : rec' = Failed([Released(rec) EXCEPT !.inFlight = u], "unknown", FALSE)
      <4>1. PICK u : rec' = Failed([Released(rec) EXCEPT !.inFlight = u], "unknown", FALSE)
        BY <3>3
      <4> QED BY <2>1, <4>1 DEF Failed, Released, TypeOK, Records
    <3>4. CASE rec' = Released(rec) \/ rec' = [rec EXCEPT !.deferred = TRUE]
      BY <2>1, <3>4 DEF Released, TypeOK, Records
    <3> QED BY <3>1, <3>2, <3>3, <3>4
  <2> QED BY <1>0, <2>1, <2>2
<1>9. CASE RecoverDiscard \/ RecoverPaused
  BY <1>0, <1>9 DEF RecoverDiscard, RecoverPaused, TypeOK, Records, Memory
<1>10. CASE RecoverSaved
  <2>1. /\ rec'.receipt = rec.receipt /\ rec'.gen = rec.gen /\ rec'.handle = rec.handle
        /\ rec'.inFlight = rec.inFlight /\ rec'.phase \in {"retiring", "saved"}
    BY <1>10 DEF RecoverSaved, Finish, TypeOK, Records
  <2>2. cp'.asked = cp.asked /\ cp'.start = cp.start
    BY <1>10 DEF RecoverSaved, TypeOK, Memory
  <2> QED BY <1>0, <1>10, <2>1, <2>2 DEF RecoverSaved
<1>11. CASE Restart
  <2>1. /\ rec'.receipt = rec.receipt /\ rec'.gen = rec.gen
        /\ rec'.inFlight = rec.inFlight /\ rec'.phase \in {rec.phase, "unknown"}
        /\ rec'.handle = rec.handle
    BY <1>11 DEF Restart, TypeOK, Records, IdInv, Handles
  <2> QED BY <1>0, <1>11, <2>1 DEF Restart, Idle
<1> QED BY <1>2, <1>3, <1>4, <1>5, <1>6, <1>7, <1>8, <1>9, <1>10, <1>11

\* A capture asks for what the source now holds.
LEMMA RetainsCapture ==
  ASSUME TypeOK, IdInv, SaveInv, NEW phases, phases \subseteq {"failed", "unknown", "draining", "prepared"},
         Captures(rec.handle, phases), rec'.receipt = rec.receipt, rec'.gen = rec.gen,
         rec'.handle = rec.handle, rec'.inFlight => rec.inFlight,
         rec'.phase \in {"prepared", "capturing"} => ~rec'.inFlight,
         UNCHANGED creating, \A g \in Gens : src'[g].work = src[g].work
  PROVE  Retains
<1> USE DEF Retains
<1>0. /\ rec.gen # 0 => rec.gen \in Gens
      /\ \A g \in Gens : src[g].work \in Nat /\ src[g].work <= src[g].work
  BY WorkIsNat
<1>1. cp'.asked = cp.asked /\ cp'.start = cp.start
  BY DEF Captures, TypeOK, Memory
<1>2. rec.handle # 0 => rec.receipt.work <= src[rec.handle].work
  BY DEF SaveInv, Held, IdInv, Handles
<1>3. \A a \in asks' : a \in asks \/ rec.receipt.work <= a.low
  BY <1>2 DEF Captures
<1> QED BY <1>0, <1>1, <1>3

LEMMA RetainsShutdown ==
  ASSUME TypeOK, IdInv, ExInv, SaveInv,
         \/ RequestShutdown \/ Emergency \/ AdvanceDraining \/ Prepared
         \/ AdvancePrepared \/ AutoRetry \/ RecoverRetry
  PROVE  Retains
<1>0. /\ rec.gen # 0 => rec.gen \in Gens
      /\ \A g \in Gens : src[g].work \in Nat /\ src[g].work <= src[g].work
      /\ rec.phase # "none" => rec.gen # 0
  BY WorkIsNat DEF IdInv, Generation
<1>1. CASE RequestShutdown
  <2>1. /\ rec'.receipt = rec.receipt /\ rec'.gen = rec.gen /\ rec'.handle = rec.handle
        /\ rec'.inFlight = rec.inFlight /\ rec'.phase = "draining"
    BY <1>1 DEF RequestShutdown, TypeOK, Records
  <2> QED BY <1>0, <1>1, <2>1 DEF RequestShutdown, Retains
<1>2. CASE Emergency
  <2>1. /\ ~rec.inFlight /\ (src[rec.gen].alive \/ row.status = "ready")
        /\ rec.phase \in {"running", "restoring"} /\ UNCHANGED <<src, creating>>
    BY <1>2 DEF Emergency
  <2>2. row.handle = rec.handle
    BY <1>0, <2>1 DEF IdInv, Handles, PriorHandle
  <2>3. Captures(rec.handle, {"unknown", "failed"})
    BY <1>2, <2>2, EmergencyFields
  <2> QED BY <1>2, <2>1, <2>2, <2>3, EmergencyFields, RetainsCapture DEF SameIdentity
<1>3. CASE AdvanceDraining
  <2>1. \A g \in Gens : src'[g].work = src[g].work
    BY <1>3, DrainingFields DEF TypeOK, Sources
  <2>2. rec'.phase \in {"prepared", "capturing"} => ~rec'.inFlight
    BY <1>3, DrainingFields
  <2>3. UNCHANGED creating
    BY <1>3 DEF AdvanceDraining
  <2> QED BY <1>3, <2>1, <2>2, <2>3, DrainingFields, RetainsCapture DEF SameIdentity
<1>4. CASE Prepared
  <2>1. rec.phase = "draining" /\ src[rec.gen].told /\ UNCHANGED <<src, creating>>
    BY <1>4 DEF Prepared
  <2>2. ~rec.inFlight
    BY <1>0, <2>1 DEF ExInv, Told
  <2> QED BY <1>4, <2>1, <2>2, PreparedFields, RetainsCapture DEF SameIdentity
<1>5. CASE AdvancePrepared \/ AutoRetry \/ RecoverRetry
  <2>1. /\ ~rec.inFlight /\ UNCHANGED <<src, creating>> /\ \E late : Capture(rec, late)
    BY <1>5 DEF AdvancePrepared, AutoRetry, RecoverRetry, RetryCapture, CanRetry,
                SaveInv, Settled
  <2>2. /\ Agree(rec, rec') /\ rec'.inFlight = rec.inFlight
        /\ Captures(rec.handle, {"failed"})
    BY <2>1, CaptureFields DEF Captures, Agree, TypeOK
  <2> QED BY <2>1, <2>2, RetainsCapture DEF Agree
<1> QED BY <1>1, <1>2, <1>3, <1>4, <1>5

\* A checkpoint asks for what the source now holds, with no other under way.
LEMMA SavesBegin ==
  ASSUME TypeOK, TypeOK', IdInv, ExInv, SaveInv, Complete \/ HeartbeatStale
  PROVE  SaveInv' /\ rec'.receipt = rec.receipt
<1> USE DEF SaveInv
<1>0. /\ rec.gen # 0 => rec.gen \in Gens
      /\ \A g \in Gens : src[g].work \in Nat /\ src[g].work <= src[g].work
      /\ rec.phase # "none" => rec.gen # 0
  BY WorkIsNat DEF IdInv, Generation
<1>1. /\ \A g \in Gens : src'[g].work = src[g].work
      /\ UNCHANGED creating
  <2>1. CASE Complete
    BY <1>0, <2>1 DEF Complete, TypeOK, Sources
  <2>2. CASE HeartbeatStale
    BY <2>2 DEF HeartbeatStale
  <2> QED BY <2>1, <2>2
<1>2. cp'.start = cp.start /\ cp'.asked = cp.asked
  BY DEF Complete, HeartbeatStale, TypeOK, Memory
<1>3. CASE UNCHANGED <<rec, asks>>
  BY <1>0, <1>1, <1>2, <1>3, RetainsKeeps DEF Retains
<1>4. CASE CheckpointAdmitted /\ \E after, status : BeginCheckpoint(after, status)
  <2>1. /\ rec.phase = "running" /\ rec.handle # 0 /\ ~rec.inFlight /\ cp.ckpt = 0
        /\ row.handle # 0
    BY <1>4 DEF CheckpointAdmitted, Admission
  <2>2. row.handle = rec.gen /\ rec.gen \in Gens
    BY <1>0, <2>1 DEF IdInv, Handles
  <2>3. asks = {}
    BY <2>1, <2>2 DEF ExInv, Calls, ShutdownAsks, RoutineAsks, OrdinaryAsks, TypeOK, Requests,
          Kinds, Gens
  <2>4. /\ rec'.gen = rec.gen /\ rec'.phase = "running" /\ rec'.handle = rec.handle
        /\ rec'.receipt = rec.receipt
    BY <1>4, <2>1 DEF BeginCheckpoint, TypeOK, Records
  <2>5. \A a \in asks' : a.low = src[rec.gen].work
    BY <1>4, <2>2, <2>3 DEF BeginCheckpoint
  <2>6. rec.receipt.work <= src[rec.gen].work
    BY <2>1 DEF Held
  <2> QED BY <1>1, <1>2, <2>1, <2>2, <2>4, <2>5, <2>6
          DEF NothingSaved, Restored, Held, AskedSince, Settled
<1> QED BY <1>3, <1>4 DEF Complete, HeartbeatStale

\* A commit holds at least what was saved when it was asked for, and leaves no
\* request behind that could undo it.
LEMMA SavesCommit ==
  ASSUME TypeOK, TypeOK', IdInv, ExInv, SaveInv, CheckpointSaved \/ CaptureSaved
  PROVE  SaveInv' /\ rec'.receipt.work >= rec.receipt.work
<1> USE DEF SaveInv
<1>0. /\ rec.gen # 0 => rec.gen \in Gens
      /\ \A g \in Gens : src[g].work \in Nat
      /\ \A a \in asks : a.low \in Nat /\ rec.receipt.work \in Nat
      /\ rec.receipt.work <= rec.receipt.work /\ rec.receipt.work \in Nat
      /\ rec.phase # "none" => rec.gen # 0
  BY WorkIsNat DEF IdInv, Generation
<1>1. UNCHANGED <<src, creating>>
  BY DEF CheckpointSaved, CaptureSaved
\* What the commit of a request that saw w or more leaves to show.
<1>2. ASSUME rec'.gen = rec.gen, rec'.handle = rec.handle, rec.handle # 0,
             cp'.asked = cp.asked, cp'.start = cp.start,
             rec'.receipt.gen # 0, NEW a \in asks,
             rec.receipt.work <= a.low,
             rec'.receipt.work \in a.low .. src[rec.gen].work,
             \A b \in asks' : b.kind # "shutdown" /\ ~rec'.inFlight,
             rec'.phase \in {"prepared", "capturing"} => ~rec'.inFlight
      PROVE  SaveInv' /\ rec'.receipt.work >= rec.receipt.work
  <2>1. cp.start = 0 /\ ~cp.asked /\ rec.gen \in Gens
    BY <1>0, <1>2 DEF IdInv, Handles, Generation
  <2>2. /\ rec'.receipt.work \in Nat /\ rec'.receipt.work >= rec.receipt.work
        /\ rec'.receipt.work <= src[rec.gen].work
    BY <1>0, <1>2, <2>1
  <2> QED BY <1>1, <1>2, <2>1, <2>2
          DEF NothingSaved, Restored, Held, AskedSince, Settled
<1>3. CASE CheckpointSaved
  <2>1. PICK a \in CheckpointAsk :
          /\ asks' = asks \ {a}
          /\ \E w \in a.low .. src[a.gen].work :
               rec' = IF OwnsCheckpoint
                      THEN [Released(rec) EXCEPT !.receipt =
                              [gen |-> a.gen, work |-> w, shutdown |-> FALSE]]
                      ELSE rec
          /\ cp' = [Watched(cp, rec'.phase # "running") EXCEPT !.ckpt = 0]
    BY <1>3 DEF CheckpointSaved
  <2>2. /\ a \in asks /\ a.kind # "shutdown" /\ a.gen = cp.ckpt
        /\ \A b \in asks' : b.kind = "shutdown"
    BY <2>1 DEF CheckpointAsk, ExInv, OrdinaryAsks
  <2>3. cp'.asked = cp.asked /\ cp'.start = cp.start
    BY <2>1 DEF Watched, TypeOK, Memory
  <2>4. CASE ~OwnsCheckpoint
    <3>1. rec' = rec /\ asks' \subseteq asks
      BY <2>1, <2>4
    <3> QED BY <1>0, <1>1, <2>3, <3>1, RetainsKeeps DEF Retains
  <2>5. CASE OwnsCheckpoint
    <3>1. PICK w \in a.low .. src[a.gen].work :
            rec' = [Released(rec) EXCEPT !.receipt =
                      [gen |-> a.gen, work |-> w, shutdown |-> FALSE]]
      BY <2>1, <2>5
    <3>2. /\ rec'.gen = rec.gen /\ rec'.handle = rec.handle /\ ~rec'.inFlight
          /\ rec'.phase = rec.phase /\ rec'.receipt.gen = a.gen /\ rec'.receipt.work = w
      BY <3>1 DEF Released, TypeOK, Records
    <3>3. a.gen = rec.gen /\ rec.inFlight /\ rec.phase # "capturing" /\ rec.phase # "none"
      BY <2>2, <2>5 DEF OwnsCheckpoint
    <3>4. rec.handle # 0 /\ rec.receipt.work <= a.low /\ rec.gen # 0
      BY <1>0, <2>2, <3>3 DEF IdInv, Handles, AskedSince
    <3>5. \A b \in asks' : b.kind # "shutdown"
      BY <2>1, <3>3 DEF ExInv, Calls, ShutdownAsks
    <3> QED BY <1>2, <2>2, <2>3, <3>1, <3>2, <3>3, <3>4, <3>5
  <2> QED BY <2>4, <2>5
<1>4. CASE CaptureSaved
  <2>1. cp'.asked = cp.asked /\ cp'.start = cp.start
    BY <1>4, CaptureSavedFields
  <2>2. rec.phase = "capturing" /\ cp.capture = rec.gen /\ OwnsCapture
    BY <1>4 DEF CaptureSaved, ExInv, Calls, OwnsCapture
  <2>3. PICK a \in CaptureAsk :
          /\ asks' = asks \ {a}
          /\ \E w \in a.low .. src[a.gen].work : \E c :
               Retire([rec EXCEPT !.phase = "retiring", !.receipt =
                         [gen |-> a.gen, work |-> w, shutdown |-> TRUE]], c)
          /\ a.gen = cp.capture
    BY <1>4, <2>2 DEF CaptureSaved
  <2>4. rec'.receipt.work \in a.low .. src[rec.gen].work /\ rec'.receipt.gen = rec.gen
    <3>1. PICK w \in a.low .. src[rec.gen].work : \E c :
            Retire([rec EXCEPT !.phase = "retiring", !.receipt =
                      [gen |-> a.gen, work |-> w, shutdown |-> TRUE]], c)
      BY <2>2, <2>3
    <3>2. rec'.receipt = [gen |-> a.gen, work |-> w, shutdown |-> TRUE]
      BY <3>1 DEF Retire, Failed, TypeOK, Records
    <3> QED BY <2>2, <2>3, <3>2
  <2>5. a \in asks /\ a.kind = "shutdown" /\ rec.receipt.work <= a.low
    BY <2>3 DEF CaptureAsk, AskedSince
  <2>6. ~rec.inFlight /\ rec.handle # 0 /\ rec.gen # 0
    BY <1>0, <2>2 DEF Settled, IdInv, Handles
  <2>7. \A b \in asks' : b.kind # "shutdown"
    BY <2>3, <2>5 DEF ExInv, ShutdownAsks
  <2>8. rec'.gen = rec.gen /\ rec'.handle = rec.handle /\ rec'.inFlight = rec.inFlight
    BY <1>4, CaptureSavedFields
  <2> QED BY <1>2, <2>1, <2>4, <2>5, <2>6, <2>7, <2>8
<1> QED BY <1>3, <1>4

\* A start goes on from what is saved.
LEMMA SavesStart ==
  ASSUME TypeOK, TypeOK', IdInv, ExInv, SaveInv,
         Spawn \/ ProviderAnswers \/ (\E g \in Gens : ProviderCreates(g)) \/ DiscardEnds
  PROVE  SaveInv' /\ (rec'.receipt = rec.receipt \/ rec'.receipt = NoReceipt)
<1> USE DEF SaveInv
<1>0. /\ rec.gen # 0 => rec.gen \in Gens
      /\ \A g \in Gens : src[g].work \in Nat /\ src[g].work <= src[g].work
      /\ rec.receipt.work \in Nat /\ rec.receipt.work <= rec.receipt.work
  BY WorkIsNat
<1>1. \A h : \A g \in Gens : Stopped(h)[g].work = src[g].work
  BY StoppedOnlyEnds DEF TypeOK
<1>2. CASE Spawn
  <2>1. CASE \E restores : Reserve(restores)
    <3>1. /\ rec'.handle = 0 /\ ~rec'.inFlight /\ rec'.receipt = rec.receipt
          /\ rec'.phase \in {"restoring", "running"}
      BY <2>1 DEF Reserve, Blank
    <3>2. ~cp'.asked
      BY <2>1 DEF Reserve, TypeOK, Memory
    <3>3. \A a \in asks' : a.kind # "shutdown"
      BY <1>2 DEF Spawn, RestoreDue, ExInv, Calls, ShutdownAsks
    <3> QED BY <3>1, <3>2, <3>3 DEF NothingSaved, Restored, Held, AskedSince, Settled
  <2>2. CASE /\ rec' = Failed([rec EXCEPT !.retired = @ \/ rec.phase = "saved"],
                              "unknown", FALSE)
             /\ UNCHANGED <<row, cp, due, processing, user, src>>
    <3>1. /\ rec'.receipt = rec.receipt /\ rec'.gen = rec.gen /\ rec'.handle = rec.handle
          /\ rec'.inFlight = rec.inFlight /\ rec'.phase = "unknown"
      BY <2>2 DEF Failed, TypeOK, Records
    <3>2. UNCHANGED <<asks, creating>>
      BY <1>2 DEF Spawn
    <3> QED BY <1>0, <2>2, <3>1, <3>2, RetainsKeeps DEF Retains
  <2> QED BY <1>2, <2>1, <2>2 DEF Spawn
<1>3. CASE ProviderAnswers
  <2>1. /\ cp.asked /\ cp.start \notin creating /\ cp.start = rec.gen /\ rec.gen \in Gens
        /\ rec.receipt.work <= src[rec.gen].work
    BY <1>0, <1>3 DEF ProviderAnswers, IdInv, Generation, Restored
  <2>2. /\ rec'.gen = rec.gen /\ rec'.receipt = rec.receipt
        /\ rec'.inFlight = rec.inFlight
        /\ rec'.phase \in {"prepared", "capturing"} => rec'.phase = rec.phase
    <3>1. \/ UNCHANGED rec
          \/ rec' = [rec EXCEPT !.phase = IF @ = "restoring" THEN "running" ELSE @,
                       !.invoked = FALSE, !.handle = cp.start, !.retired = FALSE]
      BY <1>3 DEF ProviderAnswers
    <3> QED BY <3>1 DEF TypeOK, Records
  <2>3. ~cp'.asked
    <3>1. cp' = [cp EXCEPT !.start = 0, !.asked = FALSE]
      BY <1>3 DEF ProviderAnswers
    <3> QED BY <3>1 DEF TypeOK, Memory
  <2>4. \A g \in Gens : src'[g].work = src[g].work
    BY <1>1, <1>3 DEF ProviderAnswers
  <2>5. UNCHANGED asks
    BY <1>3 DEF ProviderAnswers
  <2> QED BY <2>1, <2>2, <2>3, <2>4, <2>5
          DEF NothingSaved, Restored, Held, AskedSince, Settled
<1>4. CASE \E g \in Gens : ProviderCreates(g)
  <2>1. PICK g \in Gens :
          /\ g \in creating /\ UNCHANGED <<rec, cp, asks>> /\ creating' = creating \ {g}
          /\ src' = [src EXCEPT ![g].alive = TRUE,
                       ![g].work = IF rec.receipt.gen # 0 THEN rec.receipt.work ELSE 0]
    BY <1>4 DEF ProviderCreates
  <2>2. \A h \in Gens : src'[h].work = IF h = g THEN rec.receipt.work ELSE src[h].work
    BY <2>1 DEF NothingSaved, TypeOK, Sources
  <2>3. cp.asked => cp.start = rec.gen /\ rec.gen \in Gens
    BY <1>0 DEF IdInv, Generation
  <2>4. rec.handle # 0 => rec.gen \in Gens /\ g # rec.gen
    BY <1>0, <2>1 DEF IdInv, Generation, Handles
  <2>5. Held'
    BY <1>0, <2>1, <2>2, <2>4 DEF Held
  <2>6. Restored'
    <3> SUFFICES ASSUME cp.asked, rec.gen \in Gens, cp.start = rec.gen,
                        rec.gen \notin creating \ {g}
                 PROVE  rec.receipt.work <= src'[rec.gen].work
      BY <2>1, <2>3 DEF Restored
    <3>1. CASE rec.gen = g
      <4>1. src'[rec.gen].work = rec.receipt.work
        BY <2>2, <3>1
      <4> QED BY <1>0, <4>1
    <3>2. CASE rec.gen # g
      <4>1. src'[rec.gen].work = src[rec.gen].work
        BY <2>2, <3>2
      <4>2. rec.receipt.work <= src[rec.gen].work
        BY <3>2 DEF Restored
      <4> QED BY <4>1, <4>2
    <3> QED BY <3>1, <3>2
  <2> QED BY <2>1, <2>5, <2>6 DEF NothingSaved, AskedSince, Settled
<1>5. CASE DiscardEnds
  <2>1. /\ cp'.asked = cp.asked /\ cp'.start = cp.start /\ UNCHANGED <<asks, creating>>
        /\ rec.phase \in {"failed", "unknown"}
    BY <1>5 DEF DiscardEnds, TypeOK, Memory, ExInv, Calls
  <2>2. \A g \in Gens : src'[g].work = src[g].work
    BY <1>1, <1>5 DEF DiscardEnds
  <2>3. CASE rec' = [rec EXCEPT !.discarding = FALSE]
    <3>1. /\ rec'.receipt = rec.receipt /\ rec'.gen = rec.gen /\ rec'.handle = rec.handle
          /\ rec'.inFlight = rec.inFlight /\ rec'.phase = rec.phase
      BY <2>3 DEF TypeOK, Records
    <3> QED BY <1>0, <2>1, <2>2, <3>1, RetainsKeeps DEF Retains
  <2>4. CASE rec' = Blank("running", rec.gen, TRUE, NoReceipt)
    <3>1. /\ rec'.receipt = NoReceipt /\ rec'.handle = 0 /\ ~rec'.inFlight
          /\ rec'.gen = rec.gen /\ rec'.phase = "running" /\ rec'.receipt.work = 0
      BY <2>4 DEF Blank, NoReceipt
    <3>2. \A a \in asks' : a.kind # "shutdown"
      BY <2>1 DEF ExInv, Calls, ShutdownAsks
    <3>3. Restored'
      <4>1. cp.asked => rec.gen \in Gens
        BY <1>0 DEF IdInv, Generation
      <4> QED BY <1>0, <2>1, <2>2, <3>1, <4>1 DEF Restored
    <3> QED BY <3>1, <3>2, <3>3 DEF NothingSaved, Held, AskedSince, Settled
  <2> QED BY <1>5, <2>3, <2>4 DEF DiscardEnds
<1> QED BY <1>2, <1>3, <1>4, <1>5

LEMMA SaveInductive ==
  ASSUME TypeOK, TypeOK', IdInv, ExInv, SaveInv, [Next]_vars
  PROVE  SaveInv' /\ (rec'.receipt.gen # 0 => rec'.receipt.work >= rec.receipt.work)
<1>0. rec.receipt.work >= rec.receipt.work
  BY WorkIsNat
<1>1. Retains => SaveInv' /\ rec'.receipt.work >= rec.receipt.work
  BY <1>0, RetainsKeeps DEF Retains
<1>2. CASE \/ UNCHANGED vars
           \/ Dispatch \/ RefusedExit \/ RuntimeReady \/ GenerationReady \/ BootFails
           \/ WatchdogEnds \/ InvokeProvider \/ RecordFailure \/ ClearFailure
           \/ (\E g \in Gens : Work(g) \/ Quiesce(g))
           \/ (\E d \in Deadlines : Passes(d))
  BY <1>1, <1>2, RetainsServing
<1>3. CASE \/ StartFails \/ AdvanceCapturing \/ CaptureUnconfirmed \/ CheckpointUnconfirmed
           \/ AdvanceRetiring \/ StopConfirmed \/ StopUnconfirmed \/ SettleRunning
           \/ RecoverDiscard \/ RecoverPaused \/ RecoverSaved \/ Restart
  BY <1>1, <1>3, RetainsEnding
<1>4. CASE \/ RequestShutdown \/ Emergency \/ AdvanceDraining \/ Prepared
           \/ AdvancePrepared \/ AutoRetry \/ RecoverRetry
  BY <1>1, <1>4, RetainsShutdown
<1>5. CASE Complete \/ HeartbeatStale
  BY <1>0, <1>5, SavesBegin
<1>6. CASE CheckpointSaved \/ CaptureSaved
  BY <1>6, SavesCommit
<1>7. CASE Spawn \/ ProviderAnswers \/ (\E g \in Gens : ProviderCreates(g)) \/ DiscardEnds
  BY <1>0, <1>7, SavesStart DEF NoReceipt
<1> QED BY <1>2, <1>3, <1>4, <1>5, <1>6, <1>7 DEF Next

(***************************************************************************)
(* Whatever replaces a save holds at least as much: late answers, retries, *)
(* restarts and restores never take the session's workspace back.          *)
(***************************************************************************)
THEOREM SavesAccumulate == Spec => SavesNeverGoBack
<1>1. Init => SaveInv
  <2> SUFFICES ASSUME Init PROVE SaveInv
    OBVIOUS
  <2>1. /\ rec.receipt.work = 0 /\ rec.handle = 0 /\ ~rec.inFlight
        /\ rec.phase = "none"
    BY DEF Init, Blank, NoReceipt
  <2>2. ~cp.asked /\ asks = {}
    BY DEF Init, Idle
  <2> QED BY <2>1, <2>2 DEF SaveInv, NothingSaved, Restored, Held, AskedSince, Settled
<1>2. /\ TypeOK /\ TypeOK' /\ IdInv /\ ExInv /\ SaveInv /\ [Next]_vars => SaveInv'
  BY SaveInductive
<1>3. TypeOK /\ TypeOK' /\ IdInv /\ ExInv /\ SaveInv /\ [Next]_vars =>
        [rec'.receipt.gen # 0 => rec'.receipt.work >= rec.receipt.work]_vars
  BY SaveInductive
<1> QED BY <1>1, <1>2, <1>3, TypeCorrect, IdHolds, ExHolds, PTL DEF Spec, SavesNeverGoBack
=============================================================================
