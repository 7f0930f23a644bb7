--------------------------- MODULE SandboxShutdown ---------------------------
(***************************************************************************)
(* The durable checkpoint-and-shutdown protocol of one session's sandbox:  *)
(* session/sandbox-shutdown.ts and checkpoint-settlement.ts, with the      *)
(* callers in sandbox/lifecycle that drive them.  The provider snapshots   *)
(* without stopping or altering its source and can stop a source on        *)
(* request (modal-provider.ts), and every generation runs under the        *)
(* confirmed lifecycle policy.                                             *)
(*                                                                         *)
(* A generation is a number and creates at most one source, which carries  *)
(* its number.  `rec` and `row` are the durable shutdown record and        *)
(* sandbox row; `cp` is what the control-plane instance holds in memory    *)
(* and a restart loses; `src`, `asks` and `creating` belong to the         *)
(* provider; `due` holds the deadlines that have passed.                   *)
(***************************************************************************)
EXTENDS Naturals

CONSTANTS
  MaxGens,      \* sandbox generations of the session
  MaxWork,      \* units of work a source can hold beyond an empty one
  MaxCrashes    \* control-plane restarts

ASSUME BoundsAssumption ==
  MaxGens \in Nat \ {0} /\ MaxWork \in Nat /\ MaxCrashes \in Nat

VARIABLES
  rec,          \* ShutdownRecord
  row,          \* the sandbox row: status, provider handle, fence
  cp,           \* in-memory fields of the coordinator and the manager
  src,          \* per generation: the provider's execution
  asks,         \* provider snapshot requests that may still be running; one whose
                \* answer nobody awaits is kept only for a routine checkpoint
  creating,     \* generations the provider was asked to create
  due,          \* deadlines that have passed, while something may read them
  processing,   \* a prompt is dispatched; another always waits
  user,         \* ghosts: interrupted by a shutdown; explicit recovery chosen
  crashes       \* restarts so far

vars == <<rec, row, cp, src, asks, creating, due, processing, user, crashes>>

Gens == 1..MaxGens
Phases == {"none", "running", "restoring", "draining", "prepared", "capturing",
           "retiring", "saved", "failed", "unknown"}
ShuttingDown == {"draining", "prepared", "capturing", "retiring"}
Deadlines == {"near", "drain", "stop", "capture", "retire", "window",
              "settle", "expiry"}
Kinds == {"continue", "stop", "shutdown"}

NoReceipt == [gen |-> 0, work |-> 0, shutdown |-> FALSE]

\* A record as reserveStartup and completeDiscard write it: every optional
\* field of ShutdownRecord undefined.
Blank(phase, gen, retired, receipt) ==
  [phase |-> phase, gen |-> gen, handle |-> 0, retired |-> retired,
   receipt |-> receipt, invoked |-> FALSE, rtReady |-> FALSE,
   genReady |-> FALSE, inFlight |-> FALSE, after |-> "none",
   uncertain |-> FALSE, deferred |-> FALSE, paused |-> FALSE,
   failure |-> FALSE, capFail |-> FALSE, began |-> FALSE,
   discarding |-> FALSE]

Idle == [capture |-> 0, ckpt |-> 0, retire |-> 0, discard |-> FALSE,
         start |-> 0, asked |-> FALSE, restores |-> FALSE, active |-> 0,
         watch |-> "idle", watchOf |-> 0]

Init ==
  /\ rec = Blank("none", 0, FALSE, NoReceipt)
  /\ row = [status |-> "stopped", handle |-> 0, fenced |-> FALSE]
  /\ cp = Idle
  /\ src = [g \in Gens |->
              [alive |-> FALSE, work |-> 0, busy |-> FALSE, told |-> FALSE,
               quiet |-> FALSE]]
  /\ asks = {}
  /\ creating = {}
  /\ due = {}
  /\ processing = FALSE
  /\ user = [interrupted |-> FALSE, chose |-> FALSE]
  /\ crashes = 0

-----------------------------------------------------------------------------
(* What the record says, as the code's predicates read it. *)

Due(d) == d \in due
Dead == row.status \in {"stopped", "stale", "failed"}

\* A routine checkpoint neither stops nor alters its source.
Settles(r) == r.after = "continue"

Recovering == rec.invoked \/ rec.phase = "restoring"

Holding ==
  /\ ~(rec.phase = "restoring" /\ (~rec.invoked \/ cp.active = rec.gen))
  /\ \/ rec.inFlight
     \/ rec.phase = "saved" /\ rec.paused
     \/ rec.phase \notin {"none", "running", "saved"}

Admission ==
  IF rec.phase = "none" THEN "unmanaged"
  ELSE IF (rec.phase = "saved" /\ ~rec.paused) \/ (rec.phase = "restoring" /\ ~rec.invoked)
       THEN "restore_required"
  ELSE IF rec.phase # "running" \/ rec.invoked \/ rec.failure THEN "held"
  ELSE IF ~rec.rtReady /\ Dead THEN "spawn_required"
  ELSE IF rec.genReady /\ rec.handle # 0 /\ ~rec.inFlight /\ ~Due("drain") THEN "ready"
  ELSE "held"

\* startupDecision: the start restores the receipt, follows the row, or waits.
RestoreDue ==
  /\ rec.receipt.gen # 0
  /\ \/ rec.phase = "saved" /\ ~rec.paused
     \/ rec.phase = "restoring" /\ ~rec.invoked

CoversSource(r) == r.receipt.gen = r.gen

CanRetry ==
  /\ ~rec.discarding /\ ~rec.invoked /\ ~rec.inFlight /\ ~rec.retired
  /\ rec.handle # 0
  /\ ~CoversSource(rec) \/ ~rec.receipt.shutdown
  /\ rec.began /\ ~Due("window") /\ ~Due("expiry")

\* No checkpoint of this instance, and none a restart may have left running.
NoLiveCheckpoint == cp.ckpt = 0 /\ ~(rec.inFlight /\ Settles(rec))

CanRestoreSaved ==
  /\ NoLiveCheckpoint
  /\ rec.receipt.gen # 0
  /\ rec.phase = "saved" \/ rec.retired \/ Due("expiry") \/ rec.handle # 0

-----------------------------------------------------------------------------
(* Shared effects. *)

Failed(r, phase, capFail) == [r EXCEPT !.phase = phase, !.capFail = capFail]

Stopped(g) == IF g = 0 THEN src
              ELSE [src EXCEPT ![g].alive = FALSE, ![g].busy = FALSE]

\* capture(): refuse without a handle or time, else publish and ask the provider.
Capture(r, late) ==
  IF r.handle = 0 \/ late
  THEN /\ rec' = Failed(r, "failed", TRUE)
       /\ cp' = cp
       /\ asks' = asks
  ELSE /\ rec' = [r EXCEPT !.phase = "capturing"]
       /\ cp' = [cp EXCEPT !.capture = r.gen]
       /\ asks' = asks \cup
            {[gen |-> r.handle, kind |-> "shutdown", low |-> src[r.handle].work]}

\* fenceRuntime: a capture without the runtime first cuts it off from new work.
Fenced == [row EXCEPT !.status = IF Dead THEN row.status ELSE "stale"]

\* retire(): ask the provider to stop the source, unless its time has passed.
Retire(r, c) ==
  IF Due("retire")
  THEN rec' = Failed(r, "unknown", FALSE) /\ cp' = c
  ELSE rec' = r /\ cp' = [c EXCEPT !.retire = r.gen]

Finish(r) ==
  /\ rec' = [r EXCEPT !.phase = "saved", !.retired = TRUE]
  /\ row' = [row EXCEPT !.status = "stopped"]

-----------------------------------------------------------------------------
(* The queue and the runtime. *)

\* Mutant: the admission read before the claim of a shutdown is still used.
DispatchOnOldAdmission ==
  /\ ~processing
  /\ cp.start = 0
  /\ Admission = "ready" \/ rec.phase = "draining"
  /\ row.status = "ready" /\ src[rec.gen].alive
  /\ processing' = TRUE
  /\ src' = [src EXCEPT ![rec.gen].busy = TRUE]
  /\ UNCHANGED <<rec, row, cp, asks, creating, due, user, crashes>>

\* The queue hands a prompt to a ready runtime under a ready admission.
Dispatch ==
  /\ ~processing
  /\ cp.start = 0 /\ Admission = "ready"
  /\ row.status = "ready" /\ src[rec.gen].alive
  /\ processing' = TRUE
  /\ src' = [src EXCEPT ![rec.gen].busy = TRUE]
  /\ UNCHANGED <<rec, row, cp, asks, creating, due, user, crashes>>

Work(g) ==
  /\ src[g].alive /\ src[g].busy /\ src[g].work < MaxWork
  /\ src' = [src EXCEPT ![g].work = @ + 1]
  /\ UNCHANGED <<rec, row, cp, asks, creating, due, processing, user, crashes>>

\* The runtime stops its execution for prepare_preservation.
Quiesce(g) ==
  /\ src[g].alive /\ src[g].told /\ ~src[g].quiet
  /\ src' = [src EXCEPT ![g].busy = FALSE, ![g].quiet = TRUE]
  /\ UNCHANGED <<rec, row, cp, asks, creating, due, processing, user, crashes>>

\* A runtime refused at reconnect is told to exit unless a save needs it.
RefusedExit ==
  /\ rec.phase # "none" /\ src[rec.gen].alive /\ Dead
  /\ rec.phase \notin {"draining", "prepared", "capturing"}
  /\ ~(rec.inFlight /\ cp.ckpt = rec.gen)
  /\ ~(rec.phase \in {"failed", "unknown"} /\ CanRetry)
  /\ src' = Stopped(rec.gen)
  /\ UNCHANGED <<rec, row, cp, asks, creating, due, processing, user, crashes>>

-----------------------------------------------------------------------------
(* Starting a generation. *)

\* reserveStartup: the row's new identity, the record, and the failure of the
\* prompt the replaced sandbox was running, in one transaction.
Reserve(restores) ==
  LET restoring == /\ rec.receipt.gen # 0
                   /\ rec.phase = "saved" \/ (rec.phase = "restoring" /\ ~rec.invoked)
      g == rec.gen + 1
  IN  /\ rec' = Blank(IF restoring THEN "restoring" ELSE "running", g,
                      rec.retired \/ rec.phase = "saved", rec.receipt)
      /\ row' = [row EXCEPT !.status = "starting", !.fenced = FALSE]
      /\ cp' = [cp EXCEPT !.start = g, !.asked = FALSE, !.restores = restores,
                          !.active = IF restoring THEN g ELSE 0]
      /\ due' = {}
      /\ processing' = FALSE
      /\ user' = [user EXCEPT !.chose = FALSE]

\* spawnSandbox: a hold waits; a saved record restores its receipt; otherwise a
\* dead row restores its image if it has one, else starts fresh.
Spawn ==
  /\ cp.start = 0 /\ rec.gen < MaxGens
  /\ ~Holding
  /\ RestoreDue \/ (rec.phase \in {"none", "running"} /\ Dead)
  /\ IF row.fenced /\ row.handle # 0
     THEN \E stopped \in BOOLEAN :   \* a fenced allocation must be confirmed stopped
            IF stopped
            THEN /\ Reserve(rec.receipt.gen # 0)
                 /\ src' = Stopped(row.handle)
            ELSE /\ rec.receipt.gen # 0
                 /\ rec' = Failed([rec EXCEPT !.retired = @ \/ rec.phase = "saved"],
                                  "unknown", FALSE)
                 /\ UNCHANGED <<row, cp, due, processing, user, src>>
     ELSE Reserve(rec.receipt.gen # 0) /\ UNCHANGED src
  /\ UNCHANGED <<asks, creating, crashes>>

\* stopPriorProviderSandbox forgets the prior handle whether or not its stop
\* succeeded; then a restore records that the provider is about to be invoked.
InvokeProvider ==
  /\ cp.start # 0 /\ ~cp.asked
  /\ \E stopped \in BOOLEAN :
       src' = IF stopped THEN Stopped(row.handle) ELSE src
  /\ row' = [row EXCEPT !.handle = 0]
  /\ rec' = IF cp.restores THEN [rec EXCEPT !.invoked = TRUE] ELSE rec
  /\ cp' = [cp EXCEPT !.asked = TRUE,
                      !.active = IF cp.restores THEN cp.start ELSE @]
  /\ creating' = creating \cup {cp.start}
  /\ UNCHANGED <<asks, due, processing, user, crashes>>

\* Mutant: the replacement of a saved source starts without its image.
ProviderCreatesEmpty(g) ==
  /\ g \in creating
  /\ creating' = creating \ {g}
  /\ src' = [src EXCEPT ![g].alive = TRUE, ![g].work = 0]
  /\ UNCHANGED <<rec, row, cp, asks, due, processing, user, crashes>>

\* The provider creates the execution; a restart of the caller does not stop it.
ProviderCreates(g) ==
  /\ g \in creating
  /\ creating' = creating \ {g}
  /\ src' = [src EXCEPT ![g].alive = TRUE,
               ![g].work = IF rec.receipt.gen # 0 THEN rec.receipt.work ELSE 0]
  /\ UNCHANGED <<rec, row, cp, asks, due, processing, user, crashes>>

\* claimProviderStartup and recordProviderStartup.  A held generation keeps its
\* late result; a row that is no longer starting has it destroyed.
ProviderAnswers ==
  /\ cp.asked /\ cp.start \notin creating
  /\ cp' = [cp EXCEPT !.start = 0, !.asked = FALSE]
  /\ IF Holding
     THEN UNCHANGED <<rec, row, src>>
     ELSE IF row.status \in {"starting", "ready"} /\ ~row.fenced
     THEN /\ row' = [row EXCEPT !.handle = cp.start]
          /\ rec' = [rec EXCEPT
                !.phase = IF @ = "restoring" THEN "running" ELSE @,
                !.invoked = FALSE, !.handle = cp.start, !.retired = FALSE]
          /\ UNCHANGED src
     ELSE /\ \E stopped \in BOOLEAN :
               src' = IF stopped THEN Stopped(cp.start) ELSE src
          /\ UNCHANGED <<rec, row>>
  /\ UNCHANGED <<asks, creating, due, processing, user, crashes>>

\* The start throws: before the provider is asked, or with an answer that may
\* hide a created execution.  failAttempt leaves the row alone if that execution
\* has connected; holdFailedRecovery holds a restore.
StartFails ==
  /\ cp.start # 0
  /\ cp' = [cp EXCEPT !.start = 0, !.asked = FALSE]
  /\ row' \in {[row EXCEPT !.status = IF @ = "starting" THEN "failed" ELSE @]}
               \cup (IF src[cp.start].alive THEN {row} ELSE {})
  /\ rec' = IF cp.restores /\ rec.receipt.gen # 0
            THEN Failed([rec EXCEPT !.retired = @ \/ rec.phase = "saved"],
                        "unknown", FALSE)
            ELSE rec
  /\ creating' \in {creating, creating \ {cp.start}}
  /\ UNCHANGED <<src, asks, due, processing, user, crashes>>

\* onRuntimeReady of the current generation's runtime.
RuntimeReady ==
  /\ rec.phase # "none" /\ src[rec.gen].alive /\ ~rec.rtReady
  /\ rec' = [rec EXCEPT !.rtReady = TRUE]
  /\ row' = [row EXCEPT !.status =
               IF ~Holding /\ ~row.fenced /\ @ \notin {"stopped", "stale"}
               THEN "ready" ELSE @]
  /\ UNCHANGED <<cp, src, asks, creating, due, processing, user, crashes>>

GenerationReady ==
  /\ rec.phase # "none" /\ src[rec.gen].alive /\ rec.rtReady /\ ~rec.genReady
  /\ rec' = [rec EXCEPT !.genReady = TRUE]
  /\ UNCHANGED <<row, cp, src, asks, creating, due, processing, user, crashes>>

\* The connect watchdog fails, fences and stops a boot; a silent or a fatally
\* failed boot is stopped without a fence.
BootFails ==
  /\ rec.phase = "running" /\ ~Holding /\ row.status = "starting"
  /\ row' \in {[row EXCEPT !.status = "failed", !.fenced = TRUE],
              [row EXCEPT !.status = "failed"], [row EXCEPT !.status = "stale"]}
  /\ \E stopped \in BOOLEAN :
       src' = IF stopped THEN Stopped(row.handle) ELSE src
  /\ UNCHANGED <<rec, cp, asks, creating, due, processing, user, crashes>>

-----------------------------------------------------------------------------
(* Ordinary checkpoints. *)

\* captureCheckpoint admits a capture only with time for it before the drain.
CheckpointAdmitted ==
  /\ ~Holding /\ cp.ckpt = 0 /\ Admission = "ready" /\ ~Due("near")
  /\ row.handle # 0

BeginCheckpoint(after, status) ==
  /\ rec' = [rec EXCEPT !.inFlight = TRUE, !.after = after,
                        !.uncertain = FALSE, !.deferred = FALSE]
  /\ row' = [row EXCEPT !.status = status]
  /\ asks' = asks \cup
       {[gen |-> row.handle, kind |-> after, low |-> src[row.handle].work]}
  /\ due' = due \ {"settle"}

\* execution_complete: the prompt settles, and the turn's checkpoint, after which
\* the execution keeps serving, is taken if it is admitted.
Complete ==
  /\ rec.phase # "none" /\ src[rec.gen].alive /\ src[rec.gen].busy
  /\ processing' = FALSE
  /\ src' = [src EXCEPT ![rec.gen].busy = FALSE]
  /\ IF CheckpointAdmitted /\ row.status # "snapshotting"
     THEN /\ BeginCheckpoint("continue", IF Dead THEN row.status ELSE "snapshotting")
          /\ cp' = [cp EXCEPT !.ckpt = rec.gen]
     ELSE UNCHANGED <<rec, row, cp, asks, due>>
  /\ UNCHANGED <<creating, user, crashes>>

\* terminateStaleHeartbeat of a serving runtime: fence it, take a checkpoint,
\* and stop the source unless the record now holds it.
HeartbeatStale ==
  /\ rec.phase = "running" /\ ~Holding /\ ~Due("drain") /\ row.status = "ready"
  /\ cp.watch = "idle"
  /\ IF CheckpointAdmitted
     THEN /\ BeginCheckpoint("stop", "stale")
          /\ cp' = [cp EXCEPT !.ckpt = rec.gen, !.watch = "saving",
                              !.watchOf = row.handle]
     ELSE /\ row' = [row EXCEPT !.status = "stale"]
          /\ cp' = [cp EXCEPT !.watch = "stopping", !.watchOf = row.handle]
          /\ UNCHANGED <<rec, asks, due>>
  /\ UNCHANGED <<src, creating, processing, user, crashes>>

\* After the watchdog's checkpoint: a hold keeps the source, otherwise stop it.
Watched(c, holding) ==
  IF c.watch = "saving"
  THEN [c EXCEPT !.watch = IF holding THEN "lost" ELSE "stopping"]
  ELSE c

OwnsCheckpoint ==
  /\ rec.gen = cp.ckpt /\ rec.inFlight /\ rec.after # "none"
  /\ ~rec.discarding /\ ~rec.invoked
  /\ rec.phase \in {"running", "draining", "failed", "unknown"}

Released(r) == [r EXCEPT !.inFlight = FALSE, !.after = "none",
                         !.uncertain = FALSE, !.deferred = FALSE]

CheckpointAsk == {a \in asks : a.kind # "shutdown" /\ a.gen = cp.ckpt}

\* The provider confirms the image: receipt and image commit together for the
\* generation and operation that took it.
CheckpointSaved ==
  /\ cp.ckpt # 0 /\ ~Due("settle")
  /\ \E a \in CheckpointAsk :
       /\ src[a.gen].alive
       /\ asks' = asks \ {a}
       /\ \E w \in a.low .. src[a.gen].work :
            rec' = IF OwnsCheckpoint
                   THEN [Released(rec) EXCEPT !.receipt =
                           [gen |-> a.gen, work |-> w, shutdown |-> FALSE]]
                   ELSE rec
       /\ row' = IF OwnsCheckpoint /\ a.kind = "continue" /\ row.status = "snapshotting"
                 THEN [row EXCEPT !.status = "ready"] ELSE row
       /\ cp' = [Watched(cp, rec'.phase # "running") EXCEPT !.ckpt = 0]
  /\ UNCHANGED <<src, creating, due, processing, user, crashes>>

\* An error or the deadline.  A routine operation keeps its exclusion until the
\* settle time; any other is held for the user.
CheckpointUnconfirmed ==
  /\ cp.ckpt # 0
  /\ rec' = IF ~OwnsCheckpoint THEN rec
            ELSE IF Settles(rec) THEN [rec EXCEPT !.uncertain = TRUE]
            ELSE Failed(Released(rec), "unknown", FALSE)
  /\ asks' \in {asks \ CheckpointAsk, asks \ {a \in CheckpointAsk : a.kind = "stop"}}
  /\ cp' = [Watched(cp, TRUE) EXCEPT !.ckpt = 0]
  /\ UNCHANGED <<row, src, creating, due, processing, user, crashes>>

\* The watchdog's own stop of the source it observed, and the prompt it fails
\* while that source's generation is still the session's.
WatchdogEnds ==
  /\ cp.watch \in {"stopping", "lost"}
  /\ cp' = [cp EXCEPT !.watch = "idle", !.watchOf = 0]
  /\ \E stopped \in BOOLEAN :
       src' = IF cp.watch = "stopping" /\ stopped THEN Stopped(cp.watchOf) ELSE src
  /\ processing' = (processing /\ cp.watchOf # rec.gen)
  /\ UNCHANGED <<rec, row, asks, creating, due, user, crashes>>

-----------------------------------------------------------------------------
(* Shutting down. *)

\* Mutant: the interrupted prompt is not recorded as a pause.
InterruptUnpaused(paused) ==
  /\ processing' = FALSE
  /\ user' = [user EXCEPT !.interrupted = @ \/ processing]
  /\ paused = rec.paused

\* The processing prompt fails as the shutdown claims the session.
Interrupt(paused) ==
  /\ processing' = FALSE
  /\ user' = [user EXCEPT !.interrupted = @ \/ processing]
  /\ paused = (rec.paused \/ processing)

\* A shutdown's deadlines run from now; one that starts late in the source's
\* lifetime may have none of its stop allowance, or no capture time, left.
Window == {"near", "drain", "stop", "capture", "retire", "window"}
Spent == IF Due("drain") THEN {{}, {"stop"}, {"stop", "capture"}} ELSE {{}}

\* requestShutdown(reason): the lifetime's drain deadline, inactivity, or the
\* archive of the session, which may come at any time.
RequestShutdown ==
  /\ rec.phase = "running"
  /\ \E paused \in BOOLEAN :
       /\ Interrupt(paused)
       /\ rec' = [rec EXCEPT !.phase = "draining", !.paused = paused,
                             !.failure = FALSE, !.began = TRUE]
  /\ \E spent \in Spent : due' = (due \ Window) \cup spent
  /\ UNCHANGED <<row, cp, src, asks, creating, crashes>>

\* requestShutdown(reason, "emergency"): an unresponsive or failed runtime.
\* During a recovery the source is unknown; otherwise it is captured at once.
Emergency ==
  /\ rec.phase \in {"running", "restoring"} /\ ~Holding /\ ~Dead
  /\ src[rec.gen].alive \/ row.status = "ready"
  /\ ~rec.inFlight
  /\ Recovering \/ row.status = "ready"
  /\ processing' = FALSE
  /\ user' = [user EXCEPT !.interrupted = @ \/ processing]
  /\ row' = [row EXCEPT !.status = "stale"]
  /\ LET claim == [rec EXCEPT !.handle = row.handle, !.paused = TRUE,
                     !.failure = FALSE, !.began = TRUE,
                     !.retired = Recovering /\ @]
     IN  \E late \in {FALSE, Due("drain")} :
           /\ due' = (due \ Window) \cup
                       (IF late THEN {"capture"} ELSE {})
           /\ IF Recovering
              THEN rec' = [claim EXCEPT !.phase = "unknown"] /\ UNCHANGED <<cp, asks>>
              ELSE Capture(claim, late)
  /\ UNCHANGED <<src, creating, crashes>>

\* A fatal report while a checkpoint holds exclusion waits on the record; once
\* nothing holds teardown it becomes an emergency, or is dropped for a dead row.
RecordFailure ==
  /\ rec.phase \in {"running", "draining"} /\ rec.inFlight /\ ~rec.failure
  /\ src[rec.gen].alive
  /\ rec' = [rec EXCEPT !.failure = TRUE]
  /\ UNCHANGED <<row, cp, src, asks, creating, due, processing, user, crashes>>

ClearFailure ==
  /\ rec.phase = "running" /\ rec.failure /\ ~Holding /\ Dead
  /\ rec' = [rec EXCEPT !.failure = FALSE]
  /\ UNCHANGED <<row, cp, src, asks, creating, due, processing, user, crashes>>

\* Mutant: the hand-over does not wait for the settle time.
HandOffEarly == rec.inFlight /\ Settles(rec) /\ cp.ckpt = 0

\* A routine checkpoint the shutdown claimed is handed over at its settle time
\* once no call of this instance awaits it.
HandOff == rec.inFlight /\ Settles(rec) /\ Due("settle") /\ cp.ckpt = 0

\* advance() while draining: wait for a checkpoint, capture past the stop
\* deadline, or ask the runtime to prepare.
AdvanceDraining ==
  /\ rec.phase = "draining"
  /\ rec.inFlight /\ Settles(rec) => HandOff
  /\ LET r == IF HandOff THEN Released(rec) ELSE rec
     IN  IF Due("stop")
         THEN IF r.inFlight
              THEN /\ cp.ckpt = 0
                   /\ rec' = Failed(r, "unknown", FALSE)
                   /\ UNCHANGED <<row, cp, src, asks, due>>
              ELSE \E late \in IF HandOff THEN BOOLEAN
                                          ELSE {Due("capture")} :
                   /\ due' = due \ IF HandOff /\ ~late THEN {"stop", "capture"}
                                                       ELSE {"stop"}
                   /\ row' = Fenced
                   /\ Capture([r EXCEPT !.paused = TRUE], late)
                   /\ UNCHANGED src
         ELSE IF r.inFlight
         THEN /\ cp.ckpt = 0
              /\ rec' = Failed(r, "unknown", FALSE)
              /\ UNCHANGED <<row, cp, src, asks, due>>
         ELSE /\ rec' = r
              /\ src' = [src EXCEPT ![rec.gen].told = @ \/ rec.genReady]
              /\ UNCHANGED <<row, cp, asks, due>>
  /\ UNCHANGED <<creating, processing, user, crashes>>

\* preservation_prepared in time is durable evidence; late, or without a stopped
\* execution, the source is captured without it and queued work waits.
Prepared ==
  /\ rec.phase = "draining" /\ src[rec.gen].told
  /\ IF src[rec.gen].quiet /\ ~Due("stop")
     THEN rec' = [rec EXCEPT !.phase = "prepared"] /\ UNCHANGED <<row, cp, asks>>
     ELSE /\ ~rec.inFlight
          /\ row' = Fenced
          /\ Capture([rec EXCEPT !.paused = TRUE], Due("capture"))
  /\ due' = due \ {"stop"}
  /\ UNCHANGED <<src, creating, processing, user, crashes>>

AdvancePrepared ==
  /\ rec.phase = "prepared"
  /\ Capture(rec, Due("capture"))
  /\ UNCHANGED <<row, src, creating, due, processing, user, crashes>>

\* Mutant: only a capture replaced by another is taken for lost.
AdvanceReplacedCapturing ==
  /\ rec.phase = "capturing" /\ cp.capture \notin {0, rec.gen}
  /\ rec' = Failed(rec, "unknown", TRUE)
  /\ UNCHANGED <<row, cp, src, asks, creating, due, processing, user, crashes>>

\* A capture this instance did not start was lost with the instance that did.
AdvanceCapturing ==
  /\ rec.phase = "capturing" /\ cp.capture # rec.gen
  /\ rec' = Failed(rec, "unknown", TRUE)
  /\ UNCHANGED <<row, cp, src, asks, creating, due, processing, user, crashes>>

CaptureAsk == {a \in asks : a.kind = "shutdown"}
OwnsCapture == rec.phase = "capturing" /\ rec.gen = cp.capture

\* The provider confirms the image: commit the receipt, then retire the source.
CaptureSaved ==
  /\ cp.capture # 0 /\ ~Due("capture")
  /\ \E a \in CaptureAsk :
       /\ a.gen = cp.capture /\ src[a.gen].alive
       /\ asks' = asks \ {a}
       /\ \E w \in a.low .. src[a.gen].work :
            IF OwnsCapture
            THEN Retire([rec EXCEPT !.phase = "retiring", !.receipt =
                           [gen |-> a.gen, work |-> w, shutdown |-> TRUE]],
                        [cp EXCEPT !.capture = 0])
            ELSE rec' = rec /\ cp' = [cp EXCEPT !.capture = 0]
  /\ UNCHANGED <<row, src, creating, due, processing, user, crashes>>

\* An error or the deadline: the provider may still be capturing.
CaptureUnconfirmed ==
  /\ cp.capture # 0
  /\ rec' = IF OwnsCapture THEN Failed(rec, "unknown", TRUE) ELSE rec
  /\ asks' = asks \ CaptureAsk
  /\ cp' = [cp EXCEPT !.capture = 0]
  /\ UNCHANGED <<row, src, creating, due, processing, user, crashes>>

\* retire(), again after a restart: the receipt already authorizes the stop.
AdvanceRetiring ==
  /\ rec.phase = "retiring" /\ cp.retire # rec.gen
  /\ rec.receipt.gen # 0 /\ rec.handle # 0
  /\ Retire(rec, cp)
  /\ UNCHANGED <<row, src, asks, creating, due, processing, user, crashes>>

OwnsRetire == rec.phase = "retiring" /\ rec.gen = cp.retire

StopConfirmed ==
  /\ cp.retire # 0
  /\ src' = Stopped(rec.handle)
  /\ IF OwnsRetire THEN Finish(rec) ELSE UNCHANGED <<rec, row>>
  /\ cp' = [cp EXCEPT !.retire = 0]
  /\ UNCHANGED <<asks, creating, due, processing, user, crashes>>

\* Mutant: a stop that was not confirmed finishes the shutdown all the same.
StopAssumed ==
  /\ cp.retire # 0
  /\ src' \in {src, Stopped(rec.handle)}
  /\ IF OwnsRetire THEN Finish(rec) ELSE UNCHANGED <<rec, row>>
  /\ cp' = [cp EXCEPT !.retire = 0]
  /\ UNCHANGED <<asks, creating, due, processing, user, crashes>>

\* The stop failed or its answer is lost; the source may or may not be gone.
StopUnconfirmed ==
  /\ cp.retire # 0
  /\ src' \in {src, Stopped(rec.handle)}
  /\ rec' = IF OwnsRetire THEN Failed(rec, "unknown", FALSE) ELSE rec
  /\ cp' = [cp EXCEPT !.retire = 0]
  /\ UNCHANGED <<row, asks, creating, due, processing, user, crashes>>

-----------------------------------------------------------------------------
(* Alarms over a held record. *)

\* Settlement of a checkpoint while running, past its exclusion.
SettleRunning ==
  /\ rec.phase = "running" /\ rec.inFlight /\ cp.ckpt = 0
  /\ IF ~Settles(rec)
     THEN /\ rec' = Failed([rec EXCEPT !.after = "none"], "unknown", FALSE)
          /\ UNCHANGED row
     ELSE /\ ~rec.invoked /\ ~Due("drain") /\ Due("settle")
          /\ \E live \in BOOLEAN :   \* a fresh heartbeat
               LET hold == Failed([Released(rec) EXCEPT !.inFlight = ~rec.uncertain],
                                  "unknown", FALSE)
               IN  IF Dead \/ rec.failure
                   THEN rec' = hold /\ UNCHANGED row
                   ELSE IF live /\ row.status \in {"snapshotting", "ready"}
                   THEN /\ rec' = Released(rec)
                        /\ row' = [row EXCEPT !.status = "ready"]
                   ELSE IF ~rec.deferred
                   THEN rec' = [rec EXCEPT !.deferred = TRUE] /\ UNCHANGED row
                   ELSE rec' = hold /\ UNCHANGED row
  /\ UNCHANGED <<cp, src, asks, creating, due, processing, user, crashes>>

\* retryCapture: a new capture window, without waiting for the runtime.
RetryCapture ==
  /\ cp.capture = 0 /\ CanRetry
  /\ due' = due \ {"capture", "retire"}
  /\ row' = Fenced
  /\ Capture(rec, FALSE)

\* An alarm or the refused runtime's reconnect, at most once per window.
AutoRetry ==
  /\ rec.phase \in {"failed", "unknown"}
  /\ ~(rec.inFlight /\ Settles(rec))
  /\ rec.capFail /\ Due("capture")
  /\ RetryCapture
  /\ UNCHANGED <<src, creating, processing, user, crashes>>

-----------------------------------------------------------------------------
(* Explicit recovery. *)

Offered == rec.phase \in {"failed", "unknown"} /\ ~rec.discarding

RecoverRetry ==
  /\ Offered /\ RetryCapture
  /\ UNCHANGED <<src, creating, processing, user, crashes>>

\* A saved session continues by choice.
RecoverPaused ==
  /\ rec.phase = "saved" /\ rec.paused /\ CanRestoreSaved
  /\ rec' = [rec EXCEPT !.paused = FALSE]
  /\ user' = [interrupted |-> FALSE, chose |-> TRUE]
  /\ UNCHANGED <<row, cp, src, asks, creating, due, processing, crashes>>

\* restore_saved: stop a known source first; expiry or recorded retirement
\* stands in for the stop of one that is not known.
RecoverSaved ==
  /\ Offered /\ CanRestoreSaved
  /\ user' = [interrupted |-> FALSE, chose |-> TRUE]
  /\ LET next == [rec EXCEPT !.phase = "retiring", !.paused = FALSE]
     IN  IF Due("expiry") \/ (rec.handle = 0 /\ rec.retired)
         THEN Finish(next) /\ UNCHANGED cp
         ELSE /\ rec' = next
              /\ cp' = [cp EXCEPT !.retire = rec.gen]
              /\ UNCHANGED row
  /\ due' = due \ {"retire"}
  /\ UNCHANGED <<src, asks, creating, processing, crashes>>

\* discard: claimed durably before any provider call; only a claimed discard can
\* follow it, also after a restart.
RecoverDiscard ==
  /\ rec.phase \in {"failed", "unknown"} /\ ~cp.discard
  /\ rec.discarding \/ NoLiveCheckpoint
  /\ rec' = [rec EXCEPT !.discarding = TRUE]
  /\ cp' = [cp EXCEPT !.discard = TRUE]
  /\ UNCHANGED <<row, src, asks, user, creating, due, processing, crashes>>

DiscardEnds ==
  /\ cp.discard /\ rec.discarding
  /\ cp' = [cp EXCEPT !.discard = FALSE]
  /\ \E stopped \in BOOLEAN :
       /\ rec.handle = 0 => stopped
       /\ src' \in IF stopped THEN {Stopped(rec.handle)} ELSE {src, Stopped(rec.handle)}
       /\ IF stopped
          THEN /\ rec' = Blank("running", rec.gen, TRUE, NoReceipt)
               /\ row' = [row EXCEPT !.status = "stopped", !.handle = 0]
               /\ user' = [user EXCEPT !.interrupted = FALSE]
          ELSE /\ rec' = [rec EXCEPT !.discarding = FALSE]
               /\ UNCHANGED <<row, user>>
  /\ UNCHANGED <<asks, creating, due, processing, crashes>>

-----------------------------------------------------------------------------
(* Time and restarts. *)

\* A deadline passes while something still reads it: a checkpoint's settle time
\* and its admission limit precede the drain, the drain the expiry, and a
\* shutdown's windows end before it.
MayPass(d) ==
  LET held == rec.phase \in {"failed", "unknown"}
  IN  CASE d = "near" -> rec.phase = "running" /\ rec.handle # 0
        [] d = "drain" -> /\ rec.phase = "running" /\ Due("near")
                          /\ rec.after = "continue" => Due("settle")
        [] d = "settle" -> \/ rec.after = "continue"
                           \/ \E a \in asks : a.kind = "continue"
        [] d = "stop" -> rec.phase = "draining"
        [] d = "capture" -> \/ rec.phase = "draining" /\ Due("stop")
                            \/ rec.phase \in {"prepared", "capturing"}
                            \/ held /\ rec.capFail
        [] d = "retire" -> rec.phase = "retiring"
        [] d = "window" -> held /\ rec.began
        [] d = "expiry" -> /\ rec.handle # 0
                           /\ \/ rec.phase = "running" /\ Due("drain")
                              \/ rec.phase \in ShuttingDown \ {"retiring"} /\ Due("capture")
                              \/ rec.phase = "retiring" \/ held

\* Requests end with their deadlines, a source with its lifetime.
Passes(d) ==
  /\ d \notin due /\ MayPass(d)
  /\ due' = due \cup {d}
  /\ asks' = IF d = "settle" THEN {a \in asks : a.kind # "continue"} ELSE asks
  /\ src' = IF d = "expiry" THEN Stopped(rec.handle) ELSE src
  /\ UNCHANGED <<rec, row, cp, creating, processing, user, crashes>>

\* A restart loses every call; an invoked recovery's outcome is then unknown.
Restart ==
  /\ crashes < MaxCrashes
  /\ crashes' = crashes + 1
  /\ cp' = Idle
  /\ asks' \in SUBSET {a \in asks : a.kind = "continue"}
  /\ rec' = IF rec.invoked /\ rec.phase \in {"restoring", "running"}
            THEN [rec EXCEPT !.phase = "unknown",
                    !.handle = IF row.handle # 0 THEN row.handle ELSE @]
            ELSE rec
  /\ UNCHANGED <<row, src, creating, due, processing, user>>

-----------------------------------------------------------------------------

Next ==
  \/ Dispatch \/ Complete \/ RefusedExit
  \/ \E g \in Gens : Work(g) \/ Quiesce(g) \/ ProviderCreates(g)
  \/ Spawn \/ InvokeProvider \/ ProviderAnswers \/ StartFails
  \/ RuntimeReady \/ GenerationReady \/ BootFails
  \/ HeartbeatStale
  \/ CheckpointSaved \/ CheckpointUnconfirmed \/ WatchdogEnds
  \/ RequestShutdown \/ Emergency \/ RecordFailure \/ ClearFailure
  \/ AdvanceDraining \/ Prepared \/ AdvancePrepared \/ AdvanceCapturing
  \/ CaptureSaved \/ CaptureUnconfirmed
  \/ AdvanceRetiring \/ StopConfirmed \/ StopUnconfirmed
  \/ SettleRunning \/ AutoRetry
  \/ RecoverRetry \/ RecoverPaused \/ RecoverSaved
  \/ RecoverDiscard \/ DiscardEnds
  \/ \E d \in Deadlines : Passes(d)
  \/ Restart

Spec == Init /\ [][Next]_vars

\* Alarms keep coming while a shutdown is under way (handleAlarm reasserts its
\* deadline on every pass), time passes, and `bounded` ends every provider call.
Fairness ==
  /\ WF_vars(AdvanceDraining)
  /\ WF_vars(AdvancePrepared)
  /\ WF_vars(AdvanceCapturing)
  /\ WF_vars(AdvanceRetiring)
  /\ WF_vars(CheckpointSaved \/ CheckpointUnconfirmed)
  /\ WF_vars(CaptureSaved \/ CaptureUnconfirmed)
  /\ WF_vars(StopConfirmed \/ StopUnconfirmed)
  /\ \A d \in {"stop", "settle"} : WF_vars(Passes(d))

FairSpec == Spec /\ Fairness

-----------------------------------------------------------------------------
(* Properties. *)

Records ==
  [phase: Phases, gen: 0..MaxGens, handle: 0..MaxGens, retired: BOOLEAN,
   receipt: [gen: 0..MaxGens, work: 0..MaxWork, shutdown: BOOLEAN],
   invoked: BOOLEAN, rtReady: BOOLEAN, genReady: BOOLEAN, inFlight: BOOLEAN,
   after: {"none", "continue", "stop"}, uncertain: BOOLEAN, deferred: BOOLEAN,
   paused: BOOLEAN, failure: BOOLEAN, capFail: BOOLEAN, began: BOOLEAN,
   discarding: BOOLEAN]

Rows ==
  [status: {"starting", "ready", "snapshotting", "stopped", "stale", "failed"},
   handle: 0..MaxGens, fenced: BOOLEAN]

Memory ==
  [capture: 0..MaxGens, ckpt: 0..MaxGens, retire: 0..MaxGens, discard: BOOLEAN,
   start: 0..MaxGens, asked: BOOLEAN, restores: BOOLEAN, active: 0..MaxGens,
   watch: {"idle", "saving", "stopping", "lost"}, watchOf: 0..MaxGens]

Sources ==
  [Gens -> [alive: BOOLEAN, work: 0..MaxWork, busy: BOOLEAN, told: BOOLEAN,
            quiet: BOOLEAN]]

Requests == [gen: Gens, kind: Kinds, low: 0..MaxWork]

\* Every variable has its type.
TypeOK ==
  /\ rec \in Records /\ row \in Rows /\ cp \in Memory /\ src \in Sources
  /\ asks \in SUBSET Requests /\ creating \in SUBSET Gens
  /\ due \in SUBSET Deadlines
  /\ processing \in BOOLEAN
  /\ user \in [interrupted: BOOLEAN, chose: BOOLEAN]
  /\ crashes \in 0..MaxCrashes

\* A saved session continues by itself only from a save of its own source that
\* holds everything the source did: whatever else was saved waits for the user.
CleanContinuation ==
  rec.phase = "saved" /\ ~rec.paused /\ ~user.chose =>
    /\ CoversSource(rec)
    /\ rec.receipt.work = src[rec.gen].work

\* A save that takes the place of another holds at least as much: no checkpoint
\* or capture, however late its answer and of whichever generation, and no start
\* from an image takes the session's workspace back.
SavesNeverGoBack ==
  [][rec'.receipt.gen # 0 => rec'.receipt.work >= rec.receipt.work]_vars

\* A prompt a shutdown interrupted keeps the queue from every automatic start
\* and dispatch, across restarts, until the user chooses what to do.
InterruptedWaits ==
  user.interrupted => Admission \notin {"ready", "restore_required", "spawn_required"}

\* Until a routine checkpoint's request has ended, neither a shutdown's capture
\* nor its stop runs against the same source.
CheckpointIsExclusive ==
  \A a \in asks :
    a.kind = "continue" =>
      /\ \A b \in asks : b.gen = a.gen => b.kind # "shutdown"
      /\ ~(cp.retire # 0 /\ rec.handle = a.gen)

\* A source whose own capture the record reports saved and retired is gone.
RetirementIsTrue ==
  rec.phase = "saved" /\ CoversSource(rec) => ~src[rec.gen].alive

\* A shutdown, once claimed, reaches saved, failed or unknown despite lost
\* requests, silent runtimes and restarts.
ShutdownsSettle == rec.phase \in ShuttingDown ~> rec.phase \notin ShuttingDown

\* watchdog-effects.ts:129, of the heartbeat watchdog: "Preserve a ready
\* workspace".  It stops a source that holds work only with a save recorded.
ReadyWorkspaceIsSaved ==
  cp.watch = "stopping" /\ cp.watchOf = rec.gen /\ src[rec.gen].work > 0 =>
    rec.receipt.gen # 0

\* ADR 0004: "Retirement evidence for an old execution cannot prove that a later,
\* ambiguously invoked restore created no new execution."  A record that reports
\* its generation saved and retired has none running.
SavedMeansStopped == rec.phase = "saved" => ~src[rec.gen].alive
=============================================================================
