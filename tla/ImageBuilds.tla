----------------------------- MODULE ImageBuilds -----------------------------
(***************************************************************************)
(* Prebuilt images of one scope on one provider whose captures outlive the *)
(* request that asks for them (Daytona): the rows of image_builds, the     *)
(* workflow that triggers builds and accepts their callbacks, the          *)
(* finalizers that work on accepted builds under a lease, and the          *)
(* maintenance sweeps.  The provider's sandboxes and snapshots are         *)
(* modelled by what the adapter sees of them.                              *)
(*                                                                         *)
(* A build has one source and one snapshot name, so a row's session id and *)
(* image id are Booleans.  Every step between two awaits is an action; any *)
(* actor may stop between two of its own.                                  *)
(***************************************************************************)
EXTENDS Naturals

CONSTANTS
  MaxBuilds,    \* bound: builds ever triggered, numbered as created_at orders them
  Workers,      \* finalizers that may run at once
  LeaseCovers,  \* a lease does not run out on a finalizer that still runs
  MaxFaults,    \* bound: attempts that end in a crash or in a store error
  Before        \* bound: the statuses a build may have when the next is triggered

ASSUME BuildsAssumption ==
  /\ MaxBuilds \in Nat /\ MaxFaults \in Nat
  /\ Workers \cap {"none", "lost"} = {}
  /\ LeaseCovers \in BOOLEAN

Builds == 1..MaxBuilds

VARIABLES
  status,    \* of each row; "none" before it is registered, "deleted" after
  pending,   \* provider_session_cleanup_pending: "null", "owed" or "settled"
  bound,     \* rows with a provider_session_id
  accepted,  \* completion_hash: "none", "success" or "failure"
  lease,     \* the row's lease: "none", its holder, or "lost" when that is gone
  lapsed,    \* rows whose lease has expired
  op,        \* rows with a provider_operation_ref
  image,     \* rows with a provider_image_id
  trigger,   \* where the request that triggered the build is
  jobs,      \* builds with a finalization command queued
  work,      \* each finalizer: where it is, on which build, and what it read
  sweep,     \* the maintenance pass: what it found about which build
  source,    \* each build's sandbox: "none", "requested", "up" or "gone"
  capture,   \* its snapshot: "none", "running", "done", "failed" or "deleted"
  captures,  \* history: capture requests sent
  age,       \* "young", past the capture's deadline ("late"), or "old"
  revoked,   \* history: builds whose secrets have changed since they began
  faults     \* history: attempts that ended in a fault

row == <<status, pending, bound, accepted, lease, lapsed, op, image>>
provider == <<source, capture, captures>>
history == <<age, revoked, faults>>
vars == <<row, trigger, jobs, work, sweep, provider, history>>

Idle == [at |-> "idle", build |-> 0, unknown |-> FALSE, replaced |-> {}]
Resting == [found |-> "nothing", build |-> 0]

Registered(b) == status[b] \notin {"none", "deleted"}
Terminal(b) == status[b] \in {"ready", "failed", "superseded"}
NoSessionObligation(b) == pending[b] = "settled" \/ (pending[b] = "null" /\ b \notin bound)
HasLease(w, b) == lease[b] = w

-----------------------------------------------------------------------------
(* Triggering a build.                                                     *)

\* One build at a time.
registerBuild(b) ==
  /\ status[b] = "none" /\ \A c \in Builds : c < b => status[c] # "none"
  /\ \A c \in Builds : status[c] # "building" /\ (c = b - 1 => status[c] \in Before)
  /\ status' = [status EXCEPT ![b] = "building"]
  /\ trigger' = [trigger EXCEPT ![b] = "registered"]
  /\ UNCHANGED <<pending, bound, accepted, lease, lapsed, op, image, jobs, work, sweep,
                 provider, history>>

\* The obligation is recorded before anything can be created, unless planning
\* or the write fails first.
markSourceCreateIntent(b) ==
  /\ trigger[b] = "registered"
  /\ \/ /\ status[b] = "building" /\ b \notin bound
        /\ pending' = [pending EXCEPT ![b] = "owed"]
        /\ \E next \in {"intended", "lost"} : trigger' = [trigger EXCEPT ![b] = next]
     \/ trigger' = [trigger EXCEPT ![b] = "lost"] /\ UNCHANGED pending
  /\ UNCHANGED <<status, bound, accepted, lease, lapsed, op, image, jobs, work, sweep,
                 provider, history>>

\* The create goes out, or preparing it failed.
startBuild(b) ==
  /\ trigger[b] = "intended"
  /\ \/ /\ age[b] # "old"
        /\ trigger' = [trigger EXCEPT ![b] = "requested"]
        /\ source' = [source EXCEPT ![b] = "requested"]
     \/ trigger' = [trigger EXCEPT ![b] = "lost"] /\ UNCHANGED source
  /\ UNCHANGED <<row, jobs, work, sweep, capture, captures, history>>

\* The provider's answer, or none.
createAnswers(b) ==
  /\ trigger[b] = "requested"
  /\ \/ source[b] = "up" /\ trigger' = [trigger EXCEPT ![b] = "created"]
     \/ trigger' = [trigger EXCEPT ![b] = "lost"]
  /\ UNCHANGED <<row, jobs, work, sweep, provider, history>>

\* The session is bound before the source is launched.
bindProviderSession(b) ==
  /\ trigger[b] = "created"
  /\ IF status[b] = "building"
     THEN /\ bound' = bound \cup {b}
          /\ pending' = [pending EXCEPT ![b] = "owed"]
          /\ trigger' = [trigger EXCEPT ![b] = "launched"]
     ELSE trigger' = [trigger EXCEPT ![b] = "failing"] /\ UNCHANGED <<bound, pending>>
  /\ UNCHANGED <<status, accepted, lease, lapsed, op, image, jobs, work, sweep, provider, history>>

\* The launch was answered, or its answer was lost.
launched(b) ==
  /\ trigger[b] = "launched"
  /\ \E outcome \in {"over", "failing"} : trigger' = [trigger EXCEPT ![b] = outcome]
  /\ UNCHANGED <<row, jobs, work, sweep, provider, history>>

\* A trigger that failed competes with the callback for the row.  One that has
\* the source's id ("failing", not "lost") and the row may delete it.
markBuildFailed(b) ==
  /\ trigger[b] \in {"failing", "lost"}
  /\ LET wins == status[b] = "building" /\ accepted[b] = "none"
         fenced == wins \/ (accepted[b] = "none" /\ status[b] \in {"failed", "superseded"})
     IN  /\ status' = [status EXCEPT ![b] = IF wins THEN "failed" ELSE @]
         /\ trigger' = [trigger EXCEPT ![b] =
                         IF fenced /\ @ = "failing" THEN "cleaning" ELSE "over"]
  /\ UNCHANGED <<pending, bound, accepted, lease, lapsed, op, image, jobs, work, sweep,
                 provider, history>>

\* The source is deleted, if the provider does.
cleanupTrigger(b) ==
  /\ trigger[b] = "cleaning"
  /\ trigger' = [trigger EXCEPT ![b] = "over"]
  /\ \/ source' = [source EXCEPT ![b] = "gone"]
     \/ UNCHANGED source
  /\ UNCHANGED <<row, jobs, work, sweep, capture, captures, history>>

triggerDies(b) ==
  /\ trigger[b] \notin {"none", "over"} /\ faults < MaxFaults
  /\ trigger' = [trigger EXCEPT ![b] = "over"]
  /\ faults' = faults + 1
  /\ UNCHANGED <<row, jobs, work, sweep, provider, age, revoked>>

-----------------------------------------------------------------------------
(* The runtime's callback.  The command is published after the row is      *)
(* written, so a crash between the two loses it; an exact replay publishes *)
(* it again.                                                               *)

acceptSuccessfulCompletion(b) ==
  /\ b \in bound /\ source[b] = "up"
  /\ status[b] = "building" /\ accepted[b] = "none"
  /\ accepted' = [accepted EXCEPT ![b] = "success"]
  /\ jobs' \in {jobs, jobs \cup {b}}
  /\ UNCHANGED <<status, pending, bound, lease, lapsed, op, image, trigger, work, sweep,
                 provider, history>>

acceptFailedCompletion(b) ==
  /\ b \in bound /\ source[b] = "up"
  /\ status[b] = "building" /\ accepted[b] = "none"
  /\ accepted' = [accepted EXCEPT ![b] = "failure"]
  /\ status' = [status EXCEPT ![b] = "failed"]
  /\ jobs' \in {jobs, jobs \cup {b}}
  /\ UNCHANGED <<pending, bound, lease, lapsed, op, image, trigger, work, sweep, provider, history>>

\* A failure's command is published whatever the row has become.
replayCompletion(b) ==
  /\ b \in bound /\ source[b] = "up" /\ b \notin jobs /\ Registered(b)
  /\ accepted[b] = "failure" \/ (accepted[b] = "success" /\ status[b] = "building")
  /\ jobs' = jobs \cup {b}
  /\ UNCHANGED <<row, trigger, work, sweep, provider, history>>

-----------------------------------------------------------------------------
(* One finalizer.                                                          *)

At(w, place) == work[w].at = place
Goes(w, place) == work' = [work EXCEPT ![w].at = place]

Finishes(w) == work' = [work EXCEPT ![w] = Idle]

\* The command stays in the queue; out of attempts, it is dropped.
Retries(w) ==
  /\ Finishes(w)
  /\ jobs' \in {jobs, jobs \cup {work[w].build}}

\* A delivery reads the row.
getBuild(w, b) ==
  /\ At(w, "idle") /\ b \in jobs
  /\ jobs' = jobs \ {b}
  /\ work' = [work EXCEPT ![w] =
                CASE status[b] = "deleted"  -> Idle
                  [] status[b] = "building" ->
                       [Idle EXCEPT !.at = "claim", !.build = b,
                                    !.unknown = b \notin image /\ b \in lapsed]
                  [] OTHER -> [Idle EXCEPT !.at = "cleanup", !.build = b]]
  /\ UNCHANGED <<row, trigger, sweep, provider, history>>

\* The lease is claimed if none is live.  A previous attempt whose outcome is
\* unknown and that left no operation behind fails the build.
claimLease(w) ==
  LET b == work[w].build
      claimable == status[b] = "building" /\ b \in bound /\ (lease[b] = "none" \/ b \in lapsed)
  IN  /\ At(w, "claim")
      /\ \/ /\ claimable
            /\ lease' = [lease EXCEPT ![b] = w] /\ lapsed' = lapsed \ {b}
            /\ Goes(w, IF b \in image THEN "publish"
                       ELSE IF b \in op THEN "await"
                       ELSE IF work[w].unknown THEN "fail" ELSE "submit")
            /\ UNCHANGED jobs
         \/ ~claimable /\ Retries(w) /\ UNCHANGED <<lease, lapsed>>
      /\ UNCHANGED <<status, pending, bound, accepted, op, image, trigger, sweep, provider, history>>

\* The source is stopped and the capture's name reserved, under the lease.  A
\* source that is gone or about to expire fails the build, and so does any call
\* that throws, the reservation's too, committed or not; a source that cannot be
\* read or still stops, or a lost reservation, is retried.
reserveProviderOperation(w) ==
  LET b == work[w].build
      fenced == status[b] = "building" /\ HasLease(w, b) /\ b \notin op /\ b \notin image
  IN  /\ At(w, "submit")
      /\ \/ Goes(w, "fail") /\ UNCHANGED op
         \/ /\ source[b] = "up" /\ UNCHANGED op
            /\ \E retry \in {"release", "poll"} : Goes(w, retry)
         \/ /\ source[b] = "up" /\ age[b] = "young" /\ fenced
            /\ op' = op \cup {b}
            /\ \E next \in {"capture", "fail"} : Goes(w, next)
      /\ UNCHANGED <<status, pending, bound, accepted, lease, lapsed, image, trigger, jobs, sweep,
                     provider, history>>

\* The capture is requested: the provider accepts it, refuses it, or its
\* answer is lost either way.
captureBuildSnapshot(w) ==
  LET b == work[w].build
  IN  /\ At(w, "capture")
      /\ captures' = [captures EXCEPT ![b] = @ + 1]
      /\ \/ /\ source[b] = "up" /\ capture[b] = "none"
            /\ capture' = [capture EXCEPT ![b] = "running"] /\ Goes(w, "await")
         \/ Goes(w, "await") /\ UNCHANGED capture
         \/ Goes(w, "fail") /\ UNCHANGED capture
      /\ UNCHANGED <<row, trigger, jobs, sweep, source, history>>

\* Mutant: a snapshot that is not there is asked for again.
AskAgain(w) ==
  LET b == work[w].build
  IN  /\ At(w, "await")
      /\ \/ capture[b] = "done" /\ Goes(w, "record")
         \/ capture[b] = "none" /\ Goes(w, "capture")
         \/ age[b] # "young" /\ Goes(w, "fail")
      /\ UNCHANGED <<row, trigger, jobs, sweep, provider, history>>

\* The reserved name is polled until it settles, the attempt is over, or the
\* operation's deadline has passed.
awaitCapturedSnapshot(w) ==
  LET b == work[w].build
  IN  /\ At(w, "await")
      /\ \/ capture[b] = "done" /\ Goes(w, "record")
         \/ capture[b] = "failed" /\ Goes(w, "fail")
         \/ capture[b] # "done" /\ age[b] # "young" /\ Goes(w, "fail")
         \/ age[b] = "young" /\ Goes(w, "poll")
      /\ UNCHANGED <<row, trigger, jobs, sweep, provider, history>>

\* Mutant: a write whose answer was lost is taken for one that failed.
RecordUnread(w) ==
  LET b == work[w].build
      fenced == status[b] = "building" /\ HasLease(w, b) /\ b \notin image
  IN  /\ At(w, "record")
      /\ \/ /\ fenced
            /\ image' = image \cup {b} /\ op' = op \ {b}
            /\ Goes(w, "publish") \/ Goes(w, "compensate")
         \/ /\ Goes(w, IF b \in image THEN "publish" ELSE "compensate")
            /\ UNCHANGED <<image, op>>
      /\ UNCHANGED <<status, pending, bound, accepted, lease, lapsed, trigger, jobs, sweep,
                     provider, history>>

\* The artifact is fenced to the lease.  When the write is refused, or fails
\* uncommitted, the row is read again.
recordArtifact(w) ==
  LET b == work[w].build
      fenced == status[b] = "building" /\ HasLease(w, b) /\ b \notin image
  IN  /\ At(w, "record")
      /\ \/ /\ fenced
            /\ image' = image \cup {b} /\ op' = op \ {b}
            /\ Goes(w, "publish")
         \/ /\ Goes(w, IF b \in image THEN "publish" ELSE "compensate")
            /\ UNCHANGED <<image, op>>
      /\ UNCHANGED <<status, pending, bound, accepted, lease, lapsed, trigger, jobs, sweep,
                     provider, history>>

\* An artifact that could not be fenced is deleted, and the lease released.
\* When either fails, even a deleted one is quarantined.
compensateUnrecordedArtifact(w) ==
  LET b == work[w].build
  IN  /\ At(w, "compensate")
      /\ \/ /\ capture' = [capture EXCEPT ![b] = "deleted"]
            /\ \E next \in {"release", "quarantine"} : Goes(w, next)
         \/ UNCHANGED capture /\ Goes(w, "quarantine")
      /\ UNCHANGED <<row, trigger, jobs, sweep, source, captures, history>>

\* The row keeps what could not be cleaned up for maintenance.
quarantineArtifact(w) ==
  LET b == work[w].build
  IN  /\ At(w, "quarantine")
      /\ IF b \in bound /\ b \notin image /\ status[b] \in {"building", "failed", "superseded"}
         THEN /\ image' = image \cup {b} /\ op' = op \ {b}
              /\ status' = [status EXCEPT ![b] = IF @ = "building" THEN "failed" ELSE @]
              /\ lease' = [lease EXCEPT ![b] = "none"] /\ lapsed' = lapsed \ {b}
              /\ Finishes(w) /\ UNCHANGED jobs
         ELSE /\ Retries(w) /\ UNCHANGED <<image, op, status, lapsed>>
              /\ lease' = [lease EXCEPT ![b] = IF @ = w THEN "lost" ELSE @]
      /\ UNCHANGED <<pending, bound, accepted, trigger, sweep, provider, history>>

\* The next delivery goes on from what the row says.  One that waits for an
\* operation is published afresh where others are dropped.
clearLease(w) ==
  LET b == work[w].build
  IN  /\ At(w, "release") \/ At(w, "poll")
      /\ IF HasLease(w, b)
         THEN lease' = [lease EXCEPT ![b] = "none"] /\ lapsed' = lapsed \ {b}
         ELSE UNCHANGED <<lease, lapsed>>
      /\ Retries(w)
      /\ At(w, "poll") /\ b \in op => b \in jobs'
      /\ UNCHANGED <<status, pending, bound, accepted, op, image, trigger, sweep, provider, history>>

markFailed(w) ==
  LET b == work[w].build
  IN  /\ At(w, "fail")
      /\ IF status[b] = "building" /\ HasLease(w, b)
         THEN /\ status' = [status EXCEPT ![b] = "failed"]
              /\ lease' = [lease EXCEPT ![b] = "none"] /\ lapsed' = lapsed \ {b}
         ELSE UNCHANGED <<status, lease, lapsed>>
      /\ Goes(w, "cleanup")
      /\ UNCHANGED <<pending, bound, accepted, op, image, trigger, jobs, sweep, provider, history>>

NewerReady(b) == \E c \in Builds : c > b /\ status[c] = "ready"

\* Mutant: the row is written as it was read.
MarkReadyRevived(w) ==
  LET b == work[w].build
  IN  /\ At(w, "publish")
      /\ Registered(b)
      /\ status' = [status EXCEPT ![b] = "ready"]
      /\ lease' = [lease EXCEPT ![b] = "none"] /\ lapsed' = lapsed \ {b}
      /\ Goes(w, "supersede")
      /\ UNCHANGED <<pending, bound, accepted, op, image, trigger, jobs, sweep, provider, history>>

\* The row becomes ready, or superseded at once if a newer one is.
tryMarkImageBuildReady(w) ==
  LET b == work[w].build
      fenced == status[b] = "building" /\ HasLease(w, b)
  IN  /\ At(w, "publish")
      /\ IF fenced
         THEN /\ lease' = [lease EXCEPT ![b] = "none"] /\ lapsed' = lapsed \ {b}
              /\ status' = [status EXCEPT ![b] = IF NewerReady(b) THEN "superseded" ELSE "ready"]
              /\ work' = [work EXCEPT ![w].at = IF NewerReady(b) THEN "delete" ELSE "supersede",
                                      ![w].replaced = IF NewerReady(b) THEN {b} ELSE {}]
         ELSE /\ Goes(w, IF status[b] = "building" THEN "release" ELSE "cleanup")
              /\ UNCHANGED <<status, lease, lapsed>>
      /\ UNCHANGED <<pending, bound, accepted, op, image, trigger, jobs, sweep, provider, history>>

\* The ready builds before it are superseded, in statements of their own.
supersedeOlder(w) ==
  LET older == {c \in Builds : c < work[w].build /\ status[c] = "ready"}
  IN  /\ At(w, "supersede")
      /\ status' = [b \in Builds |-> IF b \in older THEN "superseded" ELSE status[b]]
      /\ work' = [work EXCEPT ![w].at = "delete", ![w].replaced = older]
      /\ UNCHANGED <<pending, bound, accepted, lease, lapsed, op, image, trigger, jobs, sweep,
                     provider, history>>

\* A superseded row loses the image that was deleted, and goes once it owes
\* nothing.
deleteSupersededImage(b) ==
  LET reaped == status[b] = "superseded" /\ NoSessionObligation(b)
  IN  /\ image' = IF reaped THEN image \ {b} ELSE image
      /\ status' = [status EXCEPT ![b] = IF reaped /\ b \notin op THEN "deleted" ELSE @]

\* The images this build replaced are deleted, at best.
deleteReplacedImages(w) ==
  /\ At(w, "delete")
  /\ IF work[w].replaced = {}
     THEN Goes(w, "cleanup") /\ UNCHANGED <<status, image, capture>>
     ELSE \E b \in work[w].replaced :
            /\ work' = [work EXCEPT ![w].replaced = @ \ {b}]
            /\ \/ UNCHANGED <<status, image, capture>>
               \/ /\ b \in image
                  /\ capture' = [capture EXCEPT ![b] = "deleted"]
                  /\ deleteSupersededImage(b) \/ UNCHANGED <<status, image>>
  /\ UNCHANGED <<pending, bound, accepted, lease, lapsed, op, trigger, jobs, sweep, source,
                 captures, history>>

\* The source is deleted once the row is terminal; a failure is retried.
cleanupTerminalBuild(w) ==
  LET b == work[w].build
  IN  /\ At(w, "cleanup")
      /\ IF Terminal(b) /\ b \in bound /\ pending[b] # "settled"
         THEN \/ source' = [source EXCEPT ![b] = "gone"] /\ Goes(w, "clear") /\ UNCHANGED jobs
              \/ UNCHANGED source /\ Retries(w)
         ELSE Finishes(w) /\ UNCHANGED <<source, jobs>>
      /\ UNCHANGED <<row, trigger, sweep, capture, captures, history>>

\* Mutant: the session's id goes with the session.
ForgetSession(b) ==
  IF Terminal(b) /\ b \in bound /\ pending[b] # "settled"
  THEN pending' = [pending EXCEPT ![b] = "settled"] /\ bound' = bound \ {b}
  ELSE UNCHANGED <<pending, bound>>

\* The obligation is settled.  The session's id is kept while an image or an
\* operation may need it.
clearSessionCleanup(b) ==
  IF Terminal(b) /\ b \in bound /\ pending[b] # "settled"
  THEN /\ pending' = [pending EXCEPT ![b] = "settled"]
       /\ bound' = IF b \in image \cup op THEN bound ELSE bound \ {b}
  ELSE UNCHANGED <<pending, bound>>

clearAfterCleanup(w) ==
  /\ At(w, "clear")
  /\ clearSessionCleanup(work[w].build)
  /\ Finishes(w)
  /\ UNCHANGED <<status, accepted, lease, lapsed, op, image, trigger, jobs, sweep, provider, history>>

\* The finalizer dies, or a store call of it fails: the command comes back.
finalizerFails(w) ==
  LET b == work[w].build
  IN  /\ ~At(w, "idle") /\ faults < MaxFaults
      /\ faults' = faults + 1
      /\ Retries(w)
      /\ lease' = [lease EXCEPT ![b] = IF @ = w THEN "lost" ELSE @]
      /\ UNCHANGED <<status, pending, bound, accepted, lapsed, op, image, trigger, sweep,
                     provider, age, revoked>>

LeaseExpires(b) ==
  /\ lease[b] # "none" /\ b \notin lapsed
  /\ LeaseCovers => lease[b] = "lost"
  /\ lapsed' = lapsed \cup {b}
  /\ UNCHANGED <<status, pending, bound, accepted, lease, op, image, trigger, jobs, work, sweep,
                 provider, history>>

-----------------------------------------------------------------------------
(* Maintenance: what a pass found, then what it writes.                    *)

Finds(what, b) == sweep = Resting /\ sweep' = [found |-> what, build |-> b]
Found(what, b) == sweep = [found |-> what, build |-> b] /\ sweep' = Resting

\* Mutant: an expired lease is taken for a live one.
RepublishReleased(b) ==
  /\ status[b] = "building" /\ accepted[b] = "success" /\ b \notin jobs /\ lease[b] = "none"
  /\ jobs' = jobs \cup {b}
  /\ UNCHANGED <<row, trigger, work, sweep, provider, history>>

\* An accepted build nobody works on is published again.
republishRecoverableFinalizations(b) ==
  /\ status[b] = "building" /\ accepted[b] = "success" /\ b \notin jobs
  /\ lease[b] = "none" \/ b \in lapsed
  /\ jobs' = jobs \cup {b}
  /\ UNCHANGED <<row, trigger, work, sweep, provider, history>>

markStaleBuildsAsFailed(b) ==
  /\ status[b] = "building" /\ age[b] = "old" /\ accepted[b] = "none" /\ b \notin image
  /\ lease[b] = "none"
  /\ status' = [status EXCEPT ![b] = "failed"]
  /\ UNCHANGED <<pending, bound, accepted, lease, lapsed, op, image, trigger, jobs, work, sweep,
                 provider, history>>

\* Mutant: a source that is not there was never created.
UnboundTrustsAbsence(b) ==
  /\ status[b] \in {"failed", "superseded"} /\ b \notin bound /\ pending[b] = "owed"
  /\ Finds(IF source[b] = "up" THEN "source" ELSE "no source", b)
  /\ UNCHANGED <<row, trigger, jobs, work, provider, history>>

\* A source that was never bound is looked up by its name.  Not finding it is
\* conclusive only when its lifetime is over.
recoverUnboundSource(b) ==
  /\ status[b] \in {"failed", "superseded"} /\ b \notin bound /\ pending[b] = "owed"
  /\ \/ source[b] = "up" /\ Finds("source", b)
     \/ source[b] # "up" /\ age[b] = "old" /\ Finds("no source", b)
  /\ UNCHANGED <<row, trigger, jobs, work, provider, history>>

attachRecoveredProviderSession(b) ==
  /\ Found("source", b)
  /\ IF status[b] \in {"failed", "superseded"} /\ b \notin bound
     THEN bound' = bound \cup {b} /\ pending' = [pending EXCEPT ![b] = "owed"]
     ELSE UNCHANGED <<bound, pending>>
  /\ UNCHANGED <<status, accepted, lease, lapsed, op, image, trigger, jobs, work, provider, history>>

clearUnboundSourceIntent(b) ==
  /\ Found("no source", b)
  /\ pending' = [pending EXCEPT ![b] = IF b \notin bound /\ @ = "owed" THEN "settled" ELSE @]
  /\ UNCHANGED <<status, bound, accepted, lease, lapsed, op, image, trigger, jobs, work,
                 provider, history>>

sweepSession(b) ==
  /\ Terminal(b) /\ b \in bound /\ pending[b] # "settled"
  /\ source' = [source EXCEPT ![b] = "gone"]
  /\ Finds("deleted source", b)
  /\ UNCHANGED <<row, trigger, jobs, work, capture, captures, history>>

sweptSession(b) ==
  /\ Found("deleted source", b)
  /\ clearSessionCleanup(b)
  /\ UNCHANGED <<status, accepted, lease, lapsed, op, image, trigger, jobs, work, provider, history>>

\* Mutant: a capture that is not there yet was never made.
OperationTrustsAbsence(b) ==
  /\ status[b] \in {"failed", "superseded"} /\ b \in op /\ b \notin image
  /\ IF b \in bound /\ capture[b] = "done"
     THEN capture' = [capture EXCEPT ![b] = "deleted"]
     ELSE UNCHANGED capture
  /\ Finds("settled operation", b)
  /\ UNCHANGED <<row, trigger, jobs, work, source, captures, history>>

\* The snapshot an operation left is deleted, if the row still names its
\* source; none is conclusive only when the source's lifetime is over.
reconcileUnresolvedOperation(b) ==
  /\ status[b] \in {"failed", "superseded"} /\ b \in op /\ b \notin image
  /\ \/ /\ b \in bound /\ capture[b] \in {"done", "failed"}
        /\ capture' = [capture EXCEPT ![b] = "deleted"]
     \/ capture[b] \in {"none", "deleted"} /\ age[b] = "old" /\ UNCHANGED capture
  /\ Finds("settled operation", b)
  /\ UNCHANGED <<row, trigger, jobs, work, source, captures, history>>

clearProviderOperation(b) ==
  /\ Found("settled operation", b)
  /\ op' = IF status[b] \in {"failed", "superseded"} /\ b \notin image THEN op \ {b} ELSE op
  /\ UNCHANGED <<status, pending, bound, accepted, lease, lapsed, image, trigger, jobs, work,
                 provider, history>>

\* The images of failed and of superseded rows.
reapImage(b) ==
  /\ status[b] \in {"failed", "superseded"} /\ NoSessionObligation(b)
  /\ status[b] = "failed" => b \in image
  /\ capture' = IF b \in image THEN [capture EXCEPT ![b] = "deleted"] ELSE capture
  /\ Finds(IF b \in image THEN "reaped" ELSE "bare", b)
  /\ UNCHANGED <<row, trigger, jobs, work, source, captures, history>>

\* What was reaped is cleared from the row that is still the one that was read.
clearReapedImage(b) ==
  /\ \/ /\ Found("reaped", b)
        /\ \/ /\ status[b] = "failed"
              /\ IF NoSessionObligation(b) /\ b \in image
                 THEN image' = image \ {b} /\ bound' = bound \ {b}
                 ELSE UNCHANGED <<image, bound>>
              /\ UNCHANGED status
           \/ status[b] # "failed" /\ deleteSupersededImage(b) /\ UNCHANGED bound
     \/ /\ Found("bare", b) /\ UNCHANGED <<image, bound>>
        /\ status' = [status EXCEPT ![b] =
             IF @ = "superseded" /\ NoSessionObligation(b) /\ b \notin image \cup op
             THEN "deleted" ELSE @]
  /\ UNCHANGED <<pending, accepted, lease, lapsed, op, trigger, jobs, work, provider, history>>

deleteOldFailedBuilds(b) ==
  /\ status[b] = "failed" /\ age[b] = "old"
  /\ NoSessionObligation(b) /\ b \notin image \cup op
  /\ status' = [status EXCEPT ![b] = "deleted"]
  /\ UNCHANGED <<pending, bound, accepted, lease, lapsed, op, image, trigger, jobs, work, sweep,
                 provider, history>>

sweepDies ==
  /\ sweep # Resting /\ faults < MaxFaults
  /\ sweep' = Resting /\ faults' = faults + 1
  /\ UNCHANGED <<row, trigger, jobs, work, provider, age, revoked>>

-----------------------------------------------------------------------------
(* Spawns, settings, the provider and time.                                *)

\* A session could not be started from the image.
markRestoreFailed(b) ==
  /\ status[b] = "ready"
  /\ status' = [status EXCEPT ![b] = "failed"]
  /\ UNCHANGED <<pending, bound, accepted, lease, lapsed, op, image, trigger, jobs, work, sweep,
                 provider, history>>

\* A secret of the scope has changed.
supersedeActiveImages ==
  /\ \E b \in Builds : status[b] \in {"building", "ready"}
  /\ status' = [b \in Builds |-> IF status[b] \in {"building", "ready"}
                                 THEN "superseded" ELSE status[b]]
  /\ revoked' = {b \in Builds : status[b] # "none"}
  /\ UNCHANGED <<pending, bound, accepted, lease, lapsed, op, image, trigger, jobs, work, sweep,
                 provider, age, faults>>

ProviderCreates(b) ==
  /\ source[b] = "requested"
  /\ \E outcome \in {"up", "none"} : source' = [source EXCEPT ![b] = outcome]
  /\ UNCHANGED <<row, trigger, jobs, work, sweep, capture, captures, history>>

ProviderCaptures(b) ==
  /\ capture[b] = "running"
  /\ \E outcome \in {"done", "failed"} : capture' = [capture EXCEPT ![b] = outcome]
  /\ UNCHANGED <<row, trigger, jobs, work, sweep, source, captures, history>>

DeadlinePasses(b) ==
  /\ Registered(b) /\ age[b] = "young"
  /\ age' = [age EXCEPT ![b] = "late"]
  /\ UNCHANGED <<row, trigger, jobs, work, sweep, provider, revoked, faults>>

\* A row's age limit covers its source's lifetime: nothing more comes of it.
GrowsOld(b) ==
  /\ Registered(b) /\ age[b] = "late"
  /\ age' = [age EXCEPT ![b] = "old"]
  /\ source' = [source EXCEPT ![b] = IF @ = "none" THEN "none" ELSE "gone"]
  /\ capture' = [capture EXCEPT ![b] = IF @ = "running" THEN "failed" ELSE @]
  /\ UNCHANGED <<row, trigger, jobs, work, sweep, captures, revoked, faults>>

-----------------------------------------------------------------------------
Init ==
  /\ status = [b \in Builds |-> "none"]
  /\ pending = [b \in Builds |-> "null"]
  /\ bound = {} /\ lapsed = {} /\ op = {} /\ image = {} /\ jobs = {}
  /\ accepted = [b \in Builds |-> "none"]
  /\ lease = [b \in Builds |-> "none"]
  /\ trigger = [b \in Builds |-> "none"]
  /\ work = [w \in Workers |-> Idle]
  /\ sweep = Resting
  /\ source = [b \in Builds |-> "none"]
  /\ capture = [b \in Builds |-> "none"]
  /\ captures = [b \in Builds |-> 0]
  /\ age = [b \in Builds |-> "young"]
  /\ revoked = {} /\ faults = 0

Trigger(b) ==
  \/ markSourceCreateIntent(b) \/ startBuild(b) \/ createAnswers(b)
  \/ bindProviderSession(b) \/ launched(b) \/ markBuildFailed(b) \/ cleanupTrigger(b)

Callback(b) ==
  acceptSuccessfulCompletion(b) \/ acceptFailedCompletion(b) \/ replayCompletion(b)

Finalize(w) ==
  \/ \E b \in Builds : getBuild(w, b)
  \/ claimLease(w) \/ reserveProviderOperation(w) \/ captureBuildSnapshot(w)
  \/ awaitCapturedSnapshot(w) \/ recordArtifact(w)
  \/ compensateUnrecordedArtifact(w) \/ quarantineArtifact(w)
  \/ clearLease(w) \/ markFailed(w)
  \/ tryMarkImageBuildReady(w) \/ supersedeOlder(w) \/ deleteReplacedImages(w)
  \/ cleanupTerminalBuild(w) \/ clearAfterCleanup(w)

SweepStarts(b) ==
  recoverUnboundSource(b) \/ sweepSession(b) \/ reconcileUnresolvedOperation(b) \/ reapImage(b)

SweepEnds(b) ==
  \/ attachRecoveredProviderSession(b) \/ clearUnboundSourceIntent(b) \/ sweptSession(b)
  \/ clearProviderOperation(b) \/ clearReapedImage(b)

Maintain(b) ==
  \/ republishRecoverableFinalizations(b) \/ markStaleBuildsAsFailed(b)
  \/ SweepStarts(b) \/ SweepEnds(b) \/ deleteOldFailedBuilds(b)

Environment(b) ==
  \/ markRestoreFailed(b) \/ ProviderCreates(b) \/ ProviderCaptures(b)
  \/ LeaseExpires(b) \/ DeadlinePasses(b) \/ GrowsOld(b)

Next ==
  \/ \E b \in Builds :
       \/ registerBuild(b) \/ Trigger(b) \/ triggerDies(b)
       \/ Callback(b) \/ Maintain(b) \/ Environment(b)
  \/ \E w \in Workers : Finalize(w) \/ finalizerFails(w)
  \/ sweepDies \/ supersedeActiveImages

Spec == Init /\ [][Next]_vars

\* Requests and deliveries run to their end, the cron runs, the provider ends
\* what it began and time passes.
Fairness ==
  /\ \A b \in Builds :
       /\ WF_vars(Trigger(b))
       /\ WF_vars(republishRecoverableFinalizations(b)) /\ WF_vars(markStaleBuildsAsFailed(b))
       /\ SF_vars(recoverUnboundSource(b)) /\ SF_vars(sweepSession(b))
       /\ SF_vars(reconcileUnresolvedOperation(b)) /\ SF_vars(reapImage(b))
       /\ WF_vars(SweepEnds(b))
       /\ WF_vars(ProviderCreates(b)) /\ WF_vars(ProviderCaptures(b))
       /\ WF_vars(LeaseExpires(b)) /\ WF_vars(DeadlinePasses(b)) /\ WF_vars(GrowsOld(b))
  /\ \A w \in Workers : WF_vars(Finalize(w))

FairSpec == Spec /\ Fairness

-----------------------------------------------------------------------------
RowTypes ==
  /\ status \in [Builds -> {"none", "building", "ready", "failed", "superseded", "deleted"}]
  /\ pending \in [Builds -> {"null", "owed", "settled"}]
  /\ accepted \in [Builds -> {"none", "success", "failure"}]
  /\ lease \in [Builds -> Workers \cup {"none", "lost"}]
  /\ bound \subseteq Builds /\ lapsed \subseteq Builds /\ op \subseteq Builds /\ image \subseteq Builds

Places == {"idle", "claim", "submit", "capture", "await", "record", "compensate", "quarantine",
           "release", "poll", "fail", "publish", "supersede", "delete", "cleanup", "clear"}

Attempts ==
  {a \in [at : Places, build : 0..MaxBuilds, unknown : BOOLEAN, replaced : SUBSET Builds] :
     a.at = "idle" <=> a.build = 0}

Findings ==
  [found : {"nothing", "source", "no source", "deleted source", "settled operation", "reaped", "bare"},
   build : 0..MaxBuilds]

ActorTypes ==
  /\ trigger \in [Builds -> {"none", "registered", "intended", "requested", "created",
                             "launched", "failing", "lost", "cleaning", "over"}]
  /\ work \in [Workers -> Attempts]
  /\ sweep \in Findings
  /\ jobs \subseteq Builds

ProviderTypes ==
  /\ source \in [Builds -> {"none", "requested", "up", "gone"}]
  /\ capture \in [Builds -> {"none", "running", "done", "failed", "deleted"}]
  /\ captures \in [Builds -> Nat]
  /\ age \in [Builds -> {"young", "late", "old"}]
  /\ revoked \subseteq Builds /\ faults \in 0..MaxFaults

\* The type of every variable.
TypeOK == RowTypes /\ ActorTypes /\ ProviderTypes

\* A snapshot that exists, or still may, is named by its row, as its image or
\* its operation: no attempt, crash, supersede or sweep drops the only record.
NoArtifactLost ==
  \A b \in Builds : capture[b] \in {"running", "done"} => Registered(b) /\ b \in op \cup image

\* A sandbox that exists, or still may, is owed by its row, whatever became of
\* the request that created it.
NoSourceLost ==
  \A b \in Builds : source[b] \in {"requested", "up"} => Registered(b) /\ pending[b] = "owed"

\* Sessions are started only from images that have not been deleted.
ReadyImageExists == \A b \in Builds : status[b] = "ready" => b \in image /\ capture[b] = "done"

\* However often a build's command is delivered, one capture is requested.
OneCapturePerBuild == \A b \in Builds : captures[b] <= 1

\* A build that began before a secret changed never becomes an image to start
\* from, however late its completion.
NoRevokedImage == \A b \in revoked : status[b] # "ready"

\* Two builds of a scope never run at once.
OneBuildAtATime == \A b, c \in Builds : status[b] = "building" /\ status[c] = "building" => b = c

\* A build that was accepted is settled.
AcceptedIsSettled ==
  \A b \in Builds : status[b] = "building" /\ accepted[b] # "none" ~> status[b] # "building"

\* What a build that did not end ready has made is reclaimed.
DebtsAreSettled ==
  \A b \in Builds :
    status[b] \in {"failed", "superseded"}
      ~> source[b] \notin {"requested", "up"} /\ capture[b] \notin {"running", "done"}
=============================================================================
