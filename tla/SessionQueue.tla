---------------------------- MODULE SessionQueue ----------------------------
(***************************************************************************)
(* The prompt queue of one session: admission, dispatch, stop, completion, *)
(* cancellation and recovery, as the session's single-threaded actor runs  *)
(* them.  The actor interleaves its handlers at every await, so each       *)
(* handler in flight is a worker whose record says where it is suspended.  *)
(* One action is one synchronous turn: everything between two awaits.      *)
(*                                                                         *)
(* Messages are numbered in insertion order, which is the order the queue  *)
(* reads them in (created_at, rowid).  Time is abstract: a deadline may be *)
(* found expired whenever it is read.                                      *)
(***************************************************************************)
EXTENDS Naturals, FiniteSets

CONSTANTS
  MaxMessages,      \* bound: prompts ever admitted
  MaxUnfinished,    \* MAX_UNFINISHED_PROMPTS
  MaxSockets,       \* bound: bridge connections told apart at one time
  MaxGenerations,   \* bound: sandbox generations told apart at one time
  Workers,          \* bound: handlers in flight at once
  UserCancels       \* whether users cancel queued prompts one at a time

ASSUME BoundsAssumption ==
  /\ MaxMessages \in Nat /\ MaxUnfinished \in Nat
  /\ MaxSockets \in Nat /\ MaxGenerations \in Nat
  /\ UserCancels \in BOOLEAN

VARIABLES
  session,          \* status of the session row
  budgetExhausted,  \* budget_exhausted of the session row
  message,          \* status of each message row; "removed" is a deleted row
  lastFinished,     \* the latest terminal message, 0 when there is none
  awaitingStop,     \* messages with a stop_confirmation_deadline
  row,              \* command availability of the sandbox row's status
  generation,       \* identity of the sandbox generation, 0 before the first
  socket,           \* the authoritative bridge connection, 0 when there is none
  hold,             \* why the lifecycle manager refuses queued work
  running,          \* prompts the runtime is executing
  outbox,           \* completions the runtime keeps until they are acknowledged
  dispatched,       \* history: prompts ever written to a bridge
  worker            \* the handlers in flight

sessionVars == <<session, budgetExhausted>>
queueVars   == <<message, lastFinished, awaitingStop>>
sandboxVars == <<row, generation, socket, hold>>
runtimeVars == <<running, outbox, dispatched>>
vars == <<sessionVars, queueVars, sandboxVars, runtimeVars, worker>>

Ids == 1..MaxMessages
Promptable == {"created", "active", "completed", "failed"}
Closed == {"archived", "cancelled"}

Holding(status) == {m \in Ids : message[m] = status}
Pending == Holding("pending")
Processing == Holding("processing")
UnfinishedOf(messages) == {m \in Ids : messages[m] \in {"pending", "processing"}}
Unfinished == UnfinishedOf(message)

MayDispatch == hold = "none"

Target ==
  CASE socket = 0 \/ row \in {"none", "dead"} -> "unavailable"
    [] socket # 0 /\ row = "booting"          -> "booting"
    [] socket # 0 /\ row = "ready"            -> "dispatch"

(***************************************************************************)
(* Workers.  `after` is where a nested call returns to, `event` the        *)
(* runtime event whose handler this is.                                    *)
(***************************************************************************)
Steps == {"idle", "pump", "auth", "mcp", "stop", "terminating", "settle",
          "snapshot", "cancelSandbox", "timeouts", "watchdog", "captured",
          "terminated", "bootFailed", "failBootPrompt"}
AlarmSteps == {"timeouts", "watchdog", "captured", "terminated", "bootFailed",
               "failBootPrompt"}

Suspended(step, after, event) ==
  [pc |-> step, msg |-> 0, seen |-> 0, ok |-> FALSE, after |-> after, event |-> event]
Idle == Suspended("idle", "return", 0)

Goto(w, step) == worker' = [worker EXCEPT ![w] = Suspended(step, @.after, @.event)]
Start(w, step) == worker[w].pc = "idle" /\ Goto(w, step)

\* A runtime event is acknowledged when its handler returns; the
\* acknowledgement needs a bridge and may be lost on the way.
Acknowledge(w) ==
  LET e == worker[w].event IN
  \/ UNCHANGED outbox
  \/ /\ worker[w].after = "return" /\ e # 0 /\ socket # 0
     /\ outbox' = [outbox EXCEPT ![e] = "none"]

Return(w) ==
  worker' = [worker EXCEPT ![w] =
               IF @.after = "return" THEN Idle
               ELSE Suspended(@.after, "return", @.event)]

\* The end of a handler, or of a call nested in one.
Continue(w) ==
  /\ Return(w) /\ Acknowledge(w)
  /\ UNCHANGED <<running, dispatched>>

(***************************************************************************)
(* What several handlers do.                                               *)
(***************************************************************************)
Finish(messages, S, outcome) ==
  /\ message' = [m \in Ids |-> IF m \in S THEN outcome ELSE messages[m]]
  /\ \/ S = {} /\ UNCHANGED lastFinished
     \/ \E m \in S : (\A n \in S : n <= m) /\ lastFinished' = m

IdleStatus(messages, last) == IF last = 0 THEN "created" ELSE messages[last]

FromMessages(messages, last) ==
  IF UnfinishedOf(messages) # {} THEN "active" ELSE IdleStatus(messages, last)

reconcileAfterExecution(success) ==
  session' = IF session \in Closed THEN session
             ELSE IF UnfinishedOf(message') # {} THEN "active"
             ELSE IF success THEN "completed" ELSE "failed"

reconcileFromMessageState ==
  session' = IF session \in Closed THEN session
             ELSE FromMessages(message', lastFinished')

failMessages(S) == Finish(message, S, "failed") /\ reconcileAfterExecution(FALSE)

\* Nothing is heard again from a generation whose row is dead.
LoseSandbox ==
  /\ row' = "dead" /\ socket' = 0
  /\ running' = {} /\ outbox' = [m \in Ids |-> "none"]
  /\ UNCHANGED <<generation, dispatched>>

\* A ready sandbox is captured: the shutdown owns it, fails what it was
\* running and, once captured, leaves the queue paused until the user recovers
\* the session.
requestShutdownEmergency(messages) ==
  /\ Finish(messages, {m \in Ids : messages[m] = "processing"}, "failed")
  /\ reconcileFromMessageState
  /\ LoseSandbox /\ hold' = "capturing"

\* Mutant: a termination leaves the fence in place.
KeepFence == UNCHANGED awaitingStop

releaseFence ==
  \/ \E m \in awaitingStop : awaitingStop' = awaitingStop \ {m}
  \/ awaitingStop = {} /\ UNCHANGED awaitingStop

\* terminateUnresponsiveSandbox, then resumeAfterSandboxTermination: in the same
\* turn when there is nothing to terminate or a save already holds the sandbox.
terminateAndResume(w, after, messages) ==
  \/ /\ hold # "none" \/ row \in {"none", "dead"}
     /\ message' = messages
     /\ releaseFence
     /\ worker' = [worker EXCEPT ![w] = Suspended("pump", after, @.event)]
     /\ UNCHANGED <<session, lastFinished, sandboxVars, runtimeVars>>
  \/ /\ hold = "none" /\ row \in {"booting", "ready"}
     /\ \/ /\ row = "booting" /\ message' = messages
           /\ LoseSandbox
           /\ UNCHANGED <<session, lastFinished, hold>>
        \/ row = "ready" /\ requestShutdownEmergency(messages)
     /\ worker' = [worker EXCEPT ![w] =
                     [Suspended("terminating", after, @.event) EXCEPT !.ok = (row = "ready")]]
     /\ UNCHANGED awaitingStop

\* The synchronous half of a stop: fail the prompt, raise the fence, send the
\* stop.  ok records that it was written to a bridge and its deadline armed.
stopProcessing(w, m) ==
  /\ failMessages({m})
  /\ awaitingStop' = awaitingStop \cup {m}
  /\ \E sent \in BOOLEAN :
       /\ sent => socket # 0
       /\ worker' = [worker EXCEPT ![w].pc = "stop", ![w].msg = m, ![w].ok = sent]

\* A new identity differs from every one a suspended handler still holds; the
\* smallest such number stands for it, so that identities can be reused.
Fresh(current, max) ==
  LET free == 1..max \ ({current} \cup {worker[w].seen : w \in Workers})
  IN {i \in free : \A j \in free : i <= j}

\* A launch replaces a dead sandbox; the prompt it was running fails.
reserveStartup ==
  /\ row \in {"none", "dead"} /\ hold = "none"
  /\ row' = "booting" /\ generation' \in Fresh(generation, MaxGenerations)
  /\ UNCHANGED <<socket, hold>>
  /\ Finish(message, Processing, "failed")
  /\ IF Processing = {} THEN UNCHANGED session ELSE reconcileFromMessageState

-----------------------------------------------------------------------------
(***************************************************************************)
(* Requests.                                                               *)
(***************************************************************************)

\* A prompt or a piece of review feedback is admitted: the checks, the insert
\* and the move to active are one turn; the queue is pumped after it.
Enqueue(w) ==
  /\ session \in Promptable /\ ~budgetExhausted
  /\ Cardinality(Unfinished) < MaxUnfinished
  /\ \E m \in Holding("absent") :
       /\ \A n \in Holding("absent") : m <= n
       /\ message' = [message EXCEPT ![m] = "pending"]
  /\ session' = "active"
  /\ Start(w, "pump")
  /\ UNCHANGED <<budgetExhausted, lastFinished, awaitingStop, sandboxVars, runtimeVars>>

\* A repeated request, or a lifecycle notification, that only pumps.
Nudge(w) ==
  /\ Start(w, "pump")
  /\ UNCHANGED <<sessionVars, queueVars, sandboxVars, runtimeVars>>

\* Repeated feedback whose message is still pending re-projects active first.
redrivePendingAutofix(w) ==
  /\ Pending # {} /\ session \notin Closed
  /\ session' = "active"
  /\ Start(w, "pump")
  /\ UNCHANGED <<budgetExhausted, queueVars, sandboxVars, runtimeVars>>

cancelQueuedPrompt ==
  /\ UserCancels
  /\ \E m \in Pending : message' = [message EXCEPT ![m] = "removed"]
  /\ session' = IF session \in Closed \/ UnfinishedOf(message') # {} THEN session
                ELSE IdleStatus(message', lastFinished)
  /\ UNCHANGED <<budgetExhausted, lastFinished, awaitingStop, sandboxVars, runtimeVars, worker>>

Stop(w) ==
  /\ worker[w].pc = "idle"
  /\ \E m \in Processing : stopProcessing(w, m)
  /\ UNCHANGED <<budgetExhausted, sandboxVars, runtimeVars>>

\* The session closes and every unfinished message fails in one turn.
cancelSession(w) ==
  /\ session \in {"created", "active"}
  /\ session' = "cancelled"
  /\ Finish(message, Unfinished, "failed")
  /\ Start(w, "cancelSandbox")
  /\ UNCHANGED <<budgetExhausted, awaitingStop, sandboxVars, runtimeVars>>

\* The sandbox follows once the cancellation has been projected.
cancelSandbox(w) ==
  /\ worker[w].pc = "cancelSandbox"
  /\ worker' = [worker EXCEPT ![w] = Idle]
  /\ IF row \in {"none", "dead"} THEN UNCHANGED <<sandboxVars, runtimeVars>>
     ELSE LoseSandbox /\ UNCHANGED hold
  /\ UNCHANGED <<sessionVars, queueVars>>

\* Preservation may retire the sandbox in the same turn.
archive ==
  /\ session # "cancelled" /\ Unfinished = {}
  /\ session' = "archived"
  /\ \/ UNCHANGED <<sandboxVars, runtimeVars>>
     \/ row = "ready" /\ hold = "none" /\ LoseSandbox /\ UNCHANGED hold
  /\ UNCHANGED <<budgetExhausted, queueVars, worker>>

unarchive ==
  /\ session = "archived"
  /\ session' = FromMessages(message, lastFinished)
  /\ UNCHANGED <<budgetExhausted, queueVars, sandboxVars, runtimeVars, worker>>

expireDraft ==
  /\ session = "created"
  /\ session' = IF \A m \in Ids : message[m] \in {"absent", "removed"} THEN "archived"
                ELSE FromMessages(message, lastFinished)
  /\ UNCHANGED <<budgetExhausted, queueVars, sandboxVars, runtimeVars, worker>>

\* A cost report or a lower limit exhausts the budget and stops what runs.
exhaustBudget(w) ==
  /\ ~budgetExhausted /\ budgetExhausted' = TRUE
  /\ worker[w].pc = "idle"
  /\ \/ \E m \in Processing : stopProcessing(w, m)
     \/ Processing = {} /\ UNCHANGED <<session, queueVars, worker>>
  /\ UNCHANGED <<sandboxVars, runtimeVars>>

raiseBudget(w) ==
  /\ budgetExhausted /\ budgetExhausted' = FALSE
  /\ Start(w, "pump")
  /\ UNCHANGED <<session, queueVars, sandboxVars, runtimeVars>>

-----------------------------------------------------------------------------
(***************************************************************************)
(* processMessageQueue.                                                    *)
(***************************************************************************)

\* Mutant: the pump does not read the stop fence.
PickUnderFence(w) ==
  /\ worker[w].pc = "pump"
  /\ MayDispatch /\ session \in Promptable /\ ~budgetExhausted
  /\ Processing = {}
  /\ \E m \in Pending :
       /\ \A n \in Pending : m <= n
       /\ worker' = [worker EXCEPT ![w].pc = "auth", ![w].msg = m]
  /\ UNCHANGED <<sessionVars, queueVars, sandboxVars, runtimeVars>>

\* Mutant: the queue is not read in insertion order.
PickAnyMessage(w) ==
  /\ worker[w].pc = "pump"
  /\ MayDispatch /\ session \in Promptable /\ awaitingStop = {} /\ ~budgetExhausted
  /\ Processing = {}
  /\ \E m \in Pending : worker' = [worker EXCEPT ![w].pc = "auth", ![w].msg = m]
  /\ UNCHANGED <<sessionVars, queueVars, sandboxVars, runtimeVars>>

\* Mutant: a prompt is picked while another one is processing.
PickWhileProcessing(w) ==
  /\ worker[w].pc = "pump"
  /\ MayDispatch /\ session \in Promptable /\ awaitingStop = {} /\ ~budgetExhausted
  /\ \E m \in Pending :
       /\ \A n \in Pending : m <= n
       /\ worker' = [worker EXCEPT ![w].pc = "auth", ![w].msg = m]
  /\ UNCHANGED <<sessionVars, queueVars, sandboxVars, runtimeVars>>

\* Up to the credential lookup: pick the oldest pending message.
PickMessage(w) ==
  /\ worker[w].pc = "pump"
  /\ MayDispatch /\ session \in Promptable /\ awaitingStop = {} /\ ~budgetExhausted
  /\ Processing = {}
  /\ \E m \in Pending :
       /\ \A n \in Pending : m <= n
       /\ worker' = [worker EXCEPT ![w].pc = "auth", ![w].msg = m]
  /\ UNCHANGED <<sessionVars, queueVars, sandboxVars, runtimeVars>>

\* The early returns, an unexpired stop fence among them.
NothingToDispatch(w) ==
  /\ worker[w].pc = "pump"
  /\ \/ ~MayDispatch \/ session \in Closed \/ awaitingStop # {} \/ budgetExhausted
     \/ Processing # {} \/ Pending = {}
  /\ Continue(w)
  /\ UNCHANGED <<sessionVars, queueVars, sandboxVars>>

\* An expired fence takes the sandbox down before it is released.
FenceExpired(w) ==
  /\ worker[w].pc = "pump"
  /\ MayDispatch /\ session \in Promptable /\ awaitingStop # {}
  /\ terminateAndResume(w, worker[w].after, message)
  /\ UNCHANGED budgetExhausted

\* The dispatch gates are read again after the lookup.
DispatchClosed(w) ==
  /\ worker[w].pc = "auth"
  /\ ~MayDispatch \/ budgetExhausted \/ Target = "booting"
  /\ Continue(w)
  /\ UNCHANGED <<sessionVars, queueVars, sandboxVars>>

NoCredentials(w) ==
  /\ worker[w].pc = "auth" /\ MayDispatch /\ ~budgetExhausted
  /\ LET m == worker[w].msg IN
     \/ /\ message[m] = "pending"
        /\ failMessages({m})
        /\ Goto(w, "pump")
        /\ UNCHANGED runtimeVars
     \/ /\ message[m] # "pending"
        /\ Continue(w)
        /\ UNCHANGED <<session, message, lastFinished>>
  /\ UNCHANGED <<budgetExhausted, awaitingStop, sandboxVars>>

\* Without a sandbox the prompt stays pending and a launch is requested; the
\* launch may be refused (cool-down, circuit breaker).
NoSandbox(w) ==
  /\ worker[w].pc = "auth" /\ MayDispatch /\ ~budgetExhausted /\ Target = "unavailable"
  /\ \/ /\ session \in Promptable /\ message[worker[w].msg] = "pending"
        /\ reserveStartup \/ UNCHANGED <<session, message, lastFinished, sandboxVars>>
        /\ Continue(w)
     \/ /\ session \in Closed \/ message[worker[w].msg] # "pending"
        /\ Goto(w, "pump")
        /\ UNCHANGED <<session, message, lastFinished, sandboxVars, runtimeVars>>
  /\ UNCHANGED <<budgetExhausted, awaitingStop>>

\* Mutant: a claim of a prompt that another handler claimed succeeds too.
ClaimAgain(w) ==
  /\ worker[w].pc = "auth" /\ MayDispatch /\ ~budgetExhausted /\ Target = "dispatch"
  /\ LET m == worker[w].msg IN
     \/ /\ message[m] \in {"pending", "processing"}
        /\ message' = [message EXCEPT ![m] = "processing"]
        /\ worker' = [worker EXCEPT ![w].pc = "mcp", ![w].seen = socket]
        /\ UNCHANGED runtimeVars
     \/ /\ message[m] \notin {"pending", "processing"}
        /\ Continue(w)
        /\ UNCHANGED message
  /\ UNCHANGED <<sessionVars, lastFinished, awaitingStop, sandboxVars>>

\* Mutant: the claim does not read the status of the prompt.
ClaimUnconditionally(w) ==
  /\ worker[w].pc = "auth" /\ MayDispatch /\ ~budgetExhausted /\ Target = "dispatch"
  /\ Processing = {}
  /\ message' = [message EXCEPT ![worker[w].msg] = "processing"]
  /\ worker' = [worker EXCEPT ![w].pc = "mcp", ![w].seen = socket]
  /\ UNCHANGED <<sessionVars, lastFinished, awaitingStop, sandboxVars, runtimeVars>>

\* Mutant: the budget is not read again after the credential lookup.
ClaimOverBudget(w) ==
  /\ worker[w].pc = "auth" /\ MayDispatch /\ Target = "dispatch"
  /\ message[worker[w].msg] = "pending" /\ Processing = {}
  /\ message' = [message EXCEPT ![worker[w].msg] = "processing"]
  /\ worker' = [worker EXCEPT ![w].pc = "mcp", ![w].seen = socket]
  /\ UNCHANGED <<sessionVars, lastFinished, awaitingStop, sandboxVars, runtimeVars>>

startMessageProcessing(w) ==
  /\ worker[w].pc = "auth" /\ MayDispatch /\ ~budgetExhausted /\ Target = "dispatch"
  /\ LET m == worker[w].msg IN
     \/ /\ message[m] = "pending" /\ Processing = {}
        /\ message' = [message EXCEPT ![m] = "processing"]
        /\ worker' = [worker EXCEPT ![w].pc = "mcp", ![w].seen = socket]
        /\ UNCHANGED runtimeVars
     \/ /\ message[m] # "pending" \/ Processing # {}
        /\ Continue(w)
        /\ UNCHANGED message
  /\ UNCHANGED <<sessionVars, lastFinished, awaitingStop, sandboxVars>>

ClaimIsLost(w) ==
  /\ worker[w].pc = "mcp" /\ message[worker[w].msg] # "processing"
  /\ Continue(w)
  /\ UNCHANGED <<sessionVars, queueVars, sandboxVars>>

\* The tool context, the bridge or the lifecycle changed under preparation
\* (the first may be found at any time): the unsent claim goes back.
RetryUnsentClaim(w) ==
  /\ worker[w].pc = "mcp" /\ message[worker[w].msg] = "processing"
  /\ message' = [message EXCEPT ![worker[w].msg] = "pending"]
  /\ Goto(w, "pump")
  /\ UNCHANGED <<sessionVars, lastFinished, awaitingStop, sandboxVars, runtimeVars>>

McpUnavailable(w) ==
  /\ worker[w].pc = "mcp" /\ message[worker[w].msg] = "processing"
  /\ failMessages({worker[w].msg})
  /\ Goto(w, "pump")
  /\ UNCHANGED <<budgetExhausted, awaitingStop, sandboxVars, runtimeVars>>

ReadyToSend(w) ==
  /\ worker[w].pc = "mcp" /\ message[worker[w].msg] = "processing"
  /\ MayDispatch /\ Target = "dispatch" /\ socket = worker[w].seen

\* The prompt is written to the bridge; a half-open one loses it.
SendPrompt(w) ==
  LET m == worker[w].msg IN
  /\ ReadyToSend(w)
  /\ running' \in {running, running \cup {m}}
  /\ dispatched' = dispatched \cup {m}
  /\ Return(w) /\ Acknowledge(w)
  /\ UNCHANGED <<sessionVars, queueVars, sandboxVars>>

SendFails(w) ==
  /\ ReadyToSend(w)
  /\ terminateAndResume(w, worker[w].after, [message EXCEPT ![worker[w].msg] = "pending"])
  /\ UNCHANGED budgetExhausted

-----------------------------------------------------------------------------
(***************************************************************************)
(* After a stop.                                                           *)
(***************************************************************************)

StopDelivered(w) ==
  /\ worker[w].pc = "stop"
  /\ worker[w].ok \/ worker[w].msg \notin awaitingStop
  /\ Continue(w)
  /\ UNCHANGED <<sessionVars, queueVars, sandboxVars>>

StopNotDelivered(w) ==
  /\ worker[w].pc = "stop" /\ ~worker[w].ok /\ worker[w].msg \in awaitingStop
  /\ terminateAndResume(w, worker[w].after, message)
  /\ UNCHANGED budgetExhausted

resumeAfterSandboxTermination(w) ==
  /\ \/ worker[w].pc = "terminating"
     \/ worker[w].pc = "terminated" /\ worker[w].seen = generation /\ Processing = {}
  /\ hold' = IF worker[w].ok THEN "paused" ELSE hold
  /\ releaseFence
  /\ Goto(w, "pump")
  /\ UNCHANGED <<sessionVars, message, lastFinished, row, generation, socket, runtimeVars>>

-----------------------------------------------------------------------------
(***************************************************************************)
(* Runtime events.                                                         *)
(***************************************************************************)

\* The runtime keeps the terminal event until it is acknowledged.
RuntimeCompletes ==
  /\ \E m \in running :
       /\ running' = running \ {m}
       /\ outbox' = [outbox EXCEPT ![m] = "unsent"]
  /\ UNCHANGED <<sessionVars, queueVars, sandboxVars, dispatched, worker>>

\* execution_complete: completion, or release of the stop fence, and final
\* cost commit together.  A late event's cost may stop another prompt.
handleExecutionComplete(w) ==
  /\ worker[w].pc = "idle" /\ socket # 0
  /\ \E m \in Ids :
       /\ outbox[m] = "unsent"
       /\ outbox' = [outbox EXCEPT ![m] = "sent"]
       /\ \/ /\ message[m] = "processing"
             /\ \E success, exhausts \in BOOLEAN :
                  /\ Finish(message, {m}, IF success THEN "completed" ELSE "failed")
                  /\ budgetExhausted' = (budgetExhausted \/ exhausts)
                  /\ worker' = [worker EXCEPT ![w] =
                                  [Suspended("settle", "return", m) EXCEPT !.ok = success]]
             /\ UNCHANGED <<session, awaitingStop>>
          \/ /\ message[m] # "processing"
             /\ awaitingStop' = awaitingStop \ {m}
             /\ worker' = [worker EXCEPT ![w] = Suspended("snapshot", "return", m)]
             /\ UNCHANGED <<sessionVars, message, lastFinished>>
          \/ /\ message[m] # "processing"
             /\ ~budgetExhausted /\ budgetExhausted' = TRUE
             /\ \E p \in Processing, sent \in BOOLEAN :
                  /\ failMessages({p})
                  /\ awaitingStop' = (awaitingStop \ {m}) \cup {p}
                  /\ worker' = [worker EXCEPT ![w] =
                       [pc |-> "stop", msg |-> p, seen |-> 0, ok |-> sent,
                        after |-> "snapshot", event |-> m]]
          \/ /\ message[m] # "processing"
             /\ Processing = {} /\ ~budgetExhausted /\ budgetExhausted' = TRUE
             /\ awaitingStop' = awaitingStop \ {m}
             /\ worker' = [worker EXCEPT ![w] = Suspended("snapshot", "return", m)]
             /\ UNCHANGED <<session, message, lastFinished>>
  /\ UNCHANGED <<sandboxVars, running, dispatched>>

\* Mutant: the outcome is written whatever is still queued.
SettleOverWork(w) ==
  /\ worker[w].pc = "settle"
  /\ session' = IF session \in Closed THEN session
                ELSE IF worker[w].ok THEN "completed" ELSE "failed"
  /\ Goto(w, "snapshot")
  /\ UNCHANGED <<budgetExhausted, queueVars, sandboxVars, runtimeVars>>

\* The status follows the projection of the terminal message.
SettleCompletion(w) ==
  /\ worker[w].pc = "settle"
  /\ session' = IF session \in Closed THEN session
                ELSE IF Unfinished # {} THEN "active"
                ELSE IF worker[w].ok THEN "completed" ELSE "failed"
  /\ Goto(w, "snapshot")
  /\ UNCHANGED <<budgetExhausted, queueVars, sandboxVars, runtimeVars>>

\* A checkpoint of a ready sandbox holds dispatch until it ends.
triggerSnapshot(w) ==
  /\ worker[w].pc = "snapshot"
  /\ \/ UNCHANGED hold
     \/ hold = "none" /\ row = "ready" /\ hold' = "checkpoint"
  /\ Goto(w, "pump")
  /\ UNCHANGED <<sessionVars, queueVars, row, generation, socket, runtimeVars>>

-----------------------------------------------------------------------------
(***************************************************************************)
(* The sandbox.                                                            *)
(***************************************************************************)

endCheckpoint(w) ==
  /\ hold = "checkpoint" /\ hold' = "none"
  /\ Start(w, "pump")
  /\ UNCHANGED <<sessionVars, queueVars, row, generation, socket, runtimeVars>>

\* The user recovers a session whose queue a shutdown paused.
recover(w) ==
  /\ hold = "paused" /\ hold' = "none"
  /\ Start(w, "pump")
  /\ UNCHANGED <<sessionVars, queueVars, row, generation, socket, runtimeVars>>

\* Typing warms a sandbox before there is a prompt.
warm ==
  /\ reserveStartup
  /\ UNCHANGED <<budgetExhausted, awaitingStop, runtimeVars, worker>>

\* A bridge (re)connects; the runtime sends its unacknowledged events again.
attach(w) ==
  /\ row \in {"booting", "ready"}
  /\ socket' \in Fresh(socket, MaxSockets)
  /\ outbox' = [m \in Ids |-> IF outbox[m] = "sent" THEN "unsent" ELSE outbox[m]]
  /\ IF row = "ready" THEN Start(w, "pump") ELSE UNCHANGED worker
  /\ UNCHANGED <<sessionVars, queueVars, row, generation, hold, running, dispatched>>

disconnect ==
  /\ socket # 0 /\ socket' = 0
  /\ UNCHANGED <<sessionVars, queueVars, row, generation, hold, runtimeVars, worker>>

handleReady(w) ==
  /\ row = "booting" /\ socket # 0 /\ hold = "none"
  /\ row' = "ready"
  /\ Start(w, "pump")
  /\ UNCHANGED <<sessionVars, queueVars, generation, socket, hold, runtimeVars>>

-----------------------------------------------------------------------------
(***************************************************************************)
(* The alarm: one delivery at a time.                                      *)
(***************************************************************************)

AlarmRuns == \E w \in Workers : worker[w].pc \in AlarmSteps \/ worker[w].after \in AlarmSteps

alarm(w) ==
  /\ ~AlarmRuns /\ hold = "none"
  /\ Start(w, "timeouts")
  /\ UNCHANGED <<sessionVars, queueVars, sandboxVars, runtimeVars>>

recoverStopConfirmationTimeout(w) ==
  /\ ~AlarmRuns /\ hold = "none" /\ awaitingStop # {} /\ worker[w].pc = "idle"
  /\ terminateAndResume(w, "timeouts", message)
  /\ UNCHANGED budgetExhausted

\* A prompt past its execution timeout fails; nothing is sent to the sandbox.
executionTimeout(w) ==
  /\ worker[w].pc = "timeouts"
  /\ \/ UNCHANGED <<session, message, lastFinished>>
     \/ Processing # {} /\ failMessages(Processing)
  /\ Goto(w, "watchdog")
  /\ UNCHANGED <<budgetExhausted, awaitingStop, sandboxVars, runtimeVars>>

\* Mutant: the alarm does not kick an idle queue.
LeaveIdleQueue(w) == Return(w)

redriveIdleQueue(w) ==
  IF row = "ready" /\ hold = "none" THEN Goto(w, "pump") ELSE Return(w)

\* The watchdogs find nothing: an idle queue of a ready sandbox is pumped.
watchdogNoAction(w) ==
  /\ worker[w].pc = "watchdog"
  /\ redriveIdleQueue(w)
  /\ UNCHANGED <<sessionVars, queueVars, sandboxVars, runtimeVars>>

\* A silent ready sandbox that shuts down through a capture.
watchdogCapture(w) ==
  /\ worker[w].pc = "watchdog" /\ hold = "none" /\ row = "ready"
  /\ requestShutdownEmergency(message)
  /\ Goto(w, "captured")
  /\ UNCHANGED <<budgetExhausted, awaitingStop>>

watchdogCaptured(w) ==
  /\ worker[w].pc = "captured"
  /\ hold' = "paused"
  /\ Return(w)
  /\ UNCHANGED <<sessionVars, queueVars, row, generation, socket, runtimeVars>>

\* Any other silent sandbox is marked and stopped at the provider; a boot that
\* gave up for good also fails the prompt it was for.
watchdogTerminate(w) ==
  /\ worker[w].pc = "watchdog" /\ hold = "none" /\ row \in {"booting", "ready"}
  /\ LoseSandbox
  /\ \E head \in 0..MaxMessages :
       /\ IF Pending = {} THEN head = 0
          ELSE head \in Pending /\ \A m \in Pending : head <= m
       /\ \E step \in {"terminated"} \cup (IF row = "booting" THEN {"bootFailed"} ELSE {}) :
            worker' = [worker EXCEPT ![w].pc = step, ![w].msg = head, ![w].seen = generation]
  /\ UNCHANGED <<sessionVars, queueVars, hold>>

\* A generation replaced while its provider stop was awaited is left alone.
watchdogSuperseded(w) ==
  /\ worker[w].pc = "terminated" /\ worker[w].seen # generation
  /\ redriveIdleQueue(w)
  /\ UNCHANGED <<sessionVars, queueVars, sandboxVars, runtimeVars>>

failStuckAfterTermination(w) ==
  /\ \/ worker[w].pc = "bootFailed"
     \/ worker[w].pc = "terminated" /\ worker[w].seen = generation
  /\ Processing # {} /\ failMessages(Processing)
  /\ worker' = [worker EXCEPT ![w].seen = 0,
       ![w].pc = IF @ = "terminated" THEN "terminating" ELSE "failBootPrompt"]
  /\ UNCHANGED <<budgetExhausted, awaitingStop, sandboxVars, runtimeVars>>

\* Mutant: the boot's prompt fails without reading whether it is still queued.
FailBootPromptBlindly(w) ==
  /\ worker[w].pc = "failBootPrompt" \/ (worker[w].pc = "bootFailed" /\ Processing = {})
  /\ IF worker[w].msg # 0 THEN failMessages({worker[w].msg})
     ELSE UNCHANGED <<session, message, lastFinished>>
  /\ Return(w)
  /\ UNCHANGED <<budgetExhausted, awaitingStop, sandboxVars, runtimeVars>>

failPendingMessage(w) ==
  /\ worker[w].pc = "failBootPrompt" \/ (worker[w].pc = "bootFailed" /\ Processing = {})
  /\ IF worker[w].msg \in Pending THEN failMessages({worker[w].msg})
     ELSE UNCHANGED <<session, message, lastFinished>>
  /\ Return(w)
  /\ UNCHANGED <<budgetExhausted, awaitingStop, sandboxVars, runtimeVars>>

-----------------------------------------------------------------------------
Init ==
  /\ session = "created" /\ budgetExhausted = FALSE
  /\ message = [m \in Ids |-> "absent"]
  /\ lastFinished = 0 /\ awaitingStop = {}
  /\ row = "none" /\ generation = 0 /\ socket = 0 /\ hold = "none"
  /\ running = {} /\ outbox = [m \in Ids |-> "none"] /\ dispatched = {}
  /\ worker = [w \in Workers |-> Idle]

Request(w) ==
  \/ Enqueue(w) \/ Nudge(w) \/ redrivePendingAutofix(w) \/ Stop(w)
  \/ cancelSession(w) \/ cancelSandbox(w) \/ exhaustBudget(w) \/ raiseBudget(w)

processMessageQueue(w) ==
  \/ PickMessage(w) \/ NothingToDispatch(w) \/ FenceExpired(w)
  \/ DispatchClosed(w) \/ NoCredentials(w) \/ NoSandbox(w) \/ startMessageProcessing(w)
  \/ ClaimIsLost(w) \/ RetryUnsentClaim(w) \/ McpUnavailable(w)
  \/ SendPrompt(w) \/ SendFails(w)

StopCoordinator(w) ==
  StopDelivered(w) \/ StopNotDelivered(w) \/ resumeAfterSandboxTermination(w)

RuntimeEvent(w) ==
  \/ handleExecutionComplete(w) \/ SettleCompletion(w) \/ triggerSnapshot(w)
  \/ endCheckpoint(w) \/ recover(w) \/ attach(w) \/ handleReady(w)

AlarmHandler(w) ==
  \/ alarm(w) \/ recoverStopConfirmationTimeout(w) \/ executionTimeout(w)
  \/ watchdogNoAction(w) \/ watchdogCapture(w) \/ watchdogCaptured(w)
  \/ watchdogTerminate(w) \/ watchdogSuperseded(w)
  \/ failStuckAfterTermination(w) \/ failPendingMessage(w)

Environment ==
  \/ cancelQueuedPrompt \/ archive \/ unarchive \/ expireDraft
  \/ RuntimeCompletes \/ warm \/ disconnect

Next ==
  \/ Environment
  \/ \E w \in Workers :
       Request(w) \/ processMessageQueue(w) \/ StopCoordinator(w)
         \/ RuntimeEvent(w) \/ AlarmHandler(w)

Spec == Init /\ [][Next]_vars

\* Handlers in flight run on; the persisted alarm is delivered again and again,
\* so an expired deadline is eventually read; a provider answers a capture; the
\* runtime finishes what it runs and repeats what is not acknowledged.
Progress(w) ==
  /\ worker[w].pc # "idle"
  /\ \/ Request(w) \/ processMessageQueue(w) \/ StopCoordinator(w)
     \/ RuntimeEvent(w) \/ AlarmHandler(w)
  /\ worker'[w] # worker[w]

Fairness ==
  /\ \A w \in Workers : WF_vars(Progress(w))
  /\ SF_vars(\E w \in Workers : alarm(w))
  /\ SF_vars(\E w \in Workers : recoverStopConfirmationTimeout(w))
  /\ SF_vars(\E w \in Workers : executionTimeout(w) /\ message' # message)
  /\ SF_vars(\E w \in Workers : endCheckpoint(w))
  /\ SF_vars(\E w \in Workers : SendPrompt(w))
  /\ SF_vars(\E w \in Workers : handleExecutionComplete(w))
  /\ WF_vars(RuntimeCompletes)

FairSpec == Spec /\ Fairness

-----------------------------------------------------------------------------
MessageStatuses == {"absent", "pending", "processing", "completed", "failed", "removed"}
Terminal == {"completed", "failed"}
Finished == Terminal \cup {"removed"}
WorkerRecords ==
  [pc : Steps, msg : 0..MaxMessages, seen : Nat, ok : BOOLEAN,
   after : {"return", "snapshot", "timeouts"}, event : 0..MaxMessages]

\* The type of every variable.
TypeOK ==
  /\ session \in Promptable \cup Closed /\ budgetExhausted \in BOOLEAN
  /\ message \in [Ids -> MessageStatuses]
  /\ lastFinished \in 0..MaxMessages /\ awaitingStop \subseteq Ids
  /\ row \in {"none", "booting", "ready", "dead"}
  /\ generation \in 0..MaxGenerations /\ socket \in 0..MaxSockets
  /\ hold \in {"none", "checkpoint", "capturing", "paused"}
  /\ running \subseteq Ids /\ dispatched \subseteq Ids
  /\ outbox \in [Ids -> {"none", "unsent", "sent"}]
  /\ worker \in [Workers -> WorkerRecords]

\* No prompt is claimed while the sandbox still owes the confirmation of a
\* stop: the claim itself does not read the fence, it relies on the pump having
\* read it before the credential lookup.
NoClaimUnderStopFence == Processing # {} => awaitingStop = {}

\* Prompts reach the sandbox in the order they were admitted, across handlers
\* that picked the same one, retries of unsent claims and failures.
InOrder ==
  \A m \in Processing : \A n \in Ids : n < m => message[n] \in Finished

\* A prompt is written to a bridge at most once: once written it is never
\* pending again, nor held by a handler that has yet to write it.
SentAtMostOnce ==
  \A m \in dispatched :
    /\ message[m] \in {"processing"} \cup Terminal
    /\ \A w \in Workers : ~(worker[w].pc = "mcp" /\ worker[w].msg = m /\ message[m] = "processing")

\* Handlers that picked a prompt before a credential lookup still hold the
\* head of the queue after it, whatever was claimed, stopped or withdrawn
\* meanwhile; that is all the claim has to go by.
PickIsStillHead ==
  \A w \in Workers : worker[w].pc = "auth" =>
    /\ worker[w].msg \in Ids /\ message[worker[w].msg] # "absent"
    /\ \A n \in Ids : n < worker[w].msg => message[n] \in Finished
    /\ message[worker[w].msg] = "pending" => awaitingStop = {}

\* An unsent claim has one handler to send it or give it back.
OneOwnerPerClaim ==
  LET owners == {w \in Workers : worker[w].pc = "mcp"} IN
  /\ \A w \in owners :
       worker[w].msg \in Ids /\ message[worker[w].msg] \in {"processing"} \cup Terminal
  /\ \A v, w \in owners :
       worker[v].msg = worker[w].msg /\ message[worker[w].msg] = "processing" => v = w

\* At most one stop is outstanding, and it is of a failed prompt: the
\* repository reads the fence with LIMIT 1.
OneStopFence ==
  /\ Cardinality(awaitingStop) <= 1
  /\ \A m \in awaitingStop : message[m] = "failed"

\* An exhausted budget leaves nothing running as far as the queue knows.
ExhaustedRunsNothing == budgetExhausted => Processing = {}

\* A cancelled or archived session holds no unfinished prompt.
ClosedHasNoWork == session \in Closed => Unfinished = {}

\* An unfinished prompt keeps the session active, so no sweep of drafts or
\* archive of finished sessions can strand it.
WorkKeepsSessionActive == Unfinished # {} => session = "active"

\* A finished prompt keeps its outcome; late and repeated completions, stop
\* timeouts and cancellations settle it only once.
OutcomesAreFinal ==
  [][\A m \in Ids : message[m] \in Finished => message'[m] = message[m]]_message

\* The life of a prompt as its author sees it: begun once written to a bridge.
Life(m) ==
  CASE message[m] = "absent" -> "new"
    [] message[m] = "pending" -> "queued"
    [] message[m] = "processing" -> IF m \in dispatched THEN "begun" ELSE "queued"
    [] OTHER -> "done"

Promise == INSTANCE PromptQueue WITH prompt <- [m \in Ids |-> Life(m)]

\* The queue implements what PromptQueue promises.
KeepsPromise == Promise!Spec

\* A stop fence is released, unless a save holds the sandbox for the user.
FenceIsReleased == awaitingStop # {} ~> awaitingStop = {} \/ hold = "paused"

\* With a sandbox that stays ready, no queued prompt waits forever: the alarm
\* repeats the kick that a lost claim or an abandoned boot left out.
ServingDrainsQueue ==
  <>[](Target = "dispatch" /\ MayDispatch /\ ~budgetExhausted)
    => \A m \in Ids : [](message[m] = "pending" => <>(message[m] # "pending"))
=============================================================================
