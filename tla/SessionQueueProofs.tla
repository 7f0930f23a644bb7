------------------------- MODULE SessionQueueProofs -------------------------
(***************************************************************************)
(* Proofs about SessionQueue for every number of prompts, handlers,        *)
(* connections and sandboxes.                                              *)
(***************************************************************************)
EXTENDS SessionQueue, FiniteSetTheorems, TLAPS

-----------------------------------------------------------------------------
(***************************************************************************)
(* The parts of the type invariant, and what it needs to be inductive: the *)
(* status an idle session is given is that of its latest finished prompt.  *)
(***************************************************************************)
MessageType == message \in [Ids -> MessageStatuses]
LastType == lastFinished \in 0..MaxMessages
SessionType == session \in Promptable \cup Closed /\ budgetExhausted \in BOOLEAN
SandboxType ==
  /\ row \in {"none", "booting", "ready", "dead"}
  /\ generation \in 0..MaxGenerations /\ socket \in 0..MaxSockets
  /\ hold \in {"none", "checkpoint", "capturing", "paused"}
RuntimeType ==
  /\ running \subseteq Ids /\ dispatched \subseteq Ids
  /\ outbox \in [Ids -> {"none", "unsent", "sent"}]
WorkerType == worker \in [Workers -> WorkerRecords]

LastFinishedIsTerminal == lastFinished # 0 => message[lastFinished] \in Terminal

\* A handler on its way to a bridge holds a prompt.
HandlersHoldPrompts ==
  \A w \in Workers : worker[w].pc \in {"auth", "mcp"} => worker[w].msg \in Ids

TypeInv == TypeOK /\ LastFinishedIsTerminal /\ HandlersHoldPrompts

\* The type invariant is the conjunction of its parts.
LEMMA TypeParts ==
  TypeOK <=> /\ MessageType /\ LastType /\ SessionType /\ awaitingStop \subseteq Ids
             /\ SandboxType /\ RuntimeType /\ WorkerType
BY DEF TypeOK, MessageType, LastType, SessionType, SandboxType, RuntimeType, WorkerType

(***************************************************************************)
(* What nearly every step has in common: prompts only finish, no handler   *)
(* comes to hold a prompt, nothing is written to a bridge, and only a      *)
(* prompt that was running is put under the stop fence.                    *)
(***************************************************************************)
MessagesSettle ==
  \A m \in Ids :
    \/ message'[m] = message[m]
    \/ message[m] = "pending" /\ message'[m] \in Finished
    \/ message[m] = "processing" /\ message'[m] \in Terminal

HandlersKeep ==
  \A v \in Workers : worker'[v].pc \in {"auth", "mcp"} => worker'[v] = worker[v]

FenceFollowsStop ==
  \A m \in awaitingStop' \ awaitingStop :
    m \in Ids /\ message[m] = "processing" /\ message'[m] = "failed"

Settles == MessagesSettle /\ HandlersKeep /\ FenceFollowsStop /\ dispatched' = dispatched

-----------------------------------------------------------------------------
\* The record of a handler that is suspended.
LEMMA SuspendedType ==
  ASSUME NEW step \in Steps, NEW after \in {"return", "snapshot", "timeouts"},
         NEW event \in 0..MaxMessages
  PROVE /\ Suspended(step, after, event) \in WorkerRecords
        /\ Suspended(step, after, event).pc = step
BY BoundsAssumption DEF Suspended, WorkerRecords

LEMMA IdleType == Idle \in WorkerRecords /\ Idle.pc = "idle"
BY SuspendedType, BoundsAssumption DEF Idle, Steps

LEMMA SetOkType ==
  ASSUME NEW r \in WorkerRecords, NEW b \in BOOLEAN
  PROVE [r EXCEPT !.ok = b] \in WorkerRecords /\ [r EXCEPT !.ok = b].pc = r.pc
BY DEF WorkerRecords

\* Replacing one handler's record.
LEMMA ReplaceHandler ==
  ASSUME WorkerType, NEW w \in Workers, NEW r \in WorkerRecords,
         r.pc \notin {"auth", "mcp"}, worker' = [worker EXCEPT ![w] = r]
  PROVE WorkerType' /\ HandlersKeep
BY DEF WorkerType, HandlersKeep

LEMMA GotoKeeps ==
  ASSUME WorkerType, NEW w \in Workers, NEW step \in Steps,
         step \notin {"auth", "mcp"}, Goto(w, step)
  PROVE WorkerType' /\ HandlersKeep
<1>1. worker[w].after \in {"return", "snapshot", "timeouts"} /\ worker[w].event \in 0..MaxMessages
  BY DEF WorkerType, WorkerRecords
<1> QED
  BY <1>1, SuspendedType, ReplaceHandler DEF Goto

LEMMA ReturnKeeps ==
  ASSUME WorkerType, NEW w \in Workers, Return(w)
  PROVE WorkerType' /\ HandlersKeep
<1>1. worker[w].after \in {"return", "snapshot", "timeouts"} /\ worker[w].event \in 0..MaxMessages
  BY DEF WorkerType, WorkerRecords
<1>2. CASE worker[w].after = "return"
  BY <1>2, IdleType, ReplaceHandler DEF Return
<1>3. CASE worker[w].after # "return"
  <2>1. worker' = [worker EXCEPT ![w] = Suspended(worker[w].after, "return", worker[w].event)]
    BY <1>3 DEF Return
  <2>2. worker[w].after \in {"snapshot", "timeouts"}
    BY <1>1, <1>3
  <2>3. /\ Suspended(worker[w].after, "return", worker[w].event) \in WorkerRecords
        /\ Suspended(worker[w].after, "return", worker[w].event).pc = worker[w].after
    BY <1>1, <2>2, SuspendedType DEF Steps
  <2> QED
    BY <2>1, <2>2, <2>3, ReplaceHandler
<1> QED
  BY <1>2, <1>3

LEMMA AcknowledgeType ==
  ASSUME RuntimeType, NEW w \in Workers, Acknowledge(w)
  PROVE outbox' \in [Ids -> {"none", "unsent", "sent"}]
BY DEF RuntimeType, Acknowledge

LEMMA ContinueKeeps ==
  ASSUME WorkerType, RuntimeType, NEW w \in Workers, Continue(w)
  PROVE WorkerType' /\ HandlersKeep /\ RuntimeType' /\ dispatched' = dispatched
<1>1. outbox' \in [Ids -> {"none", "unsent", "sent"}]
  BY AcknowledgeType DEF Continue
<1> QED
  BY <1>1, ReturnKeeps DEF Continue, RuntimeType
-----------------------------------------------------------------------------
(***************************************************************************)
(* What the shared operations keep.                                        *)
(***************************************************************************)
QueueType == MessageType /\ LastType /\ LastFinishedIsTerminal

\* Finishing part of the unfinished prompts.
LEMMA FinishKeeps ==
  ASSUME NEW messages \in [Ids -> MessageStatuses], LastType,
         lastFinished # 0 => messages[lastFinished] \in Terminal,
         NEW S, S \subseteq Ids, NEW outcome \in Terminal,
         Finish(messages, S, outcome)
  PROVE /\ QueueType'
        /\ \A m \in Ids : message'[m] = IF m \in S THEN outcome ELSE messages[m]
<1>1. \A m \in Ids : message'[m] = IF m \in S THEN outcome ELSE messages[m]
  BY DEF Finish
<1>2. MessageType'
  BY DEF Finish, MessageType, MessageStatuses, Terminal
<1>3. LastType' /\ LastFinishedIsTerminal'
  <2>1. CASE S = {} /\ UNCHANGED lastFinished
    BY <1>1, <2>1, BoundsAssumption DEF LastType, LastFinishedIsTerminal, Ids
  <2>2. CASE \E m \in S : lastFinished' = m
    BY <1>1, <2>2, BoundsAssumption DEF LastType, LastFinishedIsTerminal, Ids
  <2> QED
    BY <2>1, <2>2 DEF Finish
<1> QED
  BY <1>1, <1>2, <1>3 DEF QueueType

LEMMA IdleStatusType ==
  ASSUME NEW messages \in [Ids -> MessageStatuses], NEW last \in 0..MaxMessages,
         last # 0 => messages[last] \in Terminal
  PROVE IdleStatus(messages, last) \in Promptable /\ FromMessages(messages, last) \in Promptable
BY DEF IdleStatus, FromMessages, Promptable, Terminal

LEMMA ReconcileKeeps ==
  ASSUME SessionType, QueueType', budgetExhausted' \in BOOLEAN, reconcileFromMessageState
  PROVE SessionType'
<1>1. FromMessages(message', lastFinished') \in Promptable
  BY IdleStatusType DEF QueueType, MessageType, LastType, LastFinishedIsTerminal
<1> QED
  BY <1>1 DEF reconcileFromMessageState, SessionType

LEMMA FailMessagesKeeps ==
  ASSUME QueueType, SessionType, NEW S, S \subseteq Unfinished, failMessages(S)
  PROVE /\ QueueType' /\ MessagesSettle
        /\ session' \in Promptable \cup Closed
        /\ \A m \in Ids : message'[m] = IF m \in S THEN "failed" ELSE message[m]
<1>1. S \subseteq Ids /\ \A m \in S : message[m] \in {"pending", "processing"}
  BY DEF Unfinished, UnfinishedOf
<1>2. /\ QueueType'
      /\ \A m \in Ids : message'[m] = IF m \in S THEN "failed" ELSE message[m]
  BY <1>1, FinishKeeps DEF failMessages, QueueType, MessageType, LastFinishedIsTerminal, Terminal
<1>3. MessagesSettle
  BY <1>1, <1>2 DEF MessagesSettle, Terminal, Finished
<1>4. session' \in Promptable \cup Closed
  BY DEF failMessages, reconcileAfterExecution, SessionType, Promptable
<1> QED
  BY <1>2, <1>3, <1>4

LEMMA LoseSandboxKeeps ==
  ASSUME SandboxType, RuntimeType, LoseSandbox,
         hold' \in {"none", "checkpoint", "capturing", "paused"}
  PROVE SandboxType' /\ RuntimeType' /\ dispatched' = dispatched
BY BoundsAssumption DEF LoseSandbox, SandboxType, RuntimeType

LEMMA ReleaseFenceKeeps ==
  ASSUME releaseFence
  PROVE awaitingStop' \subseteq awaitingStop
BY DEF releaseFence

LEMMA ShutdownKeeps ==
  ASSUME NEW messages \in [Ids -> MessageStatuses], LastType,
         lastFinished # 0 => messages[lastFinished] \in Terminal,
         SessionType, budgetExhausted' \in BOOLEAN, SandboxType, RuntimeType,
         requestShutdownEmergency(messages)
  PROVE /\ QueueType' /\ SessionType' /\ SandboxType' /\ RuntimeType'
        /\ dispatched' = dispatched
        /\ \A m \in Ids :
             message'[m] = IF messages[m] = "processing" THEN "failed" ELSE messages[m]
<1> DEFINE S == {m \in Ids : messages[m] = "processing"}
<1>1. Finish(messages, S, "failed") /\ reconcileFromMessageState /\ LoseSandbox /\ hold' = "capturing"
  BY DEF requestShutdownEmergency
<1>2. S \subseteq Ids /\ "failed" \in Terminal
  BY DEF Terminal
<1>3. \A m \in Ids : m \in S <=> messages[m] = "processing"
  OBVIOUS
<1> HIDE DEF S
<1>4. QueueType' /\ \A m \in Ids : message'[m] = IF m \in S THEN "failed" ELSE messages[m]
  BY <1>1, <1>2, FinishKeeps
<1>5. SessionType'
  BY <1>1, <1>4, ReconcileKeeps
<1>6. SandboxType' /\ RuntimeType' /\ dispatched' = dispatched
  BY <1>1, LoseSandboxKeeps
<1> QED
  BY <1>3, <1>4, <1>5, <1>6
LEMMA TerminateKeeps ==
  ASSUME NEW messages \in [Ids -> MessageStatuses], LastType,
         lastFinished # 0 => messages[lastFinished] \in Terminal,
         SessionType, UNCHANGED budgetExhausted, SandboxType, RuntimeType, WorkerType,
         awaitingStop \subseteq Ids,
         NEW w \in Workers, NEW after \in {"return", "timeouts", "snapshot"},
         terminateAndResume(w, after, messages)
  PROVE /\ QueueType' /\ SessionType' /\ SandboxType' /\ RuntimeType' /\ WorkerType'
        /\ HandlersKeep /\ awaitingStop' \subseteq awaitingStop /\ dispatched' = dispatched
        /\ worker'[w].pc \notin {"auth", "mcp"}
        /\ \/ message' = messages
           \/ \A m \in Ids :
                message'[m] = IF messages[m] = "processing" THEN "failed" ELSE messages[m]
<1>1. worker[w].event \in 0..MaxMessages
  BY DEF WorkerType, WorkerRecords
<1> DEFINE pump == Suspended("pump", after, worker[w].event)
           wait == [Suspended("terminating", after, worker[w].event) EXCEPT !.ok = (row = "ready")]
<1>2. pump \in WorkerRecords /\ pump.pc = "pump"
  BY <1>1, SuspendedType DEF Steps
<1>3. wait \in WorkerRecords /\ wait.pc = "terminating"
  <2>1. /\ Suspended("terminating", after, worker[w].event) \in WorkerRecords
        /\ Suspended("terminating", after, worker[w].event).pc = "terminating"
    BY <1>1, SuspendedType DEF Steps
  <2>2. (row = "ready") \in BOOLEAN
    OBVIOUS
  <2> QED
    BY <2>1, <2>2, SetOkType
<1>4. CASE /\ message' = messages
           /\ releaseFence
           /\ worker' = [worker EXCEPT ![w] = pump]
           /\ UNCHANGED <<session, lastFinished, sandboxVars, runtimeVars>>
  <2> HIDE DEF pump, wait
  <2>1. WorkerType' /\ HandlersKeep /\ worker'[w].pc \notin {"auth", "mcp"}
    BY <1>2, <1>4, ReplaceHandler DEF WorkerType
  <2>2. QueueType' /\ SessionType'
    BY <1>4 DEF QueueType, MessageType, LastType, LastFinishedIsTerminal, SessionType
  <2>3. SandboxType' /\ RuntimeType' /\ dispatched' = dispatched
    BY <1>4 DEF SandboxType, RuntimeType, sandboxVars, runtimeVars
  <2> QED
    BY <1>4, <2>1, <2>2, <2>3, ReleaseFenceKeeps
<1>5. CASE /\ \/ /\ row = "booting" /\ message' = messages
                 /\ LoseSandbox
                 /\ UNCHANGED <<session, lastFinished, hold>>
              \/ row = "ready" /\ requestShutdownEmergency(messages)
           /\ worker' = [worker EXCEPT ![w] = wait]
           /\ UNCHANGED awaitingStop
  <2> HIDE DEF pump, wait
  <2>1. WorkerType' /\ HandlersKeep /\ worker'[w].pc \notin {"auth", "mcp"}
    BY <1>3, <1>5, ReplaceHandler DEF WorkerType
  <2>2. CASE /\ row = "booting" /\ message' = messages
             /\ LoseSandbox
             /\ UNCHANGED <<session, lastFinished, hold>>
    <3>1. QueueType' /\ SessionType'
      BY <2>2 DEF QueueType, MessageType, LastType, LastFinishedIsTerminal, SessionType
    <3>2. hold' \in {"none", "checkpoint", "capturing", "paused"}
      BY <2>2 DEF SandboxType
    <3>3. SandboxType' /\ RuntimeType' /\ dispatched' = dispatched
      BY <2>2, <3>2, LoseSandboxKeeps
    <3> QED
      BY <1>5, <2>1, <2>2, <3>1, <3>3
  <2>3. CASE row = "ready" /\ requestShutdownEmergency(messages)
    <3>1. budgetExhausted' \in BOOLEAN
      BY DEF SessionType
    <3> QED
      BY <1>5, <2>1, <2>3, <3>1, ShutdownKeeps
  <2> QED
    BY <1>5, <2>2, <2>3
<1> QED
  BY <1>4, <1>5 DEF terminateAndResume

LEMMA StopProcessingKeeps ==
  ASSUME QueueType, SessionType, WorkerType, awaitingStop \subseteq Ids,
         NEW w \in Workers, NEW m \in Processing, stopProcessing(w, m)
  PROVE /\ QueueType' /\ MessagesSettle /\ FenceFollowsStop
        /\ session' \in Promptable \cup Closed
        /\ WorkerType' /\ HandlersKeep /\ awaitingStop' \subseteq Ids
        /\ \A n \in Ids : message'[n] = IF n = m THEN "failed" ELSE message[n]
<1>1. m \in Ids /\ message[m] = "processing" /\ {m} \subseteq Unfinished
  BY DEF Processing, Holding, Unfinished, UnfinishedOf
<1>2. /\ QueueType' /\ MessagesSettle
      /\ session' \in Promptable \cup Closed
      /\ \A n \in Ids : message'[n] = IF n \in {m} THEN "failed" ELSE message[n]
  BY <1>1, FailMessagesKeeps DEF stopProcessing
<1>3. WorkerType' /\ HandlersKeep
  <2>1. PICK sent \in BOOLEAN :
          worker' = [worker EXCEPT ![w].pc = "stop", ![w].msg = m, ![w].ok = sent]
    BY DEF stopProcessing
  <2>2. m \in 0..MaxMessages
    BY <1>1, BoundsAssumption DEF Ids
  <2> DEFINE r == [worker[w] EXCEPT !.pc = "stop", !.msg = m, !.ok = sent]
  <2>3. r \in WorkerRecords /\ r.pc = "stop"
    BY <2>2 DEF WorkerType, WorkerRecords, Steps
  <2>4. worker' = [worker EXCEPT ![w] = r]
    BY <2>1 DEF WorkerType
  <2> QED
    BY <2>3, <2>4, ReplaceHandler
<1> QED
  BY <1>1, <1>2, <1>3 DEF stopProcessing, FenceFollowsStop

LEMMA StartupKeeps ==
  ASSUME QueueType, SessionType, SandboxType, UNCHANGED budgetExhausted, reserveStartup
  PROVE QueueType' /\ SessionType' /\ SandboxType' /\ MessagesSettle
<1>1. \A m \in Processing : m \in Ids /\ message[m] = "processing"
  BY DEF Processing, Holding
<1>2. /\ QueueType'
      /\ \A m \in Ids : message'[m] = IF m \in Processing THEN "failed" ELSE message[m]
  BY <1>1, FinishKeeps
     DEF reserveStartup, QueueType, MessageType, LastFinishedIsTerminal, Terminal
<1>3. SessionType'
  <2>1. budgetExhausted' \in BOOLEAN
    BY DEF SessionType
  <2>2. UNCHANGED session \/ reconcileFromMessageState
    BY DEF reserveStartup
  <2> QED
    BY <1>2, <2>1, <2>2, ReconcileKeeps DEF SessionType
<1>4. SandboxType'
  <2>1. generation' \in 0..MaxGenerations
    BY BoundsAssumption DEF reserveStartup, Fresh
  <2> QED
    BY <2>1 DEF reserveStartup, SandboxType
<1>5. MessagesSettle
  BY <1>1, <1>2 DEF MessagesSettle, Terminal
<1> QED
  BY <1>2, <1>3, <1>4, <1>5
-----------------------------------------------------------------------------
(***************************************************************************)
(* The steps that settle, handler by handler.                              *)
(***************************************************************************)
LEMMA TypeInvParts ==
  TypeInv <=> /\ QueueType /\ SessionType /\ awaitingStop \subseteq Ids
              /\ SandboxType /\ RuntimeType /\ WorkerType /\ HandlersHoldPrompts
BY TypeParts DEF TypeInv, QueueType

LEMMA QueueTypeParts ==
  QueueType => /\ message \in [Ids -> MessageStatuses] /\ LastType
               /\ (lastFinished # 0 => message[lastFinished] \in Terminal)
BY DEF QueueType, MessageType, LastFinishedIsTerminal

\* A step is settled when it keeps the types and only settles.
Settled ==
  /\ QueueType' /\ SessionType' /\ awaitingStop' \subseteq Ids
  /\ SandboxType' /\ RuntimeType' /\ WorkerType'
  /\ Settles

LEMMA QueueStutters ==
  ASSUME QueueType, awaitingStop \subseteq Ids, UNCHANGED queueVars
  PROVE QueueType' /\ MessagesSettle /\ FenceFollowsStop /\ awaitingStop' \subseteq Ids
BY DEF QueueType, MessageType, LastType, LastFinishedIsTerminal, MessagesSettle,
       FenceFollowsStop, queueVars

LEMMA FenceStutters ==
  ASSUME awaitingStop \subseteq Ids, awaitingStop' \subseteq awaitingStop
  PROVE FenceFollowsStop /\ awaitingStop' \subseteq Ids
BY DEF FenceFollowsStop

LEMMA SessionStutters ==
  ASSUME SessionType, UNCHANGED sessionVars
  PROVE SessionType'
BY DEF SessionType, sessionVars

LEMMA SandboxStutters ==
  ASSUME SandboxType, UNCHANGED sandboxVars
  PROVE SandboxType'
BY DEF SandboxType, sandboxVars

LEMMA RuntimeStutters ==
  ASSUME RuntimeType, UNCHANGED runtimeVars
  PROVE RuntimeType' /\ dispatched' = dispatched
BY DEF RuntimeType, runtimeVars

LEMMA HandlersStutter ==
  ASSUME WorkerType, UNCHANGED worker
  PROVE WorkerType' /\ HandlersKeep
BY DEF WorkerType, HandlersKeep

\* Requests other than the admission of a prompt.
LEMMA RequestSettles ==
  ASSUME TypeInv, NEW w \in Workers,
         \/ Nudge(w) \/ redrivePendingAutofix(w) \/ Stop(w) \/ cancelSession(w)
         \/ cancelSandbox(w) \/ exhaustBudget(w) \/ raiseBudget(w)
  PROVE Settled
<1>0. /\ QueueType /\ SessionType /\ awaitingStop \subseteq Ids
      /\ SandboxType /\ RuntimeType /\ WorkerType
  BY TypeInvParts
<1>1. CASE Nudge(w)
  <2>1. WorkerType' /\ HandlersKeep
    BY <1>0, <1>1, GotoKeeps DEF Nudge, Start, Steps
  <2> QED
    BY <1>0, <1>1, <2>1, QueueStutters, SessionStutters, SandboxStutters, RuntimeStutters
       DEF Nudge, Settled, Settles
<1>2. CASE redrivePendingAutofix(w)
  <2>1. WorkerType' /\ HandlersKeep
    BY <1>0, <1>2, GotoKeeps DEF redrivePendingAutofix, Start, Steps
  <2>2. SessionType'
    BY <1>0, <1>2 DEF redrivePendingAutofix, SessionType, Promptable
  <2> QED
    BY <1>0, <1>2, <2>1, <2>2, QueueStutters, SandboxStutters, RuntimeStutters
       DEF redrivePendingAutofix, Settled, Settles
<1>3. CASE Stop(w)
  <2>1. PICK m \in Processing : stopProcessing(w, m)
    BY <1>3 DEF Stop
  <2>2. /\ QueueType' /\ MessagesSettle /\ FenceFollowsStop
        /\ session' \in Promptable \cup Closed
        /\ WorkerType' /\ HandlersKeep /\ awaitingStop' \subseteq Ids
    BY <1>0, <2>1, StopProcessingKeeps
  <2>3. SessionType'
    BY <1>0, <1>3, <2>2 DEF Stop, SessionType
  <2> QED
    BY <1>0, <1>3, <2>2, <2>3, SandboxStutters, RuntimeStutters DEF Stop, Settled, Settles
<1>4. CASE cancelSession(w)
  <2>1. WorkerType' /\ HandlersKeep
    BY <1>0, <1>4, GotoKeeps DEF cancelSession, Start, Steps
  <2>2. SessionType'
    BY <1>0, <1>4 DEF cancelSession, SessionType, Closed
  <2>3. Unfinished \subseteq Ids /\ "failed" \in Terminal
    BY DEF Unfinished, UnfinishedOf, Terminal
  <2>4. /\ QueueType'
        /\ \A m \in Ids : message'[m] = IF m \in Unfinished THEN "failed" ELSE message[m]
    BY <1>0, <1>4, <2>3, QueueTypeParts, FinishKeeps DEF cancelSession
  <2>5. MessagesSettle
    BY <2>4 DEF MessagesSettle, Unfinished, UnfinishedOf, Terminal, Finished
  <2>6. FenceFollowsStop /\ awaitingStop' \subseteq Ids
    BY <1>0, <1>4, FenceStutters DEF cancelSession
  <2> QED
    BY <1>0, <1>4, <2>1, <2>2, <2>4, <2>5, <2>6, SandboxStutters, RuntimeStutters
       DEF cancelSession, Settled, Settles
<1>5. CASE cancelSandbox(w)
  <2>1. WorkerType' /\ HandlersKeep
    BY <1>0, <1>5, IdleType, ReplaceHandler DEF cancelSandbox
  <2>2. SandboxType' /\ RuntimeType' /\ dispatched' = dispatched
    <3>1. CASE row \in {"none", "dead"}
      BY <1>0, <1>5, <3>1, SandboxStutters, RuntimeStutters DEF cancelSandbox
    <3>2. CASE row \notin {"none", "dead"}
      <4>1. LoseSandbox /\ hold' = hold
        BY <1>5, <3>2 DEF cancelSandbox
      <4>2. hold' \in {"none", "checkpoint", "capturing", "paused"}
        BY <1>0, <4>1 DEF SandboxType
      <4> QED
        BY <1>0, <4>1, <4>2, LoseSandboxKeeps
    <3> QED
      BY <3>1, <3>2
  <2> QED
    BY <1>0, <1>5, <2>1, <2>2, QueueStutters, SessionStutters DEF cancelSandbox, Settled, Settles
<1>6. CASE exhaustBudget(w)
  <2>1. CASE \E m \in Processing : stopProcessing(w, m)
    <3>1. PICK m \in Processing : stopProcessing(w, m)
      BY <2>1
    <3>2. /\ QueueType' /\ MessagesSettle /\ FenceFollowsStop
          /\ session' \in Promptable \cup Closed
          /\ WorkerType' /\ HandlersKeep /\ awaitingStop' \subseteq Ids
      BY <1>0, <3>1, StopProcessingKeeps
    <3>3. SessionType'
      BY <1>6, <3>2 DEF exhaustBudget, SessionType
    <3> QED
      BY <1>0, <1>6, <3>2, <3>3, SandboxStutters, RuntimeStutters
         DEF exhaustBudget, Settled, Settles
  <2>2. CASE UNCHANGED <<session, queueVars, worker>>
    <3>1. SessionType'
      BY <1>0, <1>6, <2>2 DEF exhaustBudget, SessionType
    <3> QED
      BY <1>0, <1>6, <2>2, <3>1, QueueStutters, SandboxStutters, RuntimeStutters, HandlersStutter
         DEF exhaustBudget, Settled, Settles
  <2> QED
    BY <1>6, <2>1, <2>2 DEF exhaustBudget
<1>7. CASE raiseBudget(w)
  <2>1. WorkerType' /\ HandlersKeep
    BY <1>0, <1>7, GotoKeeps DEF raiseBudget, Start, Steps
  <2>2. SessionType'
    BY <1>0, <1>7 DEF raiseBudget, SessionType
  <2> QED
    BY <1>0, <1>7, <2>1, <2>2, QueueStutters, SandboxStutters, RuntimeStutters
       DEF raiseBudget, Settled, Settles
<1> QED
  BY <1>1, <1>2, <1>3, <1>4, <1>5, <1>6, <1>7
\* A status is only that of a message that exists.
LEMMA PendingIsUnfinished ==
  ASSUME QueueType, NEW m, message[m] \in {"pending", "processing"}, m \in Ids
  PROVE {m} \subseteq Unfinished
BY DEF Unfinished, UnfinishedOf

LEMMA ProcessingIsUnfinished == Processing \subseteq Unfinished
BY DEF Processing, Holding, Unfinished, UnfinishedOf

LEMMA SettledKeepsTypes ==
  ASSUME TypeInv, Settled
  PROVE TypeInv'
<1>1. HandlersHoldPrompts'
  BY TypeInvParts DEF Settled, Settles, HandlersKeep, HandlersHoldPrompts
<1>2. QueueType' /\ SessionType' /\ (awaitingStop \subseteq Ids)'
      /\ SandboxType' /\ RuntimeType' /\ WorkerType'
  BY DEF Settled
<1> QED
  BY <1>1, <1>2, TypeInvParts, PTL

\* A termination settles when it starts from the rows as they are.
LEMMA TerminateSettles ==
  ASSUME QueueType, SessionType, UNCHANGED budgetExhausted, SandboxType, RuntimeType,
         WorkerType, awaitingStop \subseteq Ids,
         NEW w \in Workers, NEW after \in {"return", "timeouts", "snapshot"},
         terminateAndResume(w, after, message)
  PROVE Settled
<1>1. /\ message \in [Ids -> MessageStatuses] /\ LastType
      /\ (lastFinished # 0 => message[lastFinished] \in Terminal)
  BY QueueTypeParts
<1>2. /\ QueueType' /\ SessionType' /\ SandboxType' /\ RuntimeType' /\ WorkerType'
      /\ HandlersKeep /\ awaitingStop' \subseteq awaitingStop /\ dispatched' = dispatched
      /\ \/ message' = message
         \/ \A m \in Ids :
              message'[m] = IF message[m] = "processing" THEN "failed" ELSE message[m]
  BY <1>1, TerminateKeeps
<1>3. MessagesSettle
  BY <1>2 DEF MessagesSettle, Terminal
<1> QED
  BY <1>2, <1>3, FenceStutters DEF Settled, Settles

\* The pump, where it neither takes nor gives back a prompt.
LEMMA DispatchSettles ==
  ASSUME TypeInv, NEW w \in Workers,
         \/ NothingToDispatch(w) \/ FenceExpired(w) \/ DispatchClosed(w) \/ NoCredentials(w)
         \/ NoSandbox(w) \/ ClaimIsLost(w) \/ McpUnavailable(w)
  PROVE Settled
<1>0. /\ QueueType /\ SessionType /\ awaitingStop \subseteq Ids
      /\ SandboxType /\ RuntimeType /\ WorkerType /\ HandlersHoldPrompts
      /\ worker[w].after \in {"return", "snapshot", "timeouts"}
  BY TypeInvParts DEF WorkerType, WorkerRecords
<1>1. CASE NothingToDispatch(w)
  BY <1>0, <1>1, ContinueKeeps, QueueStutters, SessionStutters, SandboxStutters
     DEF NothingToDispatch, Settled, Settles
<1>2. CASE FenceExpired(w)
  <2>1. terminateAndResume(w, worker[w].after, message) /\ UNCHANGED budgetExhausted
    BY <1>2 DEF FenceExpired
  <2> QED
    BY <1>0, <2>1, TerminateSettles
<1>3. CASE DispatchClosed(w)
  BY <1>0, <1>3, ContinueKeeps, QueueStutters, SessionStutters, SandboxStutters
     DEF DispatchClosed, Settled, Settles
<1>4. CASE NoCredentials(w)
  <2>1. SandboxType' /\ FenceFollowsStop /\ awaitingStop' \subseteq Ids
    BY <1>0, <1>4, SandboxStutters, FenceStutters DEF NoCredentials
  <2>2. CASE /\ message[worker[w].msg] = "pending"
             /\ failMessages({worker[w].msg})
             /\ Goto(w, "pump")
             /\ UNCHANGED runtimeVars
    <3>1. {worker[w].msg} \subseteq Unfinished
      BY <1>0, <1>4, <2>2, PendingIsUnfinished DEF NoCredentials, HandlersHoldPrompts
    <3>2. QueueType' /\ MessagesSettle /\ SessionType'
      BY <1>0, <1>4, <2>2, <3>1, FailMessagesKeeps DEF NoCredentials, SessionType
    <3>3. WorkerType' /\ HandlersKeep
      BY <1>0, <2>2, GotoKeeps DEF Steps
    <3> QED
      BY <1>0, <2>1, <2>2, <3>2, <3>3, RuntimeStutters DEF Settled, Settles
  <2>3. CASE Continue(w) /\ UNCHANGED <<session, message, lastFinished>>
    <3>1. UNCHANGED queueVars /\ UNCHANGED sessionVars
      BY <1>4, <2>3 DEF NoCredentials, queueVars, sessionVars
    <3> QED
      BY <1>0, <2>1, <2>3, <3>1, ContinueKeeps, QueueStutters, SessionStutters
         DEF Settled, Settles
  <2> QED
    BY <1>4, <2>2, <2>3 DEF NoCredentials
<1>5. CASE NoSandbox(w)
  <2>1. FenceFollowsStop /\ awaitingStop' \subseteq Ids /\ UNCHANGED budgetExhausted
    BY <1>0, <1>5, FenceStutters DEF NoSandbox
  <2>2. CASE reserveStartup /\ Continue(w)
    BY <1>0, <2>1, <2>2, StartupKeeps, ContinueKeeps DEF Settled, Settles
  <2>3. CASE UNCHANGED <<session, message, lastFinished, sandboxVars>> /\ Continue(w)
    <3>1. UNCHANGED queueVars /\ UNCHANGED sessionVars
      BY <1>5, <2>3 DEF NoSandbox, queueVars, sessionVars
    <3> QED
      BY <1>0, <2>1, <2>3, <3>1, ContinueKeeps, QueueStutters, SessionStutters, SandboxStutters
         DEF Settled, Settles
  <2>4. CASE /\ Goto(w, "pump")
             /\ UNCHANGED <<session, message, lastFinished, sandboxVars, runtimeVars>>
    <3>1. UNCHANGED queueVars /\ UNCHANGED sessionVars
      BY <1>5, <2>4 DEF NoSandbox, queueVars, sessionVars
    <3>2. WorkerType' /\ HandlersKeep
      BY <1>0, <2>4, GotoKeeps DEF Steps
    <3> QED
      BY <1>0, <2>1, <2>4, <3>1, <3>2, QueueStutters, SessionStutters, SandboxStutters,
         RuntimeStutters DEF Settled, Settles
  <2> QED
    BY <1>5, <2>2, <2>3, <2>4 DEF NoSandbox
<1>6. CASE ClaimIsLost(w)
  BY <1>0, <1>6, ContinueKeeps, QueueStutters, SessionStutters, SandboxStutters
     DEF ClaimIsLost, Settled, Settles
<1>7. CASE McpUnavailable(w)
  <2>1. {worker[w].msg} \subseteq Unfinished
    BY <1>0, <1>7, PendingIsUnfinished DEF McpUnavailable, HandlersHoldPrompts
  <2>2. QueueType' /\ MessagesSettle /\ SessionType'
    BY <1>0, <1>7, <2>1, FailMessagesKeeps DEF McpUnavailable, SessionType
  <2>3. WorkerType' /\ HandlersKeep
    BY <1>0, <1>7, GotoKeeps DEF McpUnavailable, Steps
  <2> QED
    BY <1>0, <1>7, <2>2, <2>3, FenceStutters, SandboxStutters, RuntimeStutters
       DEF McpUnavailable, Settled, Settles
<1> QED
  BY <1>1, <1>2, <1>3, <1>4, <1>5, <1>6, <1>7

\* Stops and their confirmation.
LEMMA StopSettles ==
  ASSUME TypeInv, NEW w \in Workers, StopCoordinator(w)
  PROVE Settled
<1>0. /\ QueueType /\ SessionType /\ awaitingStop \subseteq Ids
      /\ SandboxType /\ RuntimeType /\ WorkerType
      /\ worker[w].after \in {"return", "snapshot", "timeouts"}
  BY TypeInvParts DEF WorkerType, WorkerRecords
<1>1. CASE StopDelivered(w)
  BY <1>0, <1>1, ContinueKeeps, QueueStutters, SessionStutters, SandboxStutters
     DEF StopDelivered, Settled, Settles
<1>2. CASE StopNotDelivered(w)
  <2>1. terminateAndResume(w, worker[w].after, message) /\ UNCHANGED budgetExhausted
    BY <1>2 DEF StopNotDelivered
  <2> QED
    BY <1>0, <2>1, TerminateSettles
<1>3. CASE resumeAfterSandboxTermination(w)
  <2>1. WorkerType' /\ HandlersKeep
    BY <1>0, <1>3, GotoKeeps DEF resumeAfterSandboxTermination, Steps
  <2>2. SandboxType'
    BY <1>0, <1>3 DEF resumeAfterSandboxTermination, SandboxType
  <2>3. QueueType' /\ MessagesSettle
    BY <1>0, <1>3 DEF resumeAfterSandboxTermination, QueueType, MessageType, LastType,
                      LastFinishedIsTerminal, MessagesSettle
  <2>4. FenceFollowsStop /\ awaitingStop' \subseteq Ids
    BY <1>0, <1>3, ReleaseFenceKeeps, FenceStutters DEF resumeAfterSandboxTermination
  <2> QED
    BY <1>0, <1>3, <2>1, <2>2, <2>3, <2>4, SessionStutters, RuntimeStutters
       DEF resumeAfterSandboxTermination, Settled, Settles
<1> QED
  BY <1>1, <1>2, <1>3 DEF StopCoordinator
\* Completions and what the runtime says of itself.
LEMMA CompletionSettles ==
  ASSUME TypeInv, NEW w \in Workers, handleExecutionComplete(w)
  PROVE Settled
<1>0. /\ QueueType /\ SessionType /\ awaitingStop \subseteq Ids
      /\ SandboxType /\ RuntimeType /\ WorkerType
  BY TypeInvParts
<1>1. PICK m \in Ids :
        /\ outbox' = [outbox EXCEPT ![m] = "sent"]
        /\ \/ /\ message[m] = "processing"
              /\ \E success, exhausts \in BOOLEAN :
                   /\ Finish(message, {m}, IF success THEN "completed" ELSE "failed")
                   /\ budgetExhausted' = (budgetExhausted \/ exhausts)
                   /\ worker' = [worker EXCEPT ![w] =
                                   [Suspended("settle", "return", m) EXCEPT !.ok = success]]
              /\ UNCHANGED <<session, awaitingStop>>
           \/ /\ awaitingStop' = awaitingStop \ {m}
              /\ worker' = [worker EXCEPT ![w] = Suspended("snapshot", "return", m)]
              /\ session' = session /\ budgetExhausted' \in BOOLEAN
              /\ UNCHANGED <<message, lastFinished>>
           \/ /\ message[m] # "processing"
              /\ budgetExhausted' = TRUE
              /\ \E p \in Processing, sent \in BOOLEAN :
                   /\ failMessages({p})
                   /\ awaitingStop' = (awaitingStop \ {m}) \cup {p}
                   /\ worker' = [worker EXCEPT ![w] =
                        [pc |-> "stop", msg |-> p, seen |-> 0, ok |-> sent,
                         after |-> "snapshot", event |-> m]]
  BY <1>0 DEF handleExecutionComplete, sessionVars, SessionType
<1>2. UNCHANGED sandboxVars /\ UNCHANGED running /\ UNCHANGED dispatched
  BY DEF handleExecutionComplete
<1>3. RuntimeType' /\ SandboxType' /\ dispatched' = dispatched
  BY <1>0, <1>1, <1>2, SandboxStutters DEF RuntimeType
<1>4. m \in 0..MaxMessages
  BY BoundsAssumption DEF Ids
<1>5. CASE /\ message[m] = "processing"
           /\ \E success, exhausts \in BOOLEAN :
                /\ Finish(message, {m}, IF success THEN "completed" ELSE "failed")
                /\ budgetExhausted' = (budgetExhausted \/ exhausts)
                /\ worker' = [worker EXCEPT ![w] =
                                [Suspended("settle", "return", m) EXCEPT !.ok = success]]
           /\ UNCHANGED <<session, awaitingStop>>
  <2>1. PICK success \in BOOLEAN, exhausts \in BOOLEAN :
          /\ Finish(message, {m}, IF success THEN "completed" ELSE "failed")
          /\ budgetExhausted' = (budgetExhausted \/ exhausts)
          /\ worker' = [worker EXCEPT ![w] =
                          [Suspended("settle", "return", m) EXCEPT !.ok = success]]
    BY <1>5
  <2> DEFINE outcome == IF success THEN "completed" ELSE "failed"
             r == [Suspended("settle", "return", m) EXCEPT !.ok = success]
  <2>2. outcome \in Terminal
    BY DEF Terminal
  <2>3. r \in WorkerRecords /\ r.pc = "settle"
    BY <1>4, SuspendedType, SetOkType DEF Steps
  <2> HIDE DEF outcome, r
  <2>4. WorkerType' /\ HandlersKeep
    BY <1>0, <2>1, <2>3, ReplaceHandler DEF r
  <2>5. QueueType' /\ \A n \in Ids : message'[n] = IF n \in {m} THEN outcome ELSE message[n]
    BY <1>0, <2>1, <2>2, QueueTypeParts, FinishKeeps DEF outcome
  <2>6. MessagesSettle
    BY <1>5, <2>2, <2>5 DEF MessagesSettle
  <2>7. SessionType'
    BY <1>0, <1>5, <2>1 DEF SessionType
  <2> QED
    BY <1>0, <1>3, <1>5, <2>4, <2>5, <2>6, <2>7, FenceStutters DEF Settled, Settles
<1>6. CASE /\ awaitingStop' = awaitingStop \ {m}
           /\ worker' = [worker EXCEPT ![w] = Suspended("snapshot", "return", m)]
           /\ session' = session /\ budgetExhausted' \in BOOLEAN
           /\ UNCHANGED <<message, lastFinished>>
  <2>1. WorkerType' /\ HandlersKeep
    <3>1. /\ Suspended("snapshot", "return", m) \in WorkerRecords
          /\ Suspended("snapshot", "return", m).pc = "snapshot"
      BY <1>4, SuspendedType DEF Steps
    <3> QED
      BY <1>0, <1>6, <3>1, ReplaceHandler
  <2>2. QueueType' /\ MessagesSettle /\ SessionType'
    BY <1>0, <1>6 DEF QueueType, MessageType, LastType, LastFinishedIsTerminal,
                      MessagesSettle, SessionType
  <2> QED
    BY <1>0, <1>3, <1>6, <2>1, <2>2, FenceStutters DEF Settled, Settles
<1>7. CASE /\ budgetExhausted' = TRUE
           /\ \E p \in Processing, sent \in BOOLEAN :
                /\ failMessages({p})
                /\ awaitingStop' = (awaitingStop \ {m}) \cup {p}
                /\ worker' = [worker EXCEPT ![w] =
                     [pc |-> "stop", msg |-> p, seen |-> 0, ok |-> sent,
                      after |-> "snapshot", event |-> m]]
  <2>1. PICK p \in Processing, sent \in BOOLEAN :
          /\ failMessages({p})
          /\ awaitingStop' = (awaitingStop \ {m}) \cup {p}
          /\ worker' = [worker EXCEPT ![w] =
               [pc |-> "stop", msg |-> p, seen |-> 0, ok |-> sent,
                after |-> "snapshot", event |-> m]]
    BY <1>7
  <2>2. p \in Ids /\ message[p] = "processing" /\ {p} \subseteq Unfinished
    BY DEF Processing, Holding, Unfinished, UnfinishedOf
  <2>3. /\ QueueType' /\ MessagesSettle
        /\ session' \in Promptable \cup Closed
        /\ \A n \in Ids : message'[n] = IF n \in {p} THEN "failed" ELSE message[n]
    BY <1>0, <2>1, <2>2, FailMessagesKeeps
  <2> DEFINE r == [pc |-> "stop", msg |-> p, seen |-> 0, ok |-> sent,
                   after |-> "snapshot", event |-> m]
  <2>4. r \in WorkerRecords /\ r.pc = "stop"
    BY <1>4, <2>2, BoundsAssumption DEF WorkerRecords, Steps, Ids
  <2>5. worker' = [worker EXCEPT ![w] = r]
    BY <2>1
  <2> HIDE DEF r
  <2>6. WorkerType' /\ HandlersKeep
    BY <1>0, <2>4, <2>5, ReplaceHandler
  <2>7. FenceFollowsStop /\ awaitingStop' \subseteq Ids
    BY <1>0, <2>1, <2>2, <2>3 DEF FenceFollowsStop
  <2>8. SessionType'
    BY <1>7, <2>3 DEF SessionType
  <2> QED
    BY <1>3, <2>3, <2>6, <2>7, <2>8 DEF Settled, Settles
<1> QED
  BY <1>1, <1>5, <1>6, <1>7

LEMMA RuntimeSettles ==
  ASSUME TypeInv, NEW w \in Workers, RuntimeEvent(w)
  PROVE Settled
<1>0. /\ QueueType /\ SessionType /\ awaitingStop \subseteq Ids
      /\ SandboxType /\ RuntimeType /\ WorkerType
  BY TypeInvParts
<1>1. CASE handleExecutionComplete(w)
  BY <1>1, CompletionSettles
<1>2. CASE SettleCompletion(w)
  <2>1. WorkerType' /\ HandlersKeep
    BY <1>0, <1>2, GotoKeeps DEF SettleCompletion, Steps
  <2>2. SessionType'
    BY <1>0, <1>2 DEF SettleCompletion, SessionType, Promptable
  <2> QED
    BY <1>0, <1>2, <2>1, <2>2, QueueStutters, SandboxStutters, RuntimeStutters
       DEF SettleCompletion, Settled, Settles
<1>3. CASE triggerSnapshot(w) \/ endCheckpoint(w) \/ recover(w)
  <2>1. WorkerType' /\ HandlersKeep
    BY <1>0, <1>3, GotoKeeps DEF triggerSnapshot, endCheckpoint, recover, Start, Steps
  <2>2. SandboxType'
    BY <1>0, <1>3 DEF triggerSnapshot, endCheckpoint, recover, SandboxType
  <2>3. UNCHANGED queueVars /\ UNCHANGED sessionVars /\ UNCHANGED runtimeVars
    BY <1>3 DEF triggerSnapshot, endCheckpoint, recover
  <2> QED
    BY <1>0, <2>1, <2>2, <2>3, QueueStutters, SessionStutters, RuntimeStutters
       DEF Settled, Settles
<1>4. CASE attach(w)
  <2>1. WorkerType' /\ HandlersKeep
    BY <1>0, <1>4, GotoKeeps, HandlersStutter DEF attach, Start, Steps
  <2>2. socket' \in 0..MaxSockets
    BY <1>4, BoundsAssumption DEF attach, Fresh
  <2>3. SandboxType'
    BY <1>0, <1>4, <2>2 DEF attach, SandboxType
  <2>4. RuntimeType' /\ dispatched' = dispatched
    BY <1>0, <1>4 DEF attach, RuntimeType
  <2> QED
    BY <1>0, <1>4, <2>1, <2>3, <2>4, QueueStutters, SessionStutters DEF attach, Settled, Settles
<1>5. CASE handleReady(w)
  <2>1. WorkerType' /\ HandlersKeep
    BY <1>0, <1>5, GotoKeeps DEF handleReady, Start, Steps
  <2>2. SandboxType'
    BY <1>0, <1>5 DEF handleReady, SandboxType
  <2> QED
    BY <1>0, <1>5, <2>1, <2>2, QueueStutters, SessionStutters, RuntimeStutters
       DEF handleReady, Settled, Settles
<1> QED
  BY <1>1, <1>2, <1>3, <1>4, <1>5 DEF RuntimeEvent

\* The alarm's timeouts and watchdogs.
LEMMA AlarmSettles ==
  ASSUME TypeInv, NEW w \in Workers, AlarmHandler(w)
  PROVE Settled
<1>0. /\ QueueType /\ SessionType /\ awaitingStop \subseteq Ids
      /\ SandboxType /\ RuntimeType /\ WorkerType
  BY TypeInvParts
<1>1. CASE alarm(w)
  <2>1. WorkerType' /\ HandlersKeep
    BY <1>0, <1>1, GotoKeeps DEF alarm, Start, Steps
  <2> QED
    BY <1>0, <1>1, <2>1, QueueStutters, SessionStutters, SandboxStutters, RuntimeStutters
       DEF alarm, Settled, Settles
<1>2. CASE recoverStopConfirmationTimeout(w)
  BY <1>0, <1>2, TerminateSettles DEF recoverStopConfirmationTimeout
<1>3. CASE executionTimeout(w)
  <2>1. WorkerType' /\ HandlersKeep
    BY <1>0, <1>3, GotoKeeps DEF executionTimeout, Steps
  <2>2. QueueType' /\ MessagesSettle /\ SessionType'
    <3>1. CASE UNCHANGED <<session, message, lastFinished>>
      BY <1>0, <1>3, <3>1 DEF executionTimeout, QueueType, MessageType, LastType,
           LastFinishedIsTerminal, MessagesSettle, SessionType
    <3>2. CASE failMessages(Processing)
      BY <1>0, <1>3, <3>2, ProcessingIsUnfinished, FailMessagesKeeps
         DEF executionTimeout, SessionType
    <3> QED
      BY <1>3, <3>1, <3>2 DEF executionTimeout
  <2> QED
    BY <1>0, <1>3, <2>1, <2>2, FenceStutters, SandboxStutters, RuntimeStutters
       DEF executionTimeout, Settled, Settles
<1>4. CASE watchdogNoAction(w) \/ watchdogSuperseded(w)
  <2>1. redriveIdleQueue(w)
    BY <1>4 DEF watchdogNoAction, watchdogSuperseded
  <2>2. WorkerType' /\ HandlersKeep
    BY <1>0, <2>1, GotoKeeps, ReturnKeeps DEF redriveIdleQueue, Steps
  <2> QED
    BY <1>0, <1>4, <2>2, QueueStutters, SessionStutters, SandboxStutters, RuntimeStutters
       DEF watchdogNoAction, watchdogSuperseded, Settled, Settles
<1>5. CASE watchdogCapture(w)
  <2>1. requestShutdownEmergency(message) /\ budgetExhausted' \in BOOLEAN
    BY <1>0, <1>5 DEF watchdogCapture, SessionType
  <2>2. /\ QueueType' /\ SessionType' /\ SandboxType' /\ RuntimeType'
        /\ dispatched' = dispatched
        /\ \A m \in Ids :
             message'[m] = IF message[m] = "processing" THEN "failed" ELSE message[m]
    BY <1>0, <2>1, QueueTypeParts, ShutdownKeeps
  <2>3. MessagesSettle
    BY <2>2 DEF MessagesSettle, Terminal
  <2>4. WorkerType' /\ HandlersKeep
    BY <1>0, <1>5, GotoKeeps DEF watchdogCapture, Steps
  <2> QED
    BY <1>0, <1>5, <2>2, <2>3, <2>4, FenceStutters DEF watchdogCapture, Settled, Settles
<1>6. CASE watchdogCaptured(w)
  <2>1. WorkerType' /\ HandlersKeep
    BY <1>0, <1>6, ReturnKeeps DEF watchdogCaptured
  <2>2. SandboxType'
    BY <1>0, <1>6 DEF watchdogCaptured, SandboxType
  <2> QED
    BY <1>0, <1>6, <2>1, <2>2, QueueStutters, SessionStutters, RuntimeStutters
       DEF watchdogCaptured, Settled, Settles
<1>7. CASE watchdogTerminate(w)
  <2>1. PICK head \in 0..MaxMessages, step \in {"terminated", "bootFailed"} :
          worker' = [worker EXCEPT ![w].pc = step, ![w].msg = head, ![w].seen = generation]
    BY <1>7 DEF watchdogTerminate
  <2> DEFINE r == [worker[w] EXCEPT !.pc = step, !.msg = head, !.seen = generation]
  <2>2. r \in WorkerRecords /\ r.pc = step
    <3>1. generation \in Nat /\ step \in Steps /\ worker[w] \in WorkerRecords
      BY <1>0, BoundsAssumption DEF WorkerType, Steps, SandboxType
    <3> QED
      BY <3>1 DEF WorkerRecords
  <2>3. worker' = [worker EXCEPT ![w] = r]
    BY <1>0, <2>1 DEF WorkerType
  <2> HIDE DEF r
  <2>4. WorkerType' /\ HandlersKeep
    BY <1>0, <2>2, <2>3, ReplaceHandler
  <2>5. LoseSandbox /\ hold' \in {"none", "checkpoint", "capturing", "paused"}
    BY <1>0, <1>7 DEF watchdogTerminate, SandboxType
  <2> QED
    BY <1>0, <1>7, <2>4, <2>5, LoseSandboxKeeps, QueueStutters, SessionStutters
       DEF watchdogTerminate, Settled, Settles
<1>8. CASE failStuckAfterTermination(w)
  <2>1. QueueType' /\ MessagesSettle /\ SessionType'
    BY <1>0, <1>8, ProcessingIsUnfinished, FailMessagesKeeps
       DEF failStuckAfterTermination, SessionType
  <2> DEFINE step == IF worker[w].pc = "terminated" THEN "terminating" ELSE "failBootPrompt"
             r == [worker[w] EXCEPT !.seen = 0, !.pc = step]
  <2>2. r \in WorkerRecords /\ r.pc = step
    BY <1>0, BoundsAssumption DEF WorkerType, WorkerRecords, Steps
  <2>3. worker' = [worker EXCEPT ![w] = r]
    BY <1>0, <1>8 DEF WorkerType, failStuckAfterTermination
  <2>4. WorkerType' /\ HandlersKeep
    <3> HIDE DEF r
    <3> QED
      BY <1>0, <2>2, <2>3, ReplaceHandler
  <2> QED
    BY <1>0, <1>8, <2>1, <2>4, FenceStutters, SandboxStutters, RuntimeStutters
       DEF failStuckAfterTermination, Settled, Settles
<1>9. CASE failPendingMessage(w)
  <2>1. WorkerType' /\ HandlersKeep
    BY <1>0, <1>9, ReturnKeeps DEF failPendingMessage
  <2>2. QueueType' /\ MessagesSettle /\ SessionType'
    <3>1. CASE worker[w].msg \in Pending /\ failMessages({worker[w].msg})
      <4>1. {worker[w].msg} \subseteq Unfinished
        BY <3>1 DEF Pending, Holding, Unfinished, UnfinishedOf
      <4> QED
        BY <1>0, <1>9, <3>1, <4>1, FailMessagesKeeps DEF failPendingMessage, SessionType
    <3>2. CASE UNCHANGED <<session, message, lastFinished>>
      BY <1>0, <1>9, <3>2 DEF failPendingMessage, QueueType, MessageType, LastType,
           LastFinishedIsTerminal, MessagesSettle, SessionType
    <3> QED
      BY <1>9, <3>1, <3>2 DEF failPendingMessage
  <2> QED
    BY <1>0, <1>9, <2>1, <2>2, FenceStutters, SandboxStutters, RuntimeStutters
       DEF failPendingMessage, Settled, Settles
<1> QED
  BY <1>1, <1>2, <1>3, <1>4, <1>5, <1>6, <1>7, <1>8, <1>9 DEF AlarmHandler

\* Steps of no handler.
LEMMA EnvironmentSettles ==
  ASSUME TypeInv, Environment
  PROVE Settled
<1>0. /\ QueueType /\ SessionType /\ awaitingStop \subseteq Ids
      /\ SandboxType /\ RuntimeType /\ WorkerType
  BY TypeInvParts
<1>1. IdleStatus(message, lastFinished) \in Promptable
      /\ FromMessages(message, lastFinished) \in Promptable
  BY <1>0, QueueTypeParts, IdleStatusType DEF LastType
<1>2. CASE cancelQueuedPrompt
  <2>1. PICK m \in Pending : message' = [message EXCEPT ![m] = "removed"]
    BY <1>2 DEF cancelQueuedPrompt
  <2>2. m \in Ids /\ message[m] = "pending" /\ UNCHANGED lastFinished
    BY <1>2 DEF Pending, Holding, cancelQueuedPrompt
  <2>3. QueueType' /\ MessagesSettle
    BY <1>0, <2>1, <2>2 DEF QueueType, MessageType, LastType, LastFinishedIsTerminal,
         MessagesSettle, MessageStatuses, Finished, Terminal
  <2>4. IdleStatus(message', lastFinished) \in Promptable
    <3>1. message' \in [Ids -> MessageStatuses] /\ lastFinished \in 0..MaxMessages
      BY <1>0, <2>3 DEF QueueType, MessageType, LastType
    <3>2. lastFinished # 0 => message'[lastFinished] \in Terminal
      BY <2>2, <2>3 DEF QueueType, LastFinishedIsTerminal
    <3> QED
      BY <3>1, <3>2, IdleStatusType
  <2>5. SessionType'
    BY <1>0, <1>2, <2>4 DEF cancelQueuedPrompt, SessionType
  <2> QED
    BY <1>0, <1>2, <2>3, <2>5, FenceStutters, SandboxStutters, RuntimeStutters, HandlersStutter
       DEF cancelQueuedPrompt, Settled, Settles
<1>3. CASE archive
  <2>1. SessionType'
    BY <1>0, <1>3 DEF archive, SessionType, Closed
  <2>2. SandboxType' /\ RuntimeType' /\ dispatched' = dispatched
    <3>1. CASE UNCHANGED <<sandboxVars, runtimeVars>>
      BY <1>0, <3>1, SandboxStutters, RuntimeStutters
    <3>2. CASE LoseSandbox /\ UNCHANGED hold
      <4>1. hold' \in {"none", "checkpoint", "capturing", "paused"}
        BY <1>0, <3>2 DEF SandboxType
      <4> QED
        BY <1>0, <3>2, <4>1, LoseSandboxKeeps
    <3> QED
      BY <1>3, <3>1, <3>2 DEF archive
  <2> QED
    BY <1>0, <1>3, <2>1, <2>2, QueueStutters, HandlersStutter DEF archive, Settled, Settles
<1>4. CASE unarchive \/ expireDraft
  <2>1. SessionType'
    BY <1>0, <1>1, <1>4 DEF unarchive, expireDraft, SessionType, Closed
  <2>2. /\ UNCHANGED queueVars /\ UNCHANGED sandboxVars /\ UNCHANGED runtimeVars
        /\ UNCHANGED worker
    BY <1>4 DEF unarchive, expireDraft
  <2> QED
    BY <1>0, <2>1, <2>2, QueueStutters, SandboxStutters, RuntimeStutters, HandlersStutter
       DEF Settled, Settles
<1>5. CASE RuntimeCompletes
  <2>1. RuntimeType' /\ dispatched' = dispatched
    BY <1>0, <1>5 DEF RuntimeCompletes, RuntimeType
  <2> QED
    BY <1>0, <1>5, <2>1, QueueStutters, SessionStutters, SandboxStutters, HandlersStutter
       DEF RuntimeCompletes, Settled, Settles
<1>6. CASE warm
  BY <1>0, <1>6, StartupKeeps, FenceStutters, RuntimeStutters, HandlersStutter
     DEF warm, Settled, Settles
<1>7. CASE disconnect
  <2>1. SandboxType'
    BY <1>0, <1>7, BoundsAssumption DEF disconnect, SandboxType
  <2> QED
    BY <1>0, <1>7, <2>1, QueueStutters, SessionStutters, RuntimeStutters, HandlersStutter
       DEF disconnect, Settled, Settles
<1> QED
  BY <1>2, <1>3, <1>4, <1>5, <1>6, <1>7 DEF Environment
-----------------------------------------------------------------------------
(***************************************************************************)
(* The steps that admit, pick, claim, give back and send a prompt.         *)
(***************************************************************************)
TypesKept ==
  /\ QueueType' /\ SessionType' /\ awaitingStop' \subseteq Ids
  /\ SandboxType' /\ RuntimeType' /\ WorkerType' /\ HandlersHoldPrompts'

Admits ==
  /\ \E m \in Ids :
       /\ message[m] = "absent" /\ \A n \in Ids : message[n] = "absent" => m <= n
       /\ message' = [message EXCEPT ![m] = "pending"]
  /\ session' = "active" /\ HandlersKeep /\ UNCHANGED <<awaitingStop, dispatched>>

Picks(w) ==
  /\ awaitingStop = {} /\ Processing = {}
  /\ \E m \in Pending :
       /\ \A n \in Pending : m <= n
       /\ worker' = [worker EXCEPT ![w].pc = "auth", ![w].msg = m]
  /\ UNCHANGED <<message, awaitingStop, dispatched>>

Claims(w) ==
  /\ worker[w].pc = "auth" /\ message[worker[w].msg] = "pending" /\ Processing = {}
  /\ ~budgetExhausted
  /\ message' = [message EXCEPT ![worker[w].msg] = "processing"]
  /\ worker' = [worker EXCEPT ![w].pc = "mcp", ![w].seen = socket]
  /\ UNCHANGED <<awaitingStop, dispatched>>

GivesBack(w) ==
  /\ worker[w].pc = "mcp" /\ message[worker[w].msg] = "processing"
  /\ message' = [message EXCEPT ![worker[w].msg] = "pending"]
  /\ HandlersKeep /\ worker'[w].pc \notin {"auth", "mcp"}
  /\ awaitingStop' \subseteq awaitingStop /\ UNCHANGED dispatched

Sends(w) ==
  /\ worker[w].pc = "mcp" /\ message[worker[w].msg] = "processing"
  /\ dispatched' = dispatched \cup {worker[w].msg}
  /\ HandlersKeep /\ worker'[w].pc \notin {"auth", "mcp"}
  /\ UNCHANGED <<message, awaitingStop>>

LEMMA HandlersStillHold ==
  ASSUME HandlersHoldPrompts, HandlersKeep
  PROVE HandlersHoldPrompts'
BY DEF HandlersHoldPrompts, HandlersKeep

\* A prompt that is not the last to finish changes status.
LEMMA SetStatusType ==
  ASSUME QueueType, NEW m \in Ids, message[m] \notin Terminal,
         NEW status \in {"pending", "processing"},
         message' = [message EXCEPT ![m] = status], UNCHANGED lastFinished
  PROVE QueueType'
BY DEF QueueType, MessageType, MessageStatuses, LastType, LastFinishedIsTerminal

LEMMA EnqueueAdmits ==
  ASSUME TypeInv, NEW w \in Workers, Enqueue(w)
  PROVE TypesKept /\ Admits
<1>0. /\ QueueType /\ SessionType /\ awaitingStop \subseteq Ids
      /\ SandboxType /\ RuntimeType /\ WorkerType /\ HandlersHoldPrompts
  BY TypeInvParts
<1>1. PICK m \in Holding("absent") :
        /\ \A n \in Holding("absent") : m <= n
        /\ message' = [message EXCEPT ![m] = "pending"]
  BY DEF Enqueue
<1>2. /\ m \in Ids /\ message[m] = "absent"
      /\ \A n \in Ids : message[n] = "absent" => m <= n
  BY <1>1 DEF Holding
<1>3. QueueType'
  BY <1>0, <1>1, <1>2, SetStatusType DEF Enqueue, Terminal
<1>4. WorkerType' /\ HandlersKeep
  BY <1>0, GotoKeeps DEF Enqueue, Start, Steps
<1>5. SessionType'
  BY <1>0 DEF Enqueue, SessionType, Promptable
<1>6. Admits
  BY <1>1, <1>2, <1>4 DEF Admits, Enqueue, runtimeVars
<1> QED
  BY <1>0, <1>3, <1>4, <1>5, <1>6, HandlersStillHold, SandboxStutters, RuntimeStutters
     DEF TypesKept, Enqueue

LEMMA PickMessagePicks ==
  ASSUME TypeInv, NEW w \in Workers, PickMessage(w)
  PROVE TypesKept /\ Picks(w)
<1>0. /\ QueueType /\ SessionType /\ awaitingStop \subseteq Ids
      /\ SandboxType /\ RuntimeType /\ WorkerType /\ HandlersHoldPrompts
  BY TypeInvParts
<1>1. PICK m \in Pending :
        /\ \A n \in Pending : m <= n
        /\ worker' = [worker EXCEPT ![w].pc = "auth", ![w].msg = m]
  BY DEF PickMessage
<1>2. m \in Ids /\ m \in 0..MaxMessages
  BY BoundsAssumption DEF Pending, Holding, Ids
<1>3. WorkerType' /\ HandlersHoldPrompts'
  <2> DEFINE r == [worker[w] EXCEPT !.pc = "auth", !.msg = m]
  <2>1. r \in WorkerRecords /\ r.pc = "auth" /\ r.msg = m
    BY <1>0, <1>2 DEF WorkerType, WorkerRecords, Steps
  <2>2. worker' = [worker EXCEPT ![w] = r]
    BY <1>0, <1>1 DEF WorkerType
  <2> HIDE DEF r
  <2> QED
    BY <1>0, <1>2, <2>1, <2>2 DEF WorkerType, HandlersHoldPrompts
<1>4. Picks(w)
  BY <1>1 DEF Picks, PickMessage, queueVars, runtimeVars
<1>5. QueueType' /\ awaitingStop' \subseteq Ids
  BY <1>0, QueueStutters DEF PickMessage
<1> QED
  BY <1>0, <1>3, <1>4, <1>5, SessionStutters, SandboxStutters, RuntimeStutters
     DEF TypesKept, PickMessage

LEMMA StartMessageProcessingClaims ==
  ASSUME TypeInv, NEW w \in Workers, startMessageProcessing(w)
  PROVE TypesKept /\ (Claims(w) \/ Settles)
<1>0. /\ QueueType /\ SessionType /\ awaitingStop \subseteq Ids
      /\ SandboxType /\ RuntimeType /\ WorkerType /\ HandlersHoldPrompts
  BY TypeInvParts
<1>1. worker[w].msg \in Ids
  BY <1>0 DEF HandlersHoldPrompts, startMessageProcessing
<1>2. SessionType' /\ SandboxType' /\ awaitingStop' \subseteq Ids
  BY <1>0, SessionStutters, SandboxStutters DEF startMessageProcessing
<1>3. CASE /\ message[worker[w].msg] = "pending" /\ Processing = {}
           /\ message' = [message EXCEPT ![worker[w].msg] = "processing"]
           /\ worker' = [worker EXCEPT ![w].pc = "mcp", ![w].seen = socket]
           /\ UNCHANGED runtimeVars
  <2>1. QueueType'
    BY <1>0, <1>1, <1>3, SetStatusType DEF startMessageProcessing, Terminal
  <2>2. socket \in Nat
    BY <1>0, BoundsAssumption DEF SandboxType
  <2>3. WorkerType' /\ HandlersHoldPrompts'
    BY <1>0, <1>1, <1>3, <2>2 DEF WorkerType, WorkerRecords, Steps, HandlersHoldPrompts
  <2>4. Claims(w)
    BY <1>3 DEF Claims, startMessageProcessing, runtimeVars
  <2> QED
    BY <1>0, <1>2, <1>3, <2>1, <2>3, <2>4, RuntimeStutters DEF TypesKept
<1>4. CASE Continue(w) /\ UNCHANGED message
  <2>1. UNCHANGED queueVars
    BY <1>4 DEF startMessageProcessing, queueVars
  <2> QED
    BY <1>0, <1>2, <1>4, <2>1, ContinueKeeps, QueueStutters, HandlersStillHold
       DEF TypesKept, Settles
<1> QED
  BY <1>3, <1>4 DEF startMessageProcessing

LEMMA RetryUnsentClaimGivesBack ==
  ASSUME TypeInv, NEW w \in Workers, RetryUnsentClaim(w)
  PROVE TypesKept /\ GivesBack(w)
<1>0. /\ QueueType /\ SessionType /\ awaitingStop \subseteq Ids
      /\ SandboxType /\ RuntimeType /\ WorkerType /\ HandlersHoldPrompts
  BY TypeInvParts
<1>1. worker[w].msg \in Ids
  BY <1>0 DEF HandlersHoldPrompts, RetryUnsentClaim
<1>2. QueueType'
  BY <1>0, <1>1, SetStatusType DEF RetryUnsentClaim, Terminal
<1>3. WorkerType' /\ HandlersKeep
  BY <1>0, GotoKeeps DEF RetryUnsentClaim, Steps
<1>4. worker'[w].pc = "pump"
  BY <1>0 DEF RetryUnsentClaim, Goto, Suspended, WorkerType
<1>5. GivesBack(w)
  BY <1>3, <1>4 DEF GivesBack, RetryUnsentClaim, runtimeVars
<1> QED
  BY <1>0, <1>2, <1>3, <1>5, HandlersStillHold, SessionStutters, SandboxStutters, RuntimeStutters
     DEF TypesKept, RetryUnsentClaim

LEMMA SendPromptSends ==
  ASSUME TypeInv, NEW w \in Workers, SendPrompt(w)
  PROVE TypesKept /\ Sends(w)
<1>0. /\ QueueType /\ SessionType /\ awaitingStop \subseteq Ids
      /\ SandboxType /\ RuntimeType /\ WorkerType /\ HandlersHoldPrompts
  BY TypeInvParts
<1>1. worker[w].msg \in Ids
  BY <1>0 DEF HandlersHoldPrompts, SendPrompt, ReadyToSend
<1>2. WorkerType' /\ HandlersKeep
  BY <1>0, ReturnKeeps DEF SendPrompt
<1>3. RuntimeType'
  BY <1>0, <1>1, AcknowledgeType DEF SendPrompt, RuntimeType
<1>4. worker'[w].pc \notin {"auth", "mcp"}
  BY <1>0 DEF SendPrompt, Return, Idle, Suspended, WorkerType, WorkerRecords
<1>5. Sends(w)
  BY <1>2, <1>4 DEF Sends, SendPrompt, ReadyToSend, queueVars
<1> QED
  BY <1>0, <1>2, <1>3, <1>5, HandlersStillHold, QueueStutters, SessionStutters, SandboxStutters
     DEF TypesKept, SendPrompt

LEMMA SendFailsKeepsTypes ==
  ASSUME TypeInv, NEW w \in Workers, SendFails(w)
  PROVE /\ TypesKept
        /\ worker[w].pc = "mcp" /\ message[worker[w].msg] = "processing"
        /\ HandlersKeep /\ worker'[w].pc \notin {"auth", "mcp"}
        /\ awaitingStop' \subseteq awaitingStop /\ UNCHANGED dispatched
        /\ LET messages == [message EXCEPT ![worker[w].msg] = "pending"] IN
           \/ message' = messages
           \/ \A m \in Ids :
                message'[m] = IF messages[m] = "processing" THEN "failed" ELSE messages[m]
<1>0. /\ QueueType /\ SessionType /\ awaitingStop \subseteq Ids
      /\ SandboxType /\ RuntimeType /\ WorkerType /\ HandlersHoldPrompts
  BY TypeInvParts
<1> DEFINE messages == [message EXCEPT ![worker[w].msg] = "pending"]
<1>1. worker[w].msg \in Ids /\ worker[w].pc = "mcp" /\ message[worker[w].msg] = "processing"
  BY <1>0 DEF HandlersHoldPrompts, SendFails, ReadyToSend
<1>2. /\ messages \in [Ids -> MessageStatuses] /\ LastType
      /\ (lastFinished # 0 => messages[lastFinished] \in Terminal)
  BY <1>0, <1>1, QueueTypeParts DEF MessageStatuses, Terminal, LastType, Ids
<1>3. worker[w].after \in {"return", "timeouts", "snapshot"}
  BY <1>0 DEF WorkerType, WorkerRecords
<1>4. terminateAndResume(w, worker[w].after, messages) /\ UNCHANGED budgetExhausted
  BY DEF SendFails
<1> HIDE DEF messages
<1>5. /\ QueueType' /\ SessionType' /\ SandboxType' /\ RuntimeType' /\ WorkerType'
      /\ HandlersKeep /\ awaitingStop' \subseteq awaitingStop /\ dispatched' = dispatched
      /\ worker'[w].pc \notin {"auth", "mcp"}
      /\ \/ message' = messages
         \/ \A m \in Ids :
              message'[m] = IF messages[m] = "processing" THEN "failed" ELSE messages[m]
  BY <1>0, <1>2, <1>3, <1>4, TerminateKeeps
<1>6. TypesKept
  BY <1>0, <1>5, HandlersStillHold DEF TypesKept
<1> QED
  BY <1>1, <1>5, <1>6 DEF messages

-----------------------------------------------------------------------------
LEMMA TypesKeptKeeps ==
  ASSUME TypesKept
  PROVE TypeInv'
<1>1. QueueType' /\ SessionType' /\ (awaitingStop \subseteq Ids)'
      /\ SandboxType' /\ RuntimeType' /\ WorkerType' /\ HandlersHoldPrompts'
  BY DEF TypesKept
<1> QED
  BY <1>1, TypeInvParts, PTL

LEMMA SettledTypes == TypeInv /\ Settled => TypesKept
BY TypeInvParts, HandlersStillHold DEF Settled, Settles, TypesKept

\* Every step, by what it does to the queue.
LEMMA StepKinds ==
  ASSUME TypeInv, Next
  PROVE \/ Settled
        \/ TypesKept /\ Admits
        \/ \E w \in Workers :
             \/ Picks(w) /\ TypesKept
             \/ Claims(w) /\ TypesKept
             \/ Settles /\ TypesKept
             \/ GivesBack(w) /\ TypesKept
             \/ Sends(w) /\ TypesKept
             \/ SendFails(w)
<1>1. CASE Environment
  BY <1>1, EnvironmentSettles
<1>2. ASSUME NEW w \in Workers,
             Request(w) \/ processMessageQueue(w) \/ StopCoordinator(w)
               \/ RuntimeEvent(w) \/ AlarmHandler(w)
      PROVE \/ Settled
            \/ TypesKept /\ Admits
            \/ Picks(w) /\ TypesKept
            \/ Claims(w) /\ TypesKept
            \/ Settles /\ TypesKept
            \/ GivesBack(w) /\ TypesKept
            \/ Sends(w) /\ TypesKept
            \/ SendFails(w)
  <2>1. CASE Request(w)
    BY <2>1, RequestSettles, EnqueueAdmits DEF Request
  <2>2. CASE processMessageQueue(w)
    BY <2>2, DispatchSettles, PickMessagePicks, StartMessageProcessingClaims,
       RetryUnsentClaimGivesBack, SendPromptSends DEF processMessageQueue
  <2> QED
    BY <1>2, <2>1, <2>2, StopSettles, RuntimeSettles, AlarmSettles
<1> QED
  BY <1>1, <1>2 DEF Next

LEMMA TypeInvStutters == TypeInv /\ UNCHANGED vars => TypeInv'
BY DEF TypeInv, TypeOK, LastFinishedIsTerminal, HandlersHoldPrompts, vars, sessionVars,
       queueVars, sandboxVars, runtimeVars

LEMMA TypeInvInductive == TypeInv /\ [Next]_vars => TypeInv'
<1> SUFFICES ASSUME TypeInv, Next
             PROVE TypeInv'
  BY TypeInvStutters
<1> QED
  BY StepKinds, SettledTypes, TypesKeptKeeps, SendFailsKeepsTypes

LEMMA InitialTypes == Init => TypeInv
<1> SUFFICES ASSUME Init
             PROVE TypeInv
  OBVIOUS
<1>1. QueueType /\ SessionType /\ awaitingStop \subseteq Ids
  <2>1. MessageType
    BY DEF Init, MessageType, MessageStatuses
  <2>2. LastType /\ LastFinishedIsTerminal
    BY BoundsAssumption DEF Init, LastType, LastFinishedIsTerminal
  <2>3. SessionType
    BY DEF Init, SessionType, Promptable
  <2> QED
    BY <2>1, <2>2, <2>3 DEF Init, QueueType
<1>2. SandboxType /\ RuntimeType
  BY BoundsAssumption DEF Init, SandboxType, RuntimeType
<1>3. WorkerType /\ HandlersHoldPrompts
  BY IdleType DEF Init, WorkerType, HandlersHoldPrompts
<1> QED
  BY <1>1, <1>2, <1>3, TypeInvParts

(***************************************************************************)
(* Type correctness, for every number of prompts and handlers: no step of  *)
(* the actor leaves a status, a fence or a suspended handler outside its   *)
(* domain, and the status of an idle session is always one of a finished   *)
(* prompt.                                                                 *)
(***************************************************************************)
THEOREM TypeCorrect == Spec => []TypeOK
<1>1. TypeInv => TypeOK
  BY DEF TypeInv
<1> QED
  BY <1>1, InitialTypes, TypeInvInductive, PTL DEF Spec
-----------------------------------------------------------------------------
(***************************************************************************)
(* The order of the queue.  The claim of a prompt reads neither the stop   *)
(* fence nor the head of the queue again: that it is right rests on what   *)
(* every handler holding a prompt still knows about the rows.              *)
(***************************************************************************)

\* Prompts are admitted in the order of their numbers.
AdmittedInOrder ==
  \A m, n \in Ids : n < m /\ message[n] = "absent" => message[m] = "absent"

QueueInv ==
  /\ AdmittedInOrder /\ InOrder
  /\ PickIsStillHead /\ OneOwnerPerClaim
  /\ SentAtMostOnce /\ NoClaimUnderStopFence

LEMMA OneProcessing ==
  ASSUME InOrder, NEW m \in Ids, NEW n \in Ids,
         message[m] = "processing", message[n] = "processing"
  PROVE m = n
<1>1. m \in Nat /\ n \in Nat /\ m \in Processing /\ n \in Processing
  BY BoundsAssumption DEF Ids, Processing, Holding
<1>2. ~(n < m) /\ ~(m < n)
  BY <1>1 DEF InOrder, Finished, Terminal
<1> QED
  BY <1>1, <1>2

LEMMA SettlesKeepsQueue ==
  ASSUME TypeInv, QueueInv, Settles
  PROVE QueueInv'
<1>0. /\ MessagesSettle /\ HandlersKeep /\ FenceFollowsStop /\ dispatched' = dispatched
      /\ dispatched \subseteq Ids /\ HandlersHoldPrompts
      /\ \A m \in Ids : m \in Nat
  BY TypeInvParts, BoundsAssumption DEF Settles, RuntimeType, Ids
<1>1. \A m \in Ids : message[m] \in Finished => message'[m] = message[m]
  BY <1>0 DEF MessagesSettle, Finished, Terminal
<1>2. \A m \in Ids : message'[m] = "processing" => message[m] = "processing"
  BY <1>0 DEF MessagesSettle, Finished, Terminal
<1>3. \A m \in Ids : message'[m] = "pending" => message[m] = "pending"
  BY <1>0 DEF MessagesSettle, Finished, Terminal
<1>4. \A m \in Ids : message'[m] = "absent" <=> message[m] = "absent"
  BY <1>0 DEF MessagesSettle, Finished, Terminal
<1>5. AdmittedInOrder'
  BY <1>4 DEF QueueInv, AdmittedInOrder
<1>6. InOrder'
  BY <1>1, <1>2 DEF QueueInv, InOrder, Processing, Holding
<1>7. PickIsStillHead'
  <2> SUFFICES ASSUME NEW v \in Workers, worker'[v].pc = "auth"
               PROVE /\ worker'[v].msg \in Ids /\ message'[worker'[v].msg] # "absent"
                     /\ \A n \in Ids : n < worker'[v].msg => message'[n] \in Finished
                     /\ message'[worker'[v].msg] = "pending" => awaitingStop' = {}
    BY DEF PickIsStillHead
  <2>1. worker'[v] = worker[v]
    BY <1>0 DEF HandlersKeep
  <2>2. /\ worker[v].msg \in Ids /\ message[worker[v].msg] # "absent"
        /\ \A n \in Ids : n < worker[v].msg => message[n] \in Finished
        /\ message[worker[v].msg] = "pending" => awaitingStop = {}
    BY <2>1 DEF QueueInv, PickIsStillHead
  <2>3. ASSUME message'[worker[v].msg] = "pending"
        PROVE awaitingStop' = {}
    <3>1. message[worker[v].msg] = "pending" /\ awaitingStop = {}
      BY <1>3, <2>2, <2>3
    <3>2. \A m \in Ids : message[m] # "processing"
      <4> SUFFICES ASSUME NEW m \in Ids, message[m] = "processing"
                   PROVE FALSE
        OBVIOUS
      <4>1. m \in Processing
        BY DEF Processing, Holding
      <4>2. ~(worker[v].msg < m)
        BY <2>2, <3>1, <4>1 DEF QueueInv, InOrder, Finished, Terminal
      <4>3. ~(m < worker[v].msg)
        BY <2>2 DEF Finished, Terminal
      <4> QED
        BY <1>0, <2>2, <3>1, <4>2, <4>3
    <3>3. awaitingStop' \subseteq Ids
      BY <1>0, <3>1, <3>2 DEF FenceFollowsStop
    <3> QED
      BY <1>0, <3>1, <3>2, <3>3 DEF FenceFollowsStop
  <2> QED
    BY <1>1, <1>4, <2>1, <2>2, <2>3
<1>8. OneOwnerPerClaim'
  BY <1>0, <1>2 DEF QueueInv, OneOwnerPerClaim, HandlersKeep, MessagesSettle, Terminal
<1>9. SentAtMostOnce'
  BY <1>0 DEF QueueInv, SentAtMostOnce, HandlersKeep, MessagesSettle, Terminal
<1>10. NoClaimUnderStopFence'
  <2> SUFFICES ASSUME NEW m \in Ids, message'[m] = "processing"
               PROVE awaitingStop' = {}
    BY DEF NoClaimUnderStopFence, Processing, Holding
  <2>1. message[m] = "processing" /\ awaitingStop = {}
    BY <1>2 DEF QueueInv, NoClaimUnderStopFence, Processing, Holding
  <2>2. ASSUME NEW n \in awaitingStop'
        PROVE FALSE
    <3>1. n \in Ids /\ message[n] = "processing" /\ message'[n] = "failed"
      BY <1>0, <2>1, <2>2 DEF FenceFollowsStop
    <3> QED
      BY <2>1, <3>1, OneProcessing DEF QueueInv
  <2> QED
    BY <2>2
<1> QED
  BY <1>5, <1>6, <1>7, <1>8, <1>9, <1>10 DEF QueueInv

LEMMA AdmitsKeepsQueue ==
  ASSUME TypeInv, QueueInv, Admits
  PROVE QueueInv'
<1>0. /\ HandlersKeep /\ awaitingStop' = awaitingStop /\ dispatched' = dispatched
      /\ dispatched \subseteq Ids /\ message \in [Ids -> MessageStatuses]
      /\ \A m \in Ids : m \in Nat
  BY TypeInvParts, BoundsAssumption DEF Admits, RuntimeType, Ids, QueueType, MessageType
<1>1. PICK m \in Ids :
        /\ message[m] = "absent" /\ \A n \in Ids : message[n] = "absent" => m <= n
        /\ message' = [message EXCEPT ![m] = "pending"]
  BY DEF Admits
<1>2. \A n \in Ids : message'[n] = IF n = m THEN "pending" ELSE message[n]
  BY <1>0, <1>1
<1>3. \A v \in Workers : worker'[v].pc \in {"auth", "mcp"} => worker'[v].msg # m
  <2> SUFFICES ASSUME NEW v \in Workers, worker'[v].pc \in {"auth", "mcp"}
               PROVE worker[v].msg # m /\ worker'[v] = worker[v]
    OBVIOUS
  <2>1. worker'[v] = worker[v]
    BY <1>0 DEF HandlersKeep
  <2> QED
    BY <1>1, <2>1 DEF QueueInv, PickIsStillHead, OneOwnerPerClaim, Terminal
<1>4. AdmittedInOrder'
  BY <1>0, <1>1, <1>2 DEF QueueInv, AdmittedInOrder
<1>5. InOrder'
  BY <1>1, <1>2 DEF QueueInv, InOrder, Processing, Holding, Finished, Terminal
<1>6. PickIsStillHead'
  <2> SUFFICES ASSUME NEW v \in Workers, worker'[v].pc = "auth"
               PROVE /\ worker'[v].msg \in Ids /\ message'[worker'[v].msg] # "absent"
                     /\ \A n \in Ids : n < worker'[v].msg => message'[n] \in Finished
                     /\ message'[worker'[v].msg] = "pending" => awaitingStop' = {}
    BY DEF PickIsStillHead
  <2>1. worker'[v] = worker[v] /\ worker[v].msg # m
    BY <1>0, <1>3 DEF HandlersKeep
  <2>2. /\ worker[v].msg \in Ids /\ message[worker[v].msg] # "absent"
        /\ \A n \in Ids : n < worker[v].msg => message[n] \in Finished
        /\ message[worker[v].msg] = "pending" => awaitingStop = {}
    BY <2>1 DEF QueueInv, PickIsStillHead
  <2>3. message[m] \notin Finished
    BY <1>1 DEF Finished, Terminal
  <2> QED
    BY <1>0, <1>1, <1>2, <2>1, <2>2, <2>3
<1>7. OneOwnerPerClaim'
  <2> SUFFICES ASSUME NEW v \in Workers, worker'[v].pc = "mcp"
               PROVE /\ worker'[v].msg \in Ids /\ message'[worker'[v].msg] \in {"processing"} \cup Terminal
                     /\ \A x \in Workers : worker'[x].pc = "mcp" /\ worker'[v].msg = worker'[x].msg
                          /\ message'[worker'[x].msg] = "processing" => v = x
    BY DEF OneOwnerPerClaim
  <2>1. \A x \in Workers : worker'[x].pc = "mcp" =>
          /\ worker'[x] = worker[x] /\ worker[x].msg # m
          /\ worker[x].msg \in Ids /\ message'[worker[x].msg] = message[worker[x].msg]
    BY <1>0, <1>2, <1>3 DEF HandlersKeep, QueueInv, OneOwnerPerClaim
  <2> QED
    BY <2>1 DEF QueueInv, OneOwnerPerClaim
<1>8. SentAtMostOnce'
  <2>1. m \notin dispatched
    BY <1>1 DEF QueueInv, SentAtMostOnce, Terminal
  <2> QED
    BY <1>0, <1>2, <2>1 DEF QueueInv, SentAtMostOnce, HandlersKeep
<1>9. NoClaimUnderStopFence'
  BY <1>0, <1>2 DEF QueueInv, NoClaimUnderStopFence, Processing, Holding
<1> QED
  BY <1>4, <1>5, <1>6, <1>7, <1>8, <1>9 DEF QueueInv

LEMMA PicksKeepsQueue ==
  ASSUME TypeInv, QueueInv, NEW w \in Workers, Picks(w)
  PROVE QueueInv'
<1>0. /\ awaitingStop = {} /\ Processing = {}
      /\ message' = message /\ awaitingStop' = awaitingStop /\ dispatched' = dispatched
      /\ dispatched \subseteq Ids /\ message \in [Ids -> MessageStatuses]
      /\ worker \in [Workers -> WorkerRecords]
      /\ \A m \in Ids : m \in Nat
  BY TypeInvParts, BoundsAssumption
     DEF Picks, RuntimeType, Ids, QueueType, MessageType, WorkerType
<1>1. PICK m \in Pending :
        /\ \A n \in Pending : m <= n
        /\ worker' = [worker EXCEPT ![w].pc = "auth", ![w].msg = m]
  BY DEF Picks
<1>2. m \in Ids /\ message[m] = "pending"
  BY DEF Pending, Holding
<1>3. /\ worker'[w].pc = "auth" /\ worker'[w].msg = m
      /\ \A v \in Workers : v # w => worker'[v] = worker[v]
  BY <1>0, <1>1 DEF WorkerRecords
<1>4. \A n \in Ids : n < m => message[n] \in Finished
  <2> SUFFICES ASSUME NEW n \in Ids, n < m
               PROVE message[n] \in Finished
    OBVIOUS
  <2>1. message[n] # "absent"
    BY <1>2 DEF QueueInv, AdmittedInOrder
  <2>2. message[n] # "pending"
    BY <1>0, <1>1, <1>2 DEF Pending, Holding
  <2>3. message[n] # "processing"
    BY <1>0 DEF Processing, Holding
  <2> QED
    BY <1>0, <2>1, <2>2, <2>3 DEF MessageStatuses, Finished, Terminal
<1>5. AdmittedInOrder' /\ InOrder' /\ NoClaimUnderStopFence'
  BY <1>0 DEF QueueInv, AdmittedInOrder, InOrder, NoClaimUnderStopFence, Processing, Holding
<1>6. PickIsStillHead'
  BY <1>0, <1>2, <1>3, <1>4 DEF QueueInv, PickIsStillHead
<1>7. OneOwnerPerClaim'
  BY <1>0, <1>3 DEF QueueInv, OneOwnerPerClaim
<1>8. SentAtMostOnce'
  BY <1>0, <1>3 DEF QueueInv, SentAtMostOnce
<1> QED
  BY <1>5, <1>6, <1>7, <1>8 DEF QueueInv

LEMMA ClaimsKeepsQueue ==
  ASSUME TypeInv, QueueInv, NEW w \in Workers, Claims(w)
  PROVE QueueInv'
<1> DEFINE m == worker[w].msg
<1>0. /\ worker[w].pc = "auth" /\ message[m] = "pending" /\ Processing = {}
      /\ message' = [message EXCEPT ![m] = "processing"]
      /\ worker' = [worker EXCEPT ![w].pc = "mcp", ![w].seen = socket]
      /\ awaitingStop' = awaitingStop /\ dispatched' = dispatched
      /\ dispatched \subseteq Ids /\ message \in [Ids -> MessageStatuses]
      /\ worker \in [Workers -> WorkerRecords]
      /\ \A n \in Ids : n \in Nat
  BY TypeInvParts, BoundsAssumption
     DEF Claims, RuntimeType, Ids, QueueType, MessageType, WorkerType
<1>1. /\ m \in Ids /\ awaitingStop = {}
      /\ \A n \in Ids : n < m => message[n] \in Finished
  BY <1>0 DEF QueueInv, PickIsStillHead
<1>2. /\ worker'[w].pc = "mcp" /\ worker'[w].msg = m
      /\ \A v \in Workers : v # w => worker'[v] = worker[v]
  BY <1>0 DEF WorkerRecords
<1> HIDE DEF m
<1>3. \A n \in Ids : message'[n] = IF n = m THEN "processing" ELSE message[n]
  BY <1>0, <1>1
<1>4. \A n \in Ids : message[n] # "processing"
  BY <1>0 DEF Processing, Holding
<1>5. AdmittedInOrder'
  BY <1>0, <1>3 DEF QueueInv, AdmittedInOrder
<1>6. InOrder' /\ NoClaimUnderStopFence'
  BY <1>0, <1>1, <1>3, <1>4 DEF InOrder, NoClaimUnderStopFence, Processing, Holding
<1>7. PickIsStillHead'
  <2> SUFFICES ASSUME NEW v \in Workers, worker'[v].pc = "auth"
               PROVE /\ worker'[v].msg \in Ids /\ message'[worker'[v].msg] # "absent"
                     /\ \A n \in Ids : n < worker'[v].msg => message'[n] \in Finished
                     /\ message'[worker'[v].msg] = "pending" => awaitingStop' = {}
    BY DEF PickIsStillHead
  <2>1. worker'[v] = worker[v]
    BY <1>2
  <2>2. /\ worker[v].msg \in Ids /\ message[worker[v].msg] # "absent"
        /\ \A n \in Ids : n < worker[v].msg => message[n] \in Finished
    BY <2>1 DEF QueueInv, PickIsStillHead
  <2>3. message[m] \notin Finished
    BY <1>0 DEF Finished, Terminal
  <2> QED
    BY <1>0, <1>1, <1>3, <2>1, <2>2, <2>3
<1>8. \A v \in Workers : v # w /\ worker'[v].pc = "mcp" =>
        /\ worker[v].msg \in Ids /\ worker[v].msg # m
        /\ message[worker[v].msg] \in Terminal
  BY <1>0, <1>2, <1>4 DEF QueueInv, OneOwnerPerClaim, Terminal
<1>9. OneOwnerPerClaim'
  <2> SUFFICES ASSUME NEW v \in Workers, worker'[v].pc = "mcp"
               PROVE /\ worker'[v].msg \in Ids /\ message'[worker'[v].msg] \in {"processing"} \cup Terminal
                     /\ \A x \in Workers : worker'[x].pc = "mcp" /\ worker'[v].msg = worker'[x].msg
                          /\ message'[worker'[x].msg] = "processing" => v = x
    BY DEF OneOwnerPerClaim
  <2>1. v # w => worker'[v].msg \in Ids /\ message'[worker'[v].msg] \in Terminal
    BY <1>2, <1>3, <1>8
  <2>2. \A x \in Workers : x # w /\ worker'[x].pc = "mcp" => message'[worker'[x].msg] # "processing"
    BY <1>2, <1>3, <1>8 DEF Terminal
  <2> QED
    BY <1>1, <1>2, <1>3, <2>1, <2>2
<1>10. SentAtMostOnce'
  <2>1. m \notin dispatched
    BY <1>0 DEF QueueInv, SentAtMostOnce, Terminal
  <2>2. \A n \in dispatched : message'[n] = message[n] /\ message[n] \in Terminal
    BY <1>0, <1>3, <1>4, <2>1 DEF QueueInv, SentAtMostOnce
  <2> QED
    BY <1>0, <2>2 DEF SentAtMostOnce, Terminal
<1> QED
  BY <1>5, <1>6, <1>7, <1>9, <1>10 DEF QueueInv

LEMMA GivesBackKeepsQueue ==
  ASSUME TypeInv, QueueInv, NEW w \in Workers, GivesBack(w)
  PROVE QueueInv'
<1> DEFINE m == worker[w].msg
<1>0. /\ worker[w].pc = "mcp" /\ message[m] = "processing"
      /\ message' = [message EXCEPT ![m] = "pending"]
      /\ HandlersKeep /\ worker'[w].pc \notin {"auth", "mcp"}
      /\ awaitingStop' \subseteq awaitingStop /\ dispatched' = dispatched
      /\ dispatched \subseteq Ids /\ message \in [Ids -> MessageStatuses]
      /\ \A n \in Ids : n \in Nat
  BY TypeInvParts, BoundsAssumption DEF GivesBack, RuntimeType, Ids, QueueType, MessageType
<1>1. m \in Ids
  BY <1>0, TypeInvParts DEF HandlersHoldPrompts
<1>2. m \notin dispatched
  BY <1>0 DEF QueueInv, SentAtMostOnce
<1> HIDE DEF m
<1>3. \A n \in Ids : message'[n] = IF n = m THEN "pending" ELSE message[n]
  BY <1>0, <1>1
<1>4. awaitingStop = {} /\ \A n \in Ids : n < m => message[n] \in Finished
  BY <1>0, <1>1 DEF QueueInv, NoClaimUnderStopFence, InOrder, Processing, Holding
<1>5. \A n \in Ids : message'[n] # "processing"
  BY <1>0, <1>1, <1>3, OneProcessing DEF QueueInv
<1>6. AdmittedInOrder'
  BY <1>0, <1>3 DEF QueueInv, AdmittedInOrder
<1>7. InOrder' /\ NoClaimUnderStopFence'
  BY <1>5 DEF InOrder, NoClaimUnderStopFence, Processing, Holding
<1>8. PickIsStillHead'
  <2> SUFFICES ASSUME NEW v \in Workers, worker'[v].pc = "auth"
               PROVE /\ worker'[v].msg \in Ids /\ message'[worker'[v].msg] # "absent"
                     /\ \A n \in Ids : n < worker'[v].msg => message'[n] \in Finished
                     /\ awaitingStop' = {}
    BY DEF PickIsStillHead
  <2>1. worker'[v] = worker[v]
    BY <1>0 DEF HandlersKeep
  <2>2. /\ worker[v].msg \in Ids /\ message[worker[v].msg] # "absent"
        /\ \A n \in Ids : n < worker[v].msg => message[n] \in Finished
    BY <2>1 DEF QueueInv, PickIsStillHead
  <2>3. message[m] \notin Finished
    BY <1>0 DEF Finished, Terminal
  <2> QED
    BY <1>0, <1>1, <1>3, <1>4, <2>1, <2>2, <2>3
<1>9. OneOwnerPerClaim'
  <2>1. \A v \in Workers : worker'[v].pc = "mcp" =>
          /\ v # w /\ worker'[v] = worker[v]
          /\ worker[v].msg \in Ids /\ message[worker[v].msg] \in {"processing"} \cup Terminal
    BY <1>0 DEF HandlersKeep, QueueInv, OneOwnerPerClaim
  <2>2. \A v \in Workers : worker'[v].pc = "mcp" => worker[v].msg # m
    BY <1>0, <2>1 DEF m, QueueInv, OneOwnerPerClaim
  <2>3. \A v \in Workers : worker'[v].pc = "mcp" =>
          /\ worker'[v].msg \in Ids /\ message'[worker'[v].msg] \in {"processing"} \cup Terminal
          /\ message'[worker'[v].msg] # "processing"
    BY <1>3, <1>5, <2>1, <2>2
  <2> QED
    BY <2>3 DEF OneOwnerPerClaim
<1>10. SentAtMostOnce'
  BY <1>0, <1>2, <1>3 DEF QueueInv, SentAtMostOnce, HandlersKeep
<1> QED
  BY <1>6, <1>7, <1>8, <1>9, <1>10 DEF QueueInv

LEMMA SendsKeepsQueue ==
  ASSUME TypeInv, QueueInv, NEW w \in Workers, Sends(w)
  PROVE QueueInv'
<1> DEFINE m == worker[w].msg
<1>0. /\ worker[w].pc = "mcp" /\ message[m] = "processing"
      /\ dispatched' = dispatched \cup {m}
      /\ HandlersKeep /\ worker'[w].pc \notin {"auth", "mcp"}
      /\ message' = message /\ awaitingStop' = awaitingStop
  BY DEF Sends
<1>1. AdmittedInOrder' /\ InOrder' /\ NoClaimUnderStopFence'
  BY <1>0 DEF QueueInv, AdmittedInOrder, InOrder, NoClaimUnderStopFence, Processing, Holding
<1>2. PickIsStillHead'
  BY <1>0 DEF QueueInv, PickIsStillHead, HandlersKeep
<1>3. OneOwnerPerClaim'
  BY <1>0 DEF QueueInv, OneOwnerPerClaim, HandlersKeep
<1>4. SentAtMostOnce'
  <2>1. \A v \in Workers : worker'[v].pc = "mcp" => v # w /\ worker'[v] = worker[v]
    BY <1>0 DEF HandlersKeep
  <2>2. \A v \in Workers : ~(worker'[v].pc = "mcp" /\ worker'[v].msg = m)
    BY <1>0, <2>1 DEF QueueInv, OneOwnerPerClaim
  <2> QED
    BY <1>0, <2>1, <2>2 DEF QueueInv, SentAtMostOnce
<1> QED
  BY <1>1, <1>2, <1>3, <1>4 DEF QueueInv

\* A failed write gives the claim back: the capture that may follow finds
\* nothing running.
LEMMA SendFailsGivesBack ==
  ASSUME TypeInv, QueueInv, NEW w \in Workers, SendFails(w)
  PROVE GivesBack(w)
<1> DEFINE m == worker[w].msg
           messages == [message EXCEPT ![m] = "pending"]
<1>0. /\ worker[w].pc = "mcp" /\ message[m] = "processing"
      /\ HandlersKeep /\ worker'[w].pc \notin {"auth", "mcp"}
      /\ awaitingStop' \subseteq awaitingStop /\ UNCHANGED dispatched
      /\ \/ message' = messages
         \/ \A n \in Ids : message'[n] = IF messages[n] = "processing" THEN "failed" ELSE messages[n]
  BY SendFailsKeepsTypes
<1>1. m \in Ids /\ message \in [Ids -> MessageStatuses]
  BY <1>0, TypeInvParts DEF HandlersHoldPrompts, QueueType, MessageType
<1>2. message' \in [Ids -> MessageStatuses]
  BY SendFailsKeepsTypes DEF TypesKept, QueueType, MessageType
<1>3. \A n \in Ids : messages[n] # "processing"
  BY <1>0, <1>1, OneProcessing DEF QueueInv
<1>4. message' = messages
  BY <1>0, <1>1, <1>2, <1>3
<1> QED
  BY <1>0, <1>4 DEF GivesBack

LEMMA QueueInvInductive == TypeInv /\ QueueInv /\ [Next]_vars => QueueInv'
<1> SUFFICES ASSUME TypeInv, QueueInv, [Next]_vars
             PROVE QueueInv'
  OBVIOUS
<1>1. CASE Next
  BY <1>1, StepKinds, SettlesKeepsQueue, AdmitsKeepsQueue, PicksKeepsQueue, ClaimsKeepsQueue,
     GivesBackKeepsQueue, SendsKeepsQueue, SendFailsGivesBack DEF Settled
<1>2. CASE UNCHANGED vars
  BY <1>2 DEF vars, queueVars, runtimeVars, QueueInv, AdmittedInOrder, InOrder, PickIsStillHead,
       OneOwnerPerClaim, SentAtMostOnce, NoClaimUnderStopFence, Processing, Holding
<1> QED
  BY <1>1, <1>2

LEMMA InitialQueue == Init => QueueInv
<1> SUFFICES ASSUME Init
             PROVE QueueInv
  OBVIOUS
<1>1. \A m \in Ids : message[m] = "absent"
  BY DEF Init
<1>2. \A w \in Workers : worker[w].pc = "idle"
  BY IdleType DEF Init
<1> QED
  BY <1>1, <1>2 DEF Init, QueueInv, AdmittedInOrder, InOrder, PickIsStillHead,
     OneOwnerPerClaim, SentAtMostOnce, NoClaimUnderStopFence, Processing, Holding

LEMMA QueueInvariant == Spec => [](TypeInv /\ QueueInv)
BY InitialTypes, InitialQueue, TypeInvInductive, QueueInvInductive, PTL DEF Spec

(***************************************************************************)
(* A prompt is in flight only when every earlier one is finished, however  *)
(* pumps, retries of unsent claims, stops and failures interleave.         *)
(***************************************************************************)
THEOREM PromptsRunInOrder == Spec => []InOrder
BY QueueInvariant, PTL DEF QueueInv

(***************************************************************************)
(* No prompt is claimed under a stop fence, although the claim after the   *)
(* credential lookup does not read the fence again.                        *)
(***************************************************************************)
THEOREM FenceBlocksClaims == Spec => []NoClaimUnderStopFence
BY QueueInvariant, PTL DEF QueueInv

(***************************************************************************)
(* Handlers that share the queue never send one prompt twice.              *)
(***************************************************************************)
THEOREM EachPromptSentOnce == Spec => []SentAtMostOnce
BY QueueInvariant, PTL DEF QueueInv

(***************************************************************************)
(* A claim that is not sent yet belongs to one handler, whichever handlers *)
(* picked the same prompt before their awaits.                             *)
(***************************************************************************)
THEOREM ClaimHasOneOwner == Spec => []OneOwnerPerClaim
BY QueueInvariant, PTL DEF QueueInv

(***************************************************************************)
(* The prompt a handler picked before its credential lookup is still the   *)
(* first one unfinished, or finished, when the handler resumes.            *)
(***************************************************************************)
THEOREM PickStaysHead == Spec => []PickIsStillHead
BY QueueInvariant, PTL DEF QueueInv
-----------------------------------------------------------------------------
(***************************************************************************)
(* Finished prompts, the fence's one row, and the status of the session.   *)
(***************************************************************************)

\* What any step does to a prompt.
LEMMA MessageSteps ==
  ASSUME TypeInv, QueueInv, Next
  PROVE \A m \in Ids :
          \/ message'[m] = message[m]
          \/ message[m] \in {"pending", "processing"} /\ message'[m] \in Finished
          \/ message[m] = "absent" /\ message'[m] = "pending"
          \/ message[m] = "pending" /\ message'[m] = "processing"
          \/ message[m] = "processing" /\ message'[m] = "pending"
<1>0. message \in [Ids -> MessageStatuses]
  BY TypeInvParts DEF QueueType, MessageType
<1>1. CASE Settles
  BY <1>1 DEF Settles, MessagesSettle, Finished
<1>2. CASE Admits
  BY <1>0, <1>2 DEF Admits
<1>3. ASSUME NEW w \in Workers, Picks(w) \/ Claims(w) \/ GivesBack(w) \/ Sends(w)
      PROVE \A m \in Ids :
              \/ message'[m] = message[m]
              \/ message[m] = "pending" /\ message'[m] = "processing"
              \/ message[m] = "processing" /\ message'[m] = "pending"
  BY <1>0, <1>3 DEF Picks, Claims, GivesBack, Sends
<1> QED
  BY <1>1, <1>2, <1>3, StepKinds, SendFailsGivesBack DEF Settled

(***************************************************************************)
(* Late and repeated completions, stop timeouts, watchdogs and             *)
(* cancellations settle a prompt only once.                                *)
(***************************************************************************)
THEOREM FinishedPromptsKeepOutcome == Spec => OutcomesAreFinal
<1>1. TypeInv /\ QueueInv /\ [Next]_vars
        => [\A m \in Ids : message[m] \in Finished => message'[m] = message[m]]_message
  <2> SUFFICES ASSUME TypeInv, QueueInv, Next, NEW m \in Ids, message[m] \in Finished
               PROVE message'[m] = message[m]
    BY DEF vars, queueVars
  <2> QED
    BY MessageSteps DEF Finished, Terminal
<1> QED
  BY <1>1, QueueInvariant, PTL DEF Spec, OutcomesAreFinal

\* The rows under the stop fence: one at most, and failed.
FenceInv ==
  /\ \A m, n \in awaitingStop : m = n
  /\ \A m \in awaitingStop : message[m] = "failed"

LEMMA FenceStep ==
  ASSUME TypeInv, QueueInv, Next
  PROVE \A m \in awaitingStop' :
          \/ m \in awaitingStop
          \/ m \in Ids /\ message[m] = "processing" /\ message'[m] = "failed"
<1>1. CASE Settles
  BY <1>1 DEF Settles, FenceFollowsStop
<1>2. CASE Admits
  BY <1>2 DEF Admits
<1>3. ASSUME NEW w \in Workers, Picks(w) \/ Claims(w) \/ GivesBack(w) \/ Sends(w)
      PROVE awaitingStop' \subseteq awaitingStop
  BY <1>3 DEF Picks, Claims, GivesBack, Sends
<1> QED
  BY <1>1, <1>2, <1>3, StepKinds, SendFailsGivesBack DEF Settled

LEMMA FenceInvInductive == TypeInv /\ QueueInv /\ FenceInv /\ [Next]_vars => FenceInv'
<1>1. ASSUME TypeInv, QueueInv, FenceInv, Next
      PROVE FenceInv'
  <2>1. awaitingStop \subseteq Ids
    BY <1>1, TypeInvParts
  <2>2. \A m \in awaitingStop' : message'[m] = "failed"
    BY <1>1, <2>1, FenceStep, MessageSteps DEF FenceInv
  <2>3. ASSUME NEW m \in awaitingStop', NEW n \in awaitingStop'
        PROVE m = n
    <3>1. CASE m \in awaitingStop /\ n \in awaitingStop
      BY <1>1, <3>1 DEF FenceInv
    <3>2. CASE m \notin awaitingStop \/ n \notin awaitingStop
      <4>1. \E p \in Processing : TRUE
        BY <1>1, <3>2, FenceStep DEF Processing, Holding
      <4>2. awaitingStop = {}
        BY <1>1, <4>1 DEF QueueInv, NoClaimUnderStopFence
      <4> QED
        BY <1>1, <4>2, FenceStep, OneProcessing DEF QueueInv
    <3> QED
      BY <3>1, <3>2
  <2> QED
    BY <2>2, <2>3 DEF FenceInv
<1>2. FenceInv /\ UNCHANGED vars => FenceInv'
  BY DEF vars, queueVars, FenceInv
<1> QED
  BY <1>1, <1>2

(***************************************************************************)
(* The fence holds at most one row, that of a failed prompt: reading it    *)
(* with LIMIT 1 loses none.                                                *)
(***************************************************************************)
THEOREM FenceHoldsOneRow == Spec => []OneStopFence
<1>1. FenceInv => OneStopFence
  <2> SUFFICES ASSUME FenceInv
               PROVE Cardinality(awaitingStop) <= 1
    BY DEF FenceInv, OneStopFence
  <2>1. CASE awaitingStop = {}
    BY <2>1, FS_EmptySet
  <2>2. CASE awaitingStop # {}
    <3>1. PICK m \in awaitingStop : TRUE
      BY <2>2
    <3>2. awaitingStop = {m}
      BY <3>1 DEF FenceInv
    <3> QED
      BY <3>2, FS_Singleton
  <2> QED
    BY <2>1, <2>2
<1>2. Init => FenceInv
  BY DEF Init, FenceInv
<1> QED
  BY <1>1, <1>2, FenceInvInductive, QueueInvariant, PTL DEF Spec
-----------------------------------------------------------------------------
(***************************************************************************)
(* The status of the session follows its unfinished prompts.               *)
(***************************************************************************)
Shrinks == Unfinished' \subseteq Unfinished

SessionFollows ==
  session' = "active" \/ Unfinished' = {} \/ (session' = session /\ Shrinks)

LEMMA SettlesShrinks == MessagesSettle => Shrinks
BY DEF MessagesSettle, Shrinks, Unfinished, UnfinishedOf, Finished, Terminal

LEMMA FailMessagesFollows ==
  ASSUME NEW S, failMessages(S), Shrinks
  PROVE SessionFollows
BY DEF failMessages, reconcileAfterExecution, SessionFollows, Unfinished

LEMMA FromMessagesFollows ==
  ASSUME reconcileFromMessageState, Shrinks
  PROVE SessionFollows
BY DEF reconcileFromMessageState, FromMessages, SessionFollows, Unfinished

\* The capture of a sandbox, also when a failed write gave a prompt back.
LEMMA TerminateFollows ==
  ASSUME NEW w, NEW after, NEW messages, terminateAndResume(w, after, messages), Shrinks
  PROVE SessionFollows
BY FromMessagesFollows DEF terminateAndResume, requestShutdownEmergency, SessionFollows

LEMMA RequestFollows ==
  ASSUME NEW w \in Workers, Request(w), Shrinks
  PROVE SessionFollows
<1>1. CASE Enqueue(w)
  BY <1>1 DEF Enqueue, SessionFollows
<1>2. CASE Nudge(w) \/ redrivePendingAutofix(w) \/ cancelSandbox(w) \/ raiseBudget(w)
  BY <1>2 DEF Nudge, redrivePendingAutofix, cancelSandbox, raiseBudget, SessionFollows,
     sessionVars, queueVars, Shrinks, Unfinished
<1>3. CASE Stop(w) \/ exhaustBudget(w)
  BY <1>3, FailMessagesFollows DEF Stop, exhaustBudget, stopProcessing, SessionFollows, queueVars,
     Shrinks, Unfinished
<1>4. CASE cancelSession(w)
  <2>1. \A m \in Ids : message'[m] = IF m \in Unfinished THEN "failed" ELSE message[m]
    BY <1>4 DEF cancelSession, Finish
  <2>2. Unfinished' = {}
    BY <2>1 DEF Unfinished, UnfinishedOf
  <2> QED
    BY <2>2 DEF SessionFollows
<1> QED
  BY <1>1, <1>2, <1>3, <1>4 DEF Request

LEMMA DispatchFollows ==
  ASSUME NEW w \in Workers, processMessageQueue(w), Shrinks
  PROVE SessionFollows
<1>1. CASE PickMessage(w) \/ NothingToDispatch(w) \/ DispatchClosed(w)
           \/ startMessageProcessing(w) \/ ClaimIsLost(w) \/ RetryUnsentClaim(w) \/ SendPrompt(w)
  BY <1>1 DEF PickMessage, NothingToDispatch, DispatchClosed, startMessageProcessing,
     ClaimIsLost, RetryUnsentClaim, SendPrompt, sessionVars, SessionFollows
<1>2. CASE FenceExpired(w) \/ SendFails(w)
  BY <1>2, TerminateFollows DEF FenceExpired, SendFails
<1>3. CASE NoCredentials(w) \/ McpUnavailable(w)
  BY <1>3, FailMessagesFollows DEF NoCredentials, McpUnavailable, SessionFollows
<1>4. CASE NoSandbox(w)
  BY <1>4, FromMessagesFollows DEF NoSandbox, reserveStartup, SessionFollows
<1> QED
  BY <1>1, <1>2, <1>3, <1>4 DEF processMessageQueue

LEMMA RuntimeFollows ==
  ASSUME NEW w \in Workers, RuntimeEvent(w), Shrinks
  PROVE SessionFollows
<1>1. CASE handleExecutionComplete(w)
  BY <1>1, FailMessagesFollows DEF handleExecutionComplete, sessionVars, SessionFollows
<1>2. CASE SettleCompletion(w)
  BY <1>2 DEF SettleCompletion, SessionFollows, queueVars, Unfinished, Shrinks
<1>3. CASE triggerSnapshot(w) \/ endCheckpoint(w) \/ recover(w) \/ attach(w) \/ handleReady(w)
  BY <1>3 DEF triggerSnapshot, endCheckpoint, recover, attach, handleReady, sessionVars,
     SessionFollows
<1> QED
  BY <1>1, <1>2, <1>3 DEF RuntimeEvent

LEMMA AlarmFollows ==
  ASSUME NEW w \in Workers, AlarmHandler(w) \/ StopCoordinator(w), Shrinks
  PROVE SessionFollows
<1>1. CASE alarm(w) \/ watchdogNoAction(w) \/ watchdogCaptured(w) \/ watchdogTerminate(w)
           \/ watchdogSuperseded(w) \/ StopDelivered(w) \/ resumeAfterSandboxTermination(w)
  BY <1>1 DEF alarm, watchdogNoAction, watchdogCaptured, watchdogTerminate, watchdogSuperseded,
     StopDelivered, resumeAfterSandboxTermination, sessionVars, SessionFollows
<1>2. CASE recoverStopConfirmationTimeout(w) \/ StopNotDelivered(w)
  BY <1>2, TerminateFollows DEF recoverStopConfirmationTimeout, StopNotDelivered
<1>3. CASE executionTimeout(w) \/ failStuckAfterTermination(w) \/ failPendingMessage(w)
  BY <1>3, FailMessagesFollows
     DEF executionTimeout, failStuckAfterTermination, failPendingMessage, SessionFollows
<1>4. CASE watchdogCapture(w)
  BY <1>4, FromMessagesFollows DEF watchdogCapture, requestShutdownEmergency
<1> QED
  BY <1>1, <1>2, <1>3, <1>4 DEF AlarmHandler, StopCoordinator

LEMMA EnvironmentFollows ==
  ASSUME WorkKeepsSessionActive, Environment, Shrinks
  PROVE SessionFollows
<1>1. CASE cancelQueuedPrompt
  BY <1>1 DEF cancelQueuedPrompt, SessionFollows, Unfinished
<1>2. CASE archive
  BY <1>2 DEF archive, SessionFollows, queueVars, Unfinished
<1>3. CASE unarchive \/ expireDraft
  BY <1>3 DEF unarchive, expireDraft, FromMessages, SessionFollows, queueVars, Unfinished,
     UnfinishedOf, WorkKeepsSessionActive
<1>4. CASE RuntimeCompletes \/ disconnect
  BY <1>4 DEF RuntimeCompletes, disconnect, sessionVars, SessionFollows
<1>5. CASE warm
  BY <1>5, FromMessagesFollows DEF warm, reserveStartup, SessionFollows
<1> QED
  BY <1>1, <1>2, <1>3, <1>4, <1>5 DEF Environment

LEMMA SessionStep ==
  ASSUME TypeInv, QueueInv, WorkKeepsSessionActive, Next
  PROVE SessionFollows
<1>0. message \in [Ids -> MessageStatuses]
  BY TypeInvParts DEF QueueType, MessageType
<1>1. Shrinks \/ session' = "active"
  <2>1. Settles => Shrinks
    BY SettlesShrinks DEF Settles
  <2>2. ASSUME NEW w \in Workers, Picks(w) \/ Claims(w) \/ GivesBack(w) \/ Sends(w)
        PROVE Shrinks
    BY <1>0, <2>2 DEF Picks, Claims, GivesBack, Sends, Shrinks, Unfinished, UnfinishedOf
  <2> QED
    BY <2>1, <2>2, StepKinds, SendFailsGivesBack DEF Settled, Admits
<1>2. CASE Shrinks
  BY <1>2, RequestFollows, DispatchFollows, RuntimeFollows, AlarmFollows, EnvironmentFollows
     DEF Next
<1> QED
  BY <1>1, <1>2 DEF SessionFollows

LEMMA ActiveInductive ==
  TypeInv /\ QueueInv /\ WorkKeepsSessionActive /\ [Next]_vars => WorkKeepsSessionActive'
<1>1. TypeInv /\ QueueInv /\ WorkKeepsSessionActive /\ Next => WorkKeepsSessionActive'
  BY SessionStep DEF SessionFollows, Shrinks, WorkKeepsSessionActive
<1>2. WorkKeepsSessionActive /\ UNCHANGED vars => WorkKeepsSessionActive'
  BY DEF vars, sessionVars, queueVars, WorkKeepsSessionActive, Unfinished, UnfinishedOf
<1> QED
  BY <1>1, <1>2

(***************************************************************************)
(* An unfinished prompt keeps its session active, whatever statuses its    *)
(* settlements, its sweeps and its lifecycle requests write meanwhile.     *)
(***************************************************************************)
THEOREM SessionFollowsPrompts == Spec => []WorkKeepsSessionActive
<1>1. Init => WorkKeepsSessionActive
  BY DEF Init, WorkKeepsSessionActive, Unfinished, UnfinishedOf
<1> QED
  BY <1>1, ActiveInductive, QueueInvariant, PTL DEF Spec

(***************************************************************************)
(* A closed session has no unfinished prompt: no archive, draft sweep or   *)
(* cancellation strands one.                                               *)
(***************************************************************************)
THEOREM ClosedSessionsRest == Spec => []ClosedHasNoWork
<1>1. WorkKeepsSessionActive => ClosedHasNoWork
  BY DEF WorkKeepsSessionActive, ClosedHasNoWork, Closed
<1> QED
  BY <1>1, SessionFollowsPrompts, PTL

-----------------------------------------------------------------------------
(***************************************************************************)
(* An exhausted budget and the prompt it stops change in one step.         *)
(***************************************************************************)
LEMMA BudgetSteps ==
  ASSUME Next
  PROVE \/ budgetExhausted' => budgetExhausted
        \/ \E w \in Workers : exhaustBudget(w) \/ handleExecutionComplete(w)
<1>1. CASE Environment
  BY <1>1 DEF Environment, cancelQueuedPrompt, archive, unarchive, expireDraft,
     RuntimeCompletes, warm, disconnect, sessionVars
<1>2. ASSUME NEW w \in Workers, Request(w)
      PROVE (budgetExhausted' => budgetExhausted) \/ exhaustBudget(w)
  BY <1>2 DEF Request, Enqueue, Nudge, redrivePendingAutofix, Stop, cancelSession,
     cancelSandbox, raiseBudget, sessionVars
<1>3. ASSUME NEW w \in Workers, processMessageQueue(w) \/ StopCoordinator(w)
      PROVE budgetExhausted' = budgetExhausted
  BY <1>3 DEF processMessageQueue, PickMessage, NothingToDispatch, FenceExpired, DispatchClosed,
     NoCredentials, NoSandbox, startMessageProcessing, ClaimIsLost, RetryUnsentClaim,
     McpUnavailable, SendPrompt, SendFails, StopCoordinator, StopDelivered, StopNotDelivered,
     resumeAfterSandboxTermination, sessionVars
<1>4. ASSUME NEW w \in Workers, RuntimeEvent(w)
      PROVE budgetExhausted' = budgetExhausted \/ handleExecutionComplete(w)
  BY <1>4 DEF RuntimeEvent, SettleCompletion, triggerSnapshot, endCheckpoint, recover, attach,
     handleReady, sessionVars
<1>5. ASSUME NEW w \in Workers, AlarmHandler(w)
      PROVE budgetExhausted' = budgetExhausted
  BY <1>5 DEF AlarmHandler, alarm, recoverStopConfirmationTimeout, executionTimeout,
     watchdogNoAction, watchdogCapture, watchdogCaptured, watchdogTerminate,
     watchdogSuperseded, failStuckAfterTermination, failPendingMessage, sessionVars
<1> QED
  BY <1>1, <1>2, <1>3, <1>4, <1>5 DEF Next

LEMMA StopsTheOnlyPrompt ==
  ASSUME TypeInv, QueueInv, NEW m \in Processing, NEW outcome \in Terminal,
         Finish(message, {m}, outcome)
  PROVE Processing' = {}
<1>1. m \in Ids /\ message[m] = "processing"
  BY DEF Processing, Holding
<1>2. \A n \in Ids : message'[n] = IF n = m THEN outcome ELSE message[n]
  BY DEF Finish
<1>3. \A n \in Ids : message'[n] # "processing"
  BY <1>1, <1>2, OneProcessing DEF QueueInv, Terminal
<1> QED
  BY <1>3 DEF Processing, Holding

LEMMA BudgetInductive ==
  TypeInv /\ QueueInv /\ ExhaustedRunsNothing /\ [Next]_vars => ExhaustedRunsNothing'
<1>1. ASSUME TypeInv, QueueInv, ExhaustedRunsNothing, Next
      PROVE ExhaustedRunsNothing'
  <2>3. CASE \E w \in Workers : exhaustBudget(w) \/ handleExecutionComplete(w)
    <3>1. PICK w \in Workers : exhaustBudget(w) \/ handleExecutionComplete(w)
      BY <2>3
    <3>2. \/ \E m \in Processing, outcome \in Terminal : Finish(message, {m}, outcome)
          \/ Processing = {} /\ UNCHANGED message
          \/ UNCHANGED <<budgetExhausted, message>>
      BY <3>1 DEF exhaustBudget, stopProcessing, failMessages, handleExecutionComplete,
         queueVars, sessionVars, Terminal, Processing, Holding
    <3>3. Processing' = {} \/ UNCHANGED <<budgetExhausted, message>>
      BY <1>1, <3>2, StopsTheOnlyPrompt DEF Processing, Holding
    <3> QED
      BY <1>1, <3>3 DEF ExhaustedRunsNothing, Processing, Holding
  <2>4. CASE budgetExhausted' => budgetExhausted
    <3>1. Settles => Processing' \subseteq Processing
      BY DEF Settles, MessagesSettle, Processing, Holding, Finished, Terminal
    <3>2. Admits => Processing' \subseteq Processing
      BY <1>1, TypeInvParts DEF Admits, Processing, Holding, QueueType, MessageType
    <3>3. ASSUME NEW w \in Workers, Picks(w) \/ GivesBack(w) \/ Sends(w)
          PROVE Processing' \subseteq Processing
      BY <1>1, <3>3, TypeInvParts
         DEF Picks, GivesBack, Sends, Processing, Holding, QueueType, MessageType
    <3>4. ASSUME NEW w \in Workers, Claims(w)
          PROVE ~budgetExhausted
      BY <3>4 DEF Claims
    <3> QED
      BY <1>1, <2>4, <3>1, <3>2, <3>3, <3>4, StepKinds, SendFailsGivesBack
         DEF Settled, ExhaustedRunsNothing
  <2> QED
    BY <1>1, <2>3, <2>4, BudgetSteps
<1>2. ExhaustedRunsNothing /\ UNCHANGED vars => ExhaustedRunsNothing'
  BY DEF ExhaustedRunsNothing, vars, sessionVars, queueVars, Processing, Holding
<1> QED
  BY <1>1, <1>2

(***************************************************************************)
(* An exhausted budget leaves no prompt running, whether a cost report, a  *)
(* lowered limit or the late cost of an earlier prompt exhausted it.       *)
(***************************************************************************)
THEOREM ExhaustedStops == Spec => []ExhaustedRunsNothing
<1>1. Init => ExhaustedRunsNothing
  BY DEF Init, ExhaustedRunsNothing
<1> QED
  BY <1>1, BudgetInductive, QueueInvariant, PTL DEF Spec
-----------------------------------------------------------------------------
(***************************************************************************)
(* The queue implements PromptQueue.  A claim and its return are not seen  *)
(* by the author of the prompt; the write to the bridge is what begins it. *)
(***************************************************************************)
Lives == [m \in Ids |-> Life(m)]

LEMMA LifeOf ==
  ASSUME NEW m \in Ids
  PROVE /\ Lives[m] = Life(m)
        /\ message[m] = "absent" => Life(m) = "new"
        /\ message[m] = "pending" => Life(m) = "queued"
        /\ message[m] = "processing" =>
             Life(m) = IF m \in dispatched THEN "begun" ELSE "queued"
        /\ message[m] \in Finished => Life(m) = "done"
BY DEF Lives, Life, Finished, Terminal

LEMMA LifeNext ==
  ASSUME NEW m \in Ids
  PROVE /\ Lives'[m] = Life(m)'
        /\ message'[m] = "absent" => Life(m)' = "new"
        /\ message'[m] = "pending" => Life(m)' = "queued"
        /\ message'[m] = "processing" =>
             Life(m)' = IF m \in dispatched' THEN "begun" ELSE "queued"
        /\ message'[m] \in Finished => Life(m)' = "done"
BY DEF Lives, Life, Finished, Terminal

LEMMA LivesStutter ==
  ASSUME \A m \in Ids : Life(m)' = Life(m)
  PROVE Lives' = Lives
BY DEF Lives

LEMMA SettlesEnds ==
  ASSUME TypeInv, Settles
  PROVE Promise!End
<1>0. message \in [Ids -> MessageStatuses]
  BY TypeInvParts DEF QueueType, MessageType
<1> DEFINE S == {m \in Ids : message[m] \in {"pending", "processing"} /\ message'[m] \in Finished}
<1>1. \A m \in S : Lives[m] \in {"queued", "begun"}
  BY LifeOf
<1>2. \A m \in Ids : Life(m)' = IF m \in S THEN "done" ELSE Lives[m]
  <2> SUFFICES ASSUME NEW m \in Ids
               PROVE Life(m)' = IF m \in S THEN "done" ELSE Lives[m]
    OBVIOUS
  <2>1. CASE m \in S
    BY <2>1, LifeNext
  <2>2. CASE m \notin S
    <3>1. message'[m] = message[m] /\ dispatched' = dispatched
      BY <2>2 DEF Settles, MessagesSettle, Finished
    <3> QED
      BY <2>2, <3>1, LifeOf DEF Life
  <2> QED
    BY <2>1, <2>2
<1>3. Lives' = [m \in Ids |-> IF m \in S THEN "done" ELSE Lives[m]]
  BY <1>2 DEF Lives
<1>4. S \in SUBSET {m \in Ids : Lives[m] \in {"queued", "begun"}}
  BY <1>1
<1> HIDE DEF S
<1> QED
  BY <1>3, <1>4 DEF Promise!End, Promise!Ids, Lives, Ids

LEMMA AdmitsSubmits ==
  ASSUME TypeInv, QueueInv, Admits
  PROVE \E m \in Ids : Promise!Submit(m)
<1>1. PICK m \in Ids :
        /\ message[m] = "absent" /\ \A n \in Ids : message[n] = "absent" => m <= n
        /\ message' = [message EXCEPT ![m] = "pending"]
  BY DEF Admits
<1>0. /\ message \in [Ids -> MessageStatuses] /\ dispatched' = dispatched
      /\ \A n \in Ids : n \in Nat
  BY TypeInvParts, BoundsAssumption DEF QueueType, MessageType, Admits, Ids
<1>2. Lives[m] = "new" /\ Life(m)' = "queued"
  BY <1>0, <1>1, LifeOf, LifeNext
<1>3. \A n \in Ids : n < m => Lives[n] # "new"
  <2> SUFFICES ASSUME NEW n \in Ids, n < m
               PROVE Lives[n] # "new"
    OBVIOUS
  <2>1. message[n] \in MessageStatuses /\ message[n] # "absent"
    BY <1>0, <1>1
  <2> QED
    BY <2>1, LifeOf DEF MessageStatuses, Finished, Terminal
<1>4. \A n \in Ids : n # m => Life(n)' = Life(n)
  BY <1>0, <1>1 DEF Life
<1>5. Lives' = [Lives EXCEPT ![m] = "queued"]
  BY <1>2, <1>4 DEF Lives
<1> QED
  BY <1>2, <1>3, <1>5 DEF Promise!Submit, Promise!Ids, Lives, Ids

\* A prompt changes hands between the queue and a handler.
LEMMA PassingStutters ==
  ASSUME TypeInv, QueueInv, NEW w \in Workers, Picks(w) \/ Claims(w) \/ GivesBack(w)
  PROVE Lives' = Lives
<1>0. message \in [Ids -> MessageStatuses]
  BY TypeInvParts DEF QueueType, MessageType
<1> DEFINE m == worker[w].msg
<1>1. CASE Picks(w)
  BY <1>1, LivesStutter DEF Picks, Life
<1>2. CASE Claims(w)
  <2>1. /\ m \notin dispatched /\ dispatched' = dispatched /\ message[m] = "pending"
        /\ message' = [message EXCEPT ![m] = "processing"]
    BY <1>2 DEF Claims, QueueInv, SentAtMostOnce, Terminal
  <2> HIDE DEF m
  <2>2. \A n \in Ids : Life(n)' = Life(n)
    <3> SUFFICES ASSUME NEW n \in Ids
                 PROVE Life(n)' = Life(n)
      OBVIOUS
    <3>1. CASE n = m
      BY <1>0, <2>1, <3>1, LifeOf, LifeNext
    <3>2. CASE n # m
      BY <1>0, <2>1, <3>2 DEF Life
    <3> QED
      BY <3>1, <3>2
  <2> QED
    BY <2>2, LivesStutter
<1>3. CASE GivesBack(w)
  <2>1. /\ m \notin dispatched /\ dispatched' = dispatched /\ message[m] = "processing"
        /\ message' = [message EXCEPT ![m] = "pending"]
    BY <1>3 DEF GivesBack, QueueInv, SentAtMostOnce
  <2> HIDE DEF m
  <2>2. \A n \in Ids : Life(n)' = Life(n)
    <3> SUFFICES ASSUME NEW n \in Ids
                 PROVE Life(n)' = Life(n)
      OBVIOUS
    <3>1. CASE n = m
      BY <1>0, <2>1, <3>1, LifeOf, LifeNext
    <3>2. CASE n # m
      BY <1>0, <2>1, <3>2 DEF Life
    <3> QED
      BY <3>1, <3>2
  <2> QED
    BY <2>2, LivesStutter
<1> QED
  BY <1>1, <1>2, <1>3

LEMMA SendsBegins ==
  ASSUME TypeInv, QueueInv, NEW w \in Workers, Sends(w)
  PROVE \E m \in Ids : Promise!Begin(m)
<1>1. PICK m \in Ids :
        /\ m = worker[w].msg /\ message[m] = "processing" /\ worker[w].pc = "mcp"
        /\ dispatched' = dispatched \cup {m} /\ message' = message
  BY TypeInvParts DEF Sends, HandlersHoldPrompts
<1>2. m \notin dispatched
  BY <1>1 DEF QueueInv, SentAtMostOnce
<1>3. Lives[m] = "queued" /\ Life(m)' = "begun"
  BY <1>1, <1>2, LifeOf, LifeNext
<1>4. \A n \in Ids : n < m => Lives[n] = "done"
  <2>1. m \in Processing
    BY <1>1 DEF Processing, Holding
  <2> QED
    BY <1>1, <2>1, LifeOf DEF QueueInv, InOrder
<1>5. \A n \in Ids : n # m => Life(n)' = Life(n)
  BY <1>1 DEF Life
<1>6. Lives' = [Lives EXCEPT ![m] = "begun"]
  BY <1>3, <1>5 DEF Lives
<1> QED
  BY <1>1, <1>3, <1>4, <1>6 DEF Promise!Begin, Promise!Ids, Lives, Ids

LEMMA PromiseStep == TypeInv /\ QueueInv /\ [Next]_vars => [Promise!Next]_Lives
<1>1. ASSUME TypeInv, QueueInv, Next
      PROVE Promise!Next \/ Lives' = Lives
  <2>1. Settles => Promise!Next
    BY <1>1, SettlesEnds DEF Promise!Next
  <2>2. Admits => Promise!Next
    BY <1>1, AdmitsSubmits DEF Promise!Next, Promise!Ids, Ids
  <2>3. ASSUME NEW w \in Workers, Sends(w)
        PROVE Promise!Next
    BY <1>1, <2>3, SendsBegins DEF Promise!Next, Promise!Ids, Ids
  <2> QED
    BY <1>1, <2>1, <2>2, <2>3, PassingStutters, StepKinds, SendFailsGivesBack DEF Settled
<1>2. UNCHANGED vars => Lives' = Lives
  BY DEF vars, queueVars, runtimeVars, Lives, Life
<1> QED
  BY <1>1, <1>2

(***************************************************************************)
(* Whatever its handlers, the alarm, the sandbox and the runtime do, the   *)
(* queue starts prompts in order, one at a time, each at most once, and    *)
(* what is done stays done.                                                *)
(***************************************************************************)
THEOREM ImplementsPromptQueue == Spec => KeepsPromise
<1>1. Init => Promise!Init
  BY DEF Init, Promise!Init, Promise!Ids, Ids, Life
<1>2. TypeInv /\ QueueInv /\ [Next]_vars => [Promise!Next]_[m \in Ids |-> Life(m)]
  BY PromiseStep DEF Lives
<1> QED
  BY <1>1, <1>2, QueueInvariant, PTL DEF Spec, KeepsPromise, Promise!Spec
=============================================================================
