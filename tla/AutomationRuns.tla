---------------------------- MODULE AutomationRuns ----------------------------
(***************************************************************************)
(* The runs of one automation: a firing admits an invocation with one run  *)
(* for each target, a launcher gives each run a session and its first      *)
(* prompt, a failed launch of a scheduled run waits and is relaunched, the *)
(* ticks sweep what was abandoned, and every settled invocation is counted *)
(* once toward the streak that pauses the automation.                      *)
(*                                                                         *)
(* All of it is statements over D1 rows, made by workers that overlap and  *)
(* may die between any two.  Each statement is an action; each worker has  *)
(* a record for what it has read and how far it came.  When the automation *)
(* fires is left out: a firing may come whenever its conditional insert    *)
(* admits it.                                                              *)
(***************************************************************************)
EXTENDS Naturals, FiniteSets

CONSTANTS
  MaxInvocations,  \* bound: firings ever admitted, numbered as created_at orders them
  Scheduled,       \* those fired by the schedule, whose failed launches are retried
  Targets,         \* the automation's repositories and environments
  MaxConcurrent,   \* max_concurrent_runs
  MaxRetries,      \* max_retries
  Threshold,       \* AUTO_PAUSE_THRESHOLD
  Ticks,           \* ticks that may overlap
  MaxPauses,       \* bound: times the owner pauses the automation
  MaxFaults        \* bound: workers that die and writes that are lost

ASSUME RunsAssumption ==
  /\ MaxInvocations \in Nat /\ MaxRetries \in Nat
  /\ MaxPauses \in Nat /\ MaxFaults \in Nat
  /\ MaxConcurrent \in Nat \ {0} /\ Threshold \in Nat \ {0}
  /\ IsFiniteSet(Targets) /\ Targets # {}
  /\ Scheduled \subseteq 1..MaxInvocations

Invocations == 1..MaxInvocations
Runs == Invocations \X Targets

VARIABLES
  enabled,   \* the automation's switch
  failures,  \* its consecutive_failures
  counted,   \* invocations with a failure_counted_at
  status,    \* of each run; "none" before admission, "timedout" for execution_timeout
  attempt,   \* which launch of the run this is
  session,   \* the attempt whose session the row names, or 0
  late,      \* runs past the orphan threshold or their execution deadline
  due,       \* waiting runs whose retry_at has passed
  launches,  \* launch() calls under way, or ended and still awaited by their caller
  retries,   \* waiting runs each tick has read, with the attempt it read
  accounts,  \* applyInvocationOutcome calls under way
  tick,      \* each tick: its phase and what it has read
  prompts,   \* each run's attempts whose session took the first prompt
  result,    \* how that prompt's execution ended, once it has
  strikes,   \* history: increments of the streak made for each invocation
  pauses,    \* the owner's pauses so far
  paused,    \* history: the automation has been paused by its streak
  faults     \* history: deaths and lost writes

run == <<status, attempt, session, late, due>>
streak == <<enabled, failures, counted, strikes, pauses, paused>>
world == <<prompts, result>>
vars == <<streak, run, launches, retries, accounts, tick, world, faults>>

Active == {"starting", "running", "retrying"}
Failed == {"failed", "timedout"}
RunsOf(i) == {r \in Runs : r[1] = i}
Admitted(i) == \E r \in RunsOf(i) : status[r] # "none"
InFlight == {i \in Invocations : \E r \in RunsOf(i) : status[r] \in Active}

\* RETRY_ALLOWED_SQL
RetryAllowed(r) == enabled /\ attempt[r] <= MaxRetries

\* A run's clocks are read only in the status they were set for.
Becomes(r, s) ==
  /\ status' = [status EXCEPT ![r] = s]
  /\ late' = late \ {r}
  /\ due' = due \ {r}
Stays == UNCHANGED <<status, late, due>>

Ended == {"ran", "waits", "failed", "unauthorized"}
Launch(r, a, by, at) == [run |-> r, attempt |-> a, by |-> by, at |-> at]
Goes(l, at) == launches' = (launches \ {l}) \cup {[l EXCEPT !.at = at]}
Account(who, i) == [who |-> who, inv |-> i, at |-> "read"]

-----------------------------------------------------------------------------
(* A firing.                                                               *)

\* A target that does not resolve pre-fails its run.  A firing under way when the
\* automation is paused still starts.
insertInvocationGuarded(i) ==
  \E start \in [Targets -> {"starting", "failed"}] :
    /\ ~Admitted(i) /\ \A j \in Invocations : j < i => Admitted(j)
    /\ Cardinality(InFlight) < MaxConcurrent
    /\ status' = [r \in Runs |-> IF r[1] = i THEN start[r[2]] ELSE status[r]]
    /\ launches' = launches \cup {Launch(r, 1, "firing", IF start[r[2]] = "failed"
                                                         THEN "failed" ELSE "begin") : r \in RunsOf(i)}
    /\ UNCHANGED <<streak, attempt, session, late, due, retries, accounts, tick, world, faults>>

LaunchesOf(i) == {l \in launches : l.run[1] = i /\ l.by = "firing"}

\* All its launches have ended; runs that failed have no callback coming.
firingEnds(i) ==
  /\ LaunchesOf(i) # {} /\ \A l \in LaunchesOf(i) : l.at \in Ended
  /\ launches' = launches \ LaunchesOf(i)
  /\ IF \/ \E l \in LaunchesOf(i) : l.at = "failed"
        \/ \A l \in LaunchesOf(i) : l.at = "unauthorized"
     THEN accounts' = accounts \cup {Account(<<"firing", i>>, i)}
     ELSE UNCHANGED accounts
  /\ UNCHANGED <<streak, run, retries, tick, world, faults>>

firingDies(i) ==
  /\ LaunchesOf(i) # {} /\ faults < MaxFaults
  /\ launches' = launches \ LaunchesOf(i)
  /\ faults' = faults + 1
  /\ UNCHANGED <<streak, run, retries, accounts, tick, world>>

-----------------------------------------------------------------------------
(* A launch: claim a session for the run, create it, send its first prompt. *)

\* The row is claimed before the session exists, unless a sweep was first.
claimRunSession(l) ==
  /\ l.at = "begin"
  /\ IF status[l.run] = "starting"
     THEN /\ Becomes(l.run, "running")
          /\ session' = [session EXCEPT ![l.run] = l.attempt]
          /\ Goes(l, "create")
     ELSE Goes(l, "failing") /\ Stays /\ UNCHANGED session
  /\ UNCHANGED <<streak, attempt, retries, accounts, tick, world, faults>>

\* The session's own settings replace the deadline of the claim.
setRunExecutionDeadline(l) ==
  /\ l.at = "create"
  /\ late' = IF status[l.run] = "running" THEN late \ {l.run} ELSE late
  /\ Goes(l, "initialize")
  /\ UNCHANGED <<streak, status, attempt, session, due, retries, accounts, tick, world, faults>>

initializeSession(l) ==
  /\ l.at = "initialize"
  /\ Goes(l, "send")
  /\ UNCHANGED <<streak, run, retries, accounts, tick, world, faults>>

\* The launch is refused: for now, by a configuration no attempt can run ("final"),
\* or because its principal lost the authority.
launchFails(l) ==
  /\ \/ l.at = "begin" /\ \E why \in {"failing", "final"} : Goes(l, why)
     \/ l.at = "create" /\ Goes(l, "failing")
     \/ l.at = "initialize" /\ \E why \in {"failing", "final", "denied"} : Goes(l, why)
  /\ UNCHANGED <<streak, run, retries, accounts, tick, world, faults>>

\* Mutant: an enqueue whose answer is lost is retried like any failed launch.
EnqueueRetried(l) ==
  /\ l.at = "send"
  /\ \/ /\ prompts' = [prompts EXCEPT ![l.run] = @ \cup {l.attempt}]
        /\ \E at \in {"ran", "failing"} : Goes(l, at)
     \/ Goes(l, "failing") /\ UNCHANGED prompts
  /\ UNCHANGED <<streak, run, retries, accounts, tick, result, faults>>

\* The session takes the prompt or not, and its answer may be lost.
enqueueFirstPrompt(l) ==
  /\ l.at = "send"
  /\ \/ /\ prompts' = [prompts EXCEPT ![l.run] = @ \cup {l.attempt}]
        /\ \E at \in {"ran", "final"} : Goes(l, at)
     \/ Goes(l, "final") /\ UNCHANGED prompts
  /\ UNCHANGED <<streak, run, retries, accounts, tick, result, faults>>

Launching(r) == status[r] \in {"starting", "running"}
Retryable(l) == l.at = "failing" /\ l.run[1] \in Scheduled

\* Whoever is denied is unauthorized; a retryable launch waits while another
\* attempt is allowed.
FailureOf(l) ==
  IF l.at = "denied" THEN "unauthorized"
  ELSE IF Retryable(l) /\ RetryAllowed(l.run) THEN "retrying" ELSE "failed"

\* The write that records it, on a run that is still launching.
FailureWritten(l) ==
  IF Launching(l.run)
  THEN /\ Becomes(l.run, FailureOf(l))
       /\ session' = [session EXCEPT ![l.run] = IF FailureOf(l) = "failed" THEN @ ELSE 0]
  ELSE Stays /\ UNCHANGED session

\* The store says whether the run waits.
failLaunchOrRetry(l) ==
  /\ Retryable(l)
  /\ FailureWritten(l)
  /\ Goes(l, IF Launching(l.run) /\ RetryAllowed(l.run) THEN "waits" ELSE "failed")
  /\ UNCHANGED <<streak, attempt, retries, accounts, tick, world, faults>>

\* A failure no attempt is owed for.
recordFailure(l) ==
  /\ l.at \in {"failing", "final", "denied"} /\ ~Retryable(l)
  /\ FailureWritten(l)
  /\ Goes(l, IF l.at = "denied" THEN "unauthorized" ELSE "failed")
  /\ UNCHANGED <<streak, attempt, retries, accounts, tick, world, faults>>

\* The write or only its answer is lost, and the launch ends as failed although
\* its run may wait.
failureUnconfirmed(l) ==
  /\ l.at \in {"failing", "final", "denied"} /\ faults < MaxFaults
  /\ FailureWritten(l) \/ (Stays /\ UNCHANGED session)
  /\ Goes(l, IF l.at = "denied" THEN "unauthorized" ELSE "failed")
  /\ faults' = faults + 1
  /\ UNCHANGED <<streak, attempt, retries, accounts, tick, world>>

launch(l) ==
  \/ claimRunSession(l) \/ setRunExecutionDeadline(l) \/ initializeSession(l)
  \/ launchFails(l) \/ enqueueFirstPrompt(l)
  \/ failLaunchOrRetry(l) \/ recordFailure(l) \/ failureUnconfirmed(l)

-----------------------------------------------------------------------------
(* A retry: the run is admitted again, claimed, and launched.              *)

\* One claim wins.  A denial or a failed admission still spends the attempt.
claimRetry(q) ==
  /\ q.at = "claim"
  /\ IF status[q.run] = "retrying" /\ attempt[q.run] = q.attempt /\ q.run \in due /\ RetryAllowed(q.run)
     THEN /\ Becomes(q.run, "starting")
          /\ attempt' = [attempt EXCEPT ![q.run] = @ + 1]
          /\ retries' = retries \ {q}
          /\ \E admission \in {"begin", "failing", "denied"} :
               launches' = launches \cup {Launch(q.run, q.attempt + 1, "retry", admission)}
     ELSE /\ retries' = (retries \ {q}) \cup {[q EXCEPT !.at = "withdraw"]}
          /\ Stays /\ UNCHANGED <<attempt, launches>>
  /\ UNCHANGED <<streak, session, accounts, tick, world, faults>>

\* Mutant: a waiting run whose automation was paused is left for its resumption.
KeepWithdrawn(q) ==
  /\ q.at = "withdraw"
  /\ retries' = retries \ {q}
  /\ UNCHANGED <<streak, run, launches, accounts, tick, world, faults>>

\* A run its automation no longer allows to relaunch fails where it waits.
failWithdrawnRetry(q) ==
  /\ q.at = "withdraw"
  /\ retries' = retries \ {q}
  /\ IF status[q.run] = "retrying" /\ ~RetryAllowed(q.run)
     THEN /\ Becomes(q.run, "failed")
          /\ accounts' = accounts \cup {Account(<<"retry", q.run>>, q.run[1])}
     ELSE Stays /\ UNCHANGED accounts
  /\ UNCHANGED <<streak, attempt, session, launches, tick, world, faults>>

\* Whatever ended the relaunch, unless the run goes on, is counted.
relaunchEnds(l) ==
  /\ l.by = "retry" /\ l.at \in Ended
  /\ launches' = launches \ {l}
  /\ accounts' = IF l.at \in {"ran", "waits"} THEN accounts
                 ELSE accounts \cup {Account(<<"retry", l.run>>, l.run[1])}
  /\ UNCHANGED <<streak, run, retries, tick, world, faults>>

relaunchDies(l) ==
  /\ l.by = "retry" /\ faults < MaxFaults
  /\ launches' = launches \ {l}
  /\ faults' = faults + 1
  /\ UNCHANGED <<streak, run, retries, accounts, tick, world>>

retryDies(q) ==
  /\ faults < MaxFaults
  /\ retries' = retries \ {q}
  /\ faults' = faults + 1
  /\ UNCHANGED <<streak, run, launches, accounts, tick, world>>

-----------------------------------------------------------------------------
(* applyInvocationOutcome: at most one strike for each invocation.         *)

Proceeds(c, at) == accounts' = (accounts \ {c}) \cup {[c EXCEPT !.at = at]}
Returns(c) == accounts' = accounts \ {c}

getInvocationRunAggregate(c) ==
  /\ c.at = "read"
  /\ LET has(s) == \E r \in RunsOf(c.inv) : status[r] \in s
     IN  CASE has(Failed) /\ ~has({"retrying"}) -> Proceeds(c, "mark")
           [] \A r \in RunsOf(c.inv) : status[r] = "completed" -> Proceeds(c, "reset")
           [] OTHER -> Returns(c)
  /\ UNCHANGED <<streak, run, launches, retries, tick, world, faults>>

\* Mutant: whoever finds a failure counts it.
MarkAgain(c) ==
  /\ c.at = "mark"
  /\ counted' = counted \cup {c.inv} /\ Proceeds(c, "count")
  /\ UNCHANGED <<enabled, failures, strikes, pauses, paused, run, launches, retries, tick, world, faults>>

\* One caller wins the right to count the invocation.
tryMarkInvocationFailureCounted(c) ==
  /\ c.at = "mark"
  /\ IF c.inv \in counted
     THEN Returns(c) /\ UNCHANGED counted
     ELSE counted' = counted \cup {c.inv} /\ Proceeds(c, "count")
  /\ UNCHANGED <<enabled, failures, strikes, pauses, paused, run, launches, retries, tick, world, faults>>

\* The increment, and then the number it is read back as.
incrementConsecutiveFailures(c) ==
  \/ /\ c.at = "count"
     /\ failures' = failures + 1
     /\ strikes' = [strikes EXCEPT ![c.inv] = @ + 1]
     /\ Proceeds(c, "look")
     /\ UNCHANGED <<enabled, counted, pauses, paused, run, launches, retries, tick, world, faults>>
  \/ /\ c.at = "look"
     /\ IF failures >= Threshold THEN Proceeds(c, "pause") ELSE Returns(c)
     /\ UNCHANGED <<streak, run, launches, retries, tick, world, faults>>

autoPause(c) ==
  /\ c.at = "pause"
  /\ enabled' = FALSE
  /\ paused' = TRUE
  /\ Returns(c)
  /\ UNCHANGED <<failures, counted, strikes, pauses, run, launches, retries, tick, world, faults>>

resetConsecutiveFailures(c) ==
  /\ c.at = "reset"
  /\ failures' = 0
  /\ Returns(c)
  /\ UNCHANGED <<enabled, counted, strikes, pauses, paused, run, launches, retries, tick, world, faults>>

applyInvocationOutcome(c) ==
  \/ getInvocationRunAggregate(c) \/ tryMarkInvocationFailureCounted(c)
  \/ incrementConsecutiveFailures(c) \/ autoPause(c) \/ resetConsecutiveFailures(c)

accountDies(c) ==
  /\ faults < MaxFaults
  /\ Returns(c)
  /\ faults' = faults + 1
  /\ UNCHANGED <<streak, run, launches, retries, tick, world>>

-----------------------------------------------------------------------------
(* A tick: the recovery sweep, then the retries whose wait is over.        *)

Resting == [at |-> "rest", orphans |-> {}, overdue |-> {}, todo |-> {}]
Calls(t) == {c \in accounts : c.who = <<"tick", t>>}
Phase(t, at, todo) == tick' = [tick EXCEPT ![t] = [Resting EXCEPT !.at = at, !.todo = todo]]

\* Both lists are read at the start.
recoverRuns(t) ==
  /\ tick[t].at = "rest"
  /\ tick' = [tick EXCEPT ![t] =
       [Resting EXCEPT !.at = "orphans",
          !.orphans = {r \in late : status[r] = "starting"},
          !.overdue = {r \in late : status[r] = "running"}]]
  /\ UNCHANGED <<streak, run, launches, retries, accounts, world, faults>>

\* Mutant: what the sweep read is failed, whatever it is by now.
FailAsRead(t) ==
  /\ tick[t].at = "timeouts"
  /\ status' = [r \in Runs |-> IF r \in tick[t].overdue THEN "timedout" ELSE status[r]]
  /\ Phase(t, "recovered", {r[1] : r \in tick[t].orphans \cup tick[t].overdue})
  /\ UNCHANGED <<streak, attempt, session, late, due, launches, retries, accounts, world, faults>>

\* The two bulk writes ask again what the lists were selected by.
bulkFailStartingRuns(t) ==
  /\ tick[t].at = "orphans"
  /\ LET stuck == {r \in tick[t].orphans \cap late : status[r] = "starting"}
     IN  /\ status' = [r \in Runs |-> IF r \in stuck THEN "failed" ELSE status[r]]
         /\ late' = late \ stuck
  /\ tick' = [tick EXCEPT ![t].at = "timeouts"]
  /\ UNCHANGED <<streak, attempt, session, due, launches, retries, accounts, world, faults>>

bulkFailRunningRuns(t) ==
  /\ tick[t].at = "timeouts"
  /\ LET lost == {r \in tick[t].overdue \cap late : status[r] = "running"}
     IN  /\ status' = [r \in Runs |-> IF r \in lost THEN "timedout" ELSE status[r]]
         /\ late' = late \ lost
  /\ Phase(t, "recovered", {r[1] : r \in tick[t].orphans \cup tick[t].overdue})
  /\ UNCHANGED <<streak, attempt, session, due, launches, retries, accounts, world, faults>>

\* The invocations a phase found are accounted one after another.
tickAccounts(t) ==
  /\ Calls(t) = {}
  /\ \E i \in tick[t].todo :
       /\ accounts' = accounts \cup {Account(<<"tick", t>>, i)}
       /\ tick' = [tick EXCEPT ![t].todo = @ \ {i}]
  /\ UNCHANGED <<streak, run, launches, retries, world, faults>>

Finished(t) == tick[t].todo = {} /\ Calls(t) = {}

\* Mutant: only what this sweep recovered is accounted.
SkipFinalization(t) ==
  /\ tick[t].at = "recovered" /\ Finished(t)
  /\ Phase(t, "finalize", {})
  /\ UNCHANGED <<streak, run, launches, retries, accounts, world, faults>>

\* Settled invocations with a failed run that nobody counted.
getUncountedFailedInvocations(t) ==
  /\ tick[t].at = "recovered" /\ Finished(t)
  /\ Phase(t, "finalize", {i \in Invocations \ (counted \cup InFlight) :
                             \E r \in RunsOf(i) : status[r] \in Failed})
  /\ UNCHANGED <<streak, run, launches, retries, accounts, world, faults>>

\* Mutant: an invocation that was counted as failed resets nothing.
ResetUncounted(t) ==
  /\ tick[t].at = "finalize" /\ Finished(t)
  /\ LET relevant == {i \in Invocations :
                        \E r \in RunsOf(i) : status[r] \in Active \cup Failed \cup {"completed"}}
     IN  Phase(t, "resets", {i \in relevant \ counted : failures > 0 /\ \A j \in relevant : j <= i})
  /\ UNCHANGED <<streak, run, launches, retries, accounts, world, faults>>

\* The latest invocation, if a streak stands that it may end.
getStaleFailureResetCandidates(t) ==
  /\ tick[t].at = "finalize" /\ Finished(t)
  /\ LET relevant == {i \in Invocations :
                        \E r \in RunsOf(i) : status[r] \in Active \cup Failed \cup {"completed"}}
     IN  Phase(t, "resets", {i \in relevant : failures > 0 /\ \A j \in relevant : j <= i})
  /\ UNCHANGED <<streak, run, launches, retries, accounts, world, faults>>

\* Each waiting run that is due, or no longer allowed, is settled on its own.
retryDue(t) ==
  /\ tick[t].at = "resets" /\ Finished(t)
  /\ retries' = retries \cup {[tick |-> t, run |-> r, attempt |-> attempt[r], at |-> "claim"] :
                   r \in {s \in Runs : status[s] = "retrying" /\ (s \in due \/ ~RetryAllowed(s))}}
  /\ tick' = [tick EXCEPT ![t] = Resting]
  /\ UNCHANGED <<streak, run, launches, accounts, world, faults>>

tickDies(t) ==
  /\ tick[t].at # "rest" /\ faults < MaxFaults
  /\ tick' = [tick EXCEPT ![t] = Resting]
  /\ accounts' = accounts \ Calls(t)
  /\ faults' = faults + 1
  /\ UNCHANGED <<streak, run, launches, retries, world>>

tickPhase(t) ==
  \/ recoverRuns(t) \/ bulkFailStartingRuns(t) \/ bulkFailRunningRuns(t)
  \/ getUncountedFailedInvocations(t) \/ getStaleFailureResetCandidates(t) \/ retryDue(t)

-----------------------------------------------------------------------------
(* The session's answer.                                                   *)

SessionFinishes(r) ==
  /\ prompts[r] # {} /\ result[r] = "none"
  /\ \E answer \in {"success", "error"} : result' = [result EXCEPT ![r] = answer]
  /\ UNCHANGED <<streak, run, launches, retries, accounts, tick, prompts, faults>>

\* Sent until it is answered, so perhaps more than once.  A success may still
\* correct a timeout the sweep inferred, which is not accounted again.
runComplete(r) ==
  /\ result[r] # "none"
  /\ \/ /\ Launching(r)
        /\ Becomes(r, IF result[r] = "success" THEN "completed" ELSE "failed")
        /\ accounts' = accounts \cup {Account(<<"callback", r>>, r[1])}
     \/ /\ status[r] = "timedout" /\ result[r] = "success"
        /\ Becomes(r, "completed")
        /\ UNCHANGED accounts
  /\ UNCHANGED <<streak, attempt, session, launches, retries, tick, world, faults>>

-----------------------------------------------------------------------------
(* Time, and the automation's owner.                                       *)

GrowsLate(r) ==
  /\ Launching(r) /\ r \notin late
  /\ late' = late \cup {r}
  /\ UNCHANGED <<streak, status, attempt, session, due, launches, retries, accounts, tick, world, faults>>

FallsDue(r) ==
  /\ status[r] = "retrying" /\ r \notin due
  /\ due' = due \cup {r}
  /\ UNCHANGED <<streak, status, attempt, session, late, launches, retries, accounts, tick, world, faults>>

pause ==
  /\ pauses < MaxPauses
  /\ enabled' = FALSE
  /\ pauses' = pauses + 1
  /\ UNCHANGED <<failures, counted, strikes, paused, run, launches, retries, accounts, tick, world, faults>>

resume ==
  /\ enabled' = TRUE
  /\ failures' = 0
  /\ UNCHANGED <<counted, strikes, pauses, paused, run, launches, retries, accounts, tick, world, faults>>

-----------------------------------------------------------------------------
Init ==
  /\ enabled = TRUE /\ failures = 0 /\ counted = {}
  /\ status = [r \in Runs |-> "none"]
  /\ attempt = [r \in Runs |-> 1]
  /\ session = [r \in Runs |-> 0]
  /\ late = {} /\ due = {}
  /\ launches = {} /\ retries = {} /\ accounts = {}
  /\ tick = [t \in Ticks |-> Resting]
  /\ prompts = [r \in Runs |-> {}]
  /\ result = [r \in Runs |-> "none"]
  /\ strikes = [i \in Invocations |-> 0]
  /\ pauses = 0 /\ paused = FALSE /\ faults = 0

Fire == \E i \in Invocations : insertInvocationGuarded(i) \/ firingEnds(i) \/ firingDies(i)
Launches == \E l \in launches : launch(l) \/ relaunchEnds(l) \/ relaunchDies(l)
Retry == \E q \in retries : claimRetry(q) \/ failWithdrawnRetry(q) \/ retryDies(q)
Accounting == \E c \in accounts : applyInvocationOutcome(c) \/ accountDies(c)
Tick == \E t \in Ticks : tickPhase(t) \/ tickAccounts(t) \/ tickDies(t)
Answers == \E r \in Runs : SessionFinishes(r) \/ runComplete(r)
Time == \E r \in Runs : GrowsLate(r) \/ FallsDue(r)

Next ==
  \/ Fire \/ Launches \/ Retry \/ Accounting \/ Tick \/ Answers \/ Time
  \/ pause \/ resume

Spec == Init /\ [][Next]_vars

\* Ticks come every minute and run on unless they die, what a tick starts runs on,
\* and time passes.  Launchers, callbacks and their accounting owe nothing.
Fairness ==
  /\ \A t \in Ticks :
       /\ WF_vars(tickPhase(t))
       /\ WF_vars(tickAccounts(t))
       /\ WF_vars(\E c \in Calls(t) : applyInvocationOutcome(c))
  /\ \A r \in Runs :
       /\ WF_vars(\E q \in retries : q.run = r /\ claimRetry(q))
       /\ WF_vars(\E q \in retries : q.run = r /\ failWithdrawnRetry(q))
       /\ WF_vars(GrowsLate(r)) /\ WF_vars(FallsDue(r))

FairSpec == Spec /\ Fairness

-----------------------------------------------------------------------------
(* Properties.                                                             *)

Statuses == {"none", "completed", "unauthorized"} \cup Active \cup Failed

StreakTypes ==
  /\ enabled \in BOOLEAN /\ failures \in Nat /\ counted \subseteq Invocations
  /\ strikes \in [Invocations -> Nat] /\ pauses \in 0..MaxPauses /\ paused \in BOOLEAN

RunTypes ==
  /\ status \in [Runs -> Statuses] /\ attempt \in [Runs -> Nat] /\ session \in [Runs -> Nat]
  /\ late \subseteq Runs /\ due \subseteq Runs

WorldTypes == prompts \in [Runs -> SUBSET Nat] /\ result \in [Runs -> {"none", "success", "error"}]

LaunchType ==
  [run : Runs, attempt : Nat, by : {"firing", "retry"},
   at : {"begin", "create", "initialize", "send", "failing", "final", "denied"} \cup Ended]

RetryType == [tick : Ticks, run : Runs, attempt : Nat, at : {"claim", "withdraw"}]

Callers ==
  ({"firing"} \X Invocations) \cup ({"tick"} \X Ticks) \cup ({"retry", "callback"} \X Runs)

AccountType ==
  [who : Callers, inv : Invocations, at : {"read", "mark", "count", "look", "pause", "reset"}]

TickType ==
  [at : {"rest", "orphans", "timeouts", "recovered", "finalize", "resets"},
   orphans : SUBSET Runs, overdue : SUBSET Runs, todo : SUBSET Invocations]

WorkTypes ==
  /\ launches \subseteq LaunchType /\ retries \subseteq RetryType
  /\ accounts \subseteq AccountType /\ tick \in [Ticks -> TickType]

\* Every column and every worker's record keeps its type.
TypeOK == StreakTypes /\ RunTypes /\ WorldTypes /\ WorkTypes /\ faults \in 0..MaxFaults

\* Over all launches, retries, sweeps and lost answers, a run's work is given to
\* at most one session, and that is the session its row names.
OnePromptPerRun == \A r \in Runs : prompts[r] \subseteq {session[r]}

\* No two workers launch the same run at once.
OneLauncherPerRun ==
  \A l, m \in launches : l.run = m.run /\ l.at \notin Ended /\ m.at \notin Ended => l = m

\* Firings in flight, waiting ones included, never exceed the automation's bound,
\* so no settled run comes back to life either.
WithinConcurrency == Cardinality(InFlight) <= MaxConcurrent

\* A run's outcome is final; only an inferred timeout gives way, to a success.
OutcomesAreFinal ==
  [][\A r \in Runs : status[r] \in Failed \cup {"completed", "unauthorized"} =>
       \/ status'[r] = status[r]
       \/ status[r] = "timedout" /\ status'[r] = "completed"]_vars

\* Whoever races to account it, an invocation costs at most one strike.
OneStrikePerInvocation == \A i \in Invocations : strikes[i] <= 1

\* The streak never pauses an automation before Threshold different firings failed.
PauseTakesDistinctFailures ==
  paused => Cardinality({i \in Invocations : strikes[i] > 0}) >= Threshold

\* Whatever dies, a run that holds its automation lets go of it.
RunsSettle == \A r \in Runs : status[r] \in Active ~> status[r] \notin Active

\* A failed firing is marked as counted even if the worker that should have done
\* it died, unless its failure turns out to have been none.
FailuresAreCounted ==
  \A i \in Invocations :
    Admitted(i) /\ i \notin InFlight /\ (\E r \in RunsOf(i) : status[r] \in Failed)
      ~> i \in counted \/ \A r \in RunsOf(i) : status[r] \notin Failed

\* A streak does not outlive a latest firing that completed fully.
Succeeded(i) == \A r \in RunsOf(i) : status[r] = "completed"
StreakIsReset ==
  \A i \in Invocations :
    Succeeded(i) ~> failures = 0 \/ \E j \in Invocations : j > i /\ Admitted(j)
=============================================================================
