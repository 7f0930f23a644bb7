-------------------------- MODULE AutomationRunsProofs --------------------------
(***************************************************************************)
(* Theorems about AutomationRuns, for any number of firings, targets,      *)
(* ticks, retries and faults.  Three invariants: what a launch that has    *)
(* not ended knows of its run (Launched), what a call that won the right   *)
(* to count an invocation knows of it (Counting), and what the streak owes *)
(* to the invocations that were counted (Streak).                          *)
(***************************************************************************)
EXTENDS AutomationRuns, FiniteSetTheorems, TLAPS

\* The steps of Next.
LEMMA Steps ==
  ASSUME Next
  PROVE  \/ \E i \in Invocations : insertInvocationGuarded(i) \/ firingEnds(i) \/ firingDies(i)
         \/ \E l \in launches : launch(l) \/ relaunchEnds(l) \/ relaunchDies(l)
         \/ \E q \in retries : claimRetry(q) \/ failWithdrawnRetry(q) \/ retryDies(q)
         \/ \E c \in accounts : applyInvocationOutcome(c) \/ accountDies(c)
         \/ \E t \in Ticks : tickPhase(t) \/ tickAccounts(t) \/ tickDies(t)
         \/ \E r \in Runs : SessionFinishes(r) \/ runComplete(r) \/ GrowsLate(r) \/ FallsDue(r)
         \/ pause \/ resume
BY DEF Next, Fire, Launches, Retry, Accounting, Tick, Answers, Time

-----------------------------------------------------------------------------
(* Types.                                                                  *)

\* A run has an invocation.
LEMMA RunFacts ==
  /\ \A r \in Runs : r[1] \in Invocations
  /\ \A r \in Runs, i \in Invocations : r \in RunsOf(i) <=> r[1] = i
  /\ \A i \in Invocations : RunsOf(i) \subseteq Runs
BY DEF Runs, RunsOf

LEMMA LaunchKeepsType ==
  ASSUME TypeOK, NEW l \in launches, launch(l)
  PROVE  TypeOK'
<1> USE DEF TypeOK, StreakTypes, RunTypes, WorldTypes, WorkTypes, streak, run, world,
            Stays, Becomes, Goes, Active, Failed, Ended, Statuses, LaunchType
<1>1. l \in LaunchType /\ launches \subseteq LaunchType
  BY DEF WorkTypes
<1>2. ASSUME NEW at \in {"begin", "create", "initialize", "send", "failing", "final", "denied"} \cup Ended,
             Goes(l, at)
      PROVE  launches' \subseteq LaunchType
  BY <1>1, <1>2
<1>3. CASE claimRunSession(l)
  BY <1>1, <1>2, <1>3 DEF claimRunSession
<1>4. CASE setRunExecutionDeadline(l)
  BY <1>1, <1>2, <1>4 DEF setRunExecutionDeadline
<1>5. CASE initializeSession(l)
  BY <1>1, <1>2, <1>5 DEF initializeSession
<1>6. CASE launchFails(l)
  BY <1>1, <1>2, <1>6 DEF launchFails
<1>7. CASE enqueueFirstPrompt(l)
  BY <1>1, <1>2, <1>7 DEF enqueueFirstPrompt
<1>8. CASE failLaunchOrRetry(l)
  BY <1>1, <1>2, <1>8 DEF failLaunchOrRetry, FailureWritten, FailureOf
<1>9. CASE recordFailure(l)
  BY <1>1, <1>2, <1>9 DEF recordFailure, FailureWritten, FailureOf
<1>10. CASE failureUnconfirmed(l)
  BY <1>1, <1>2, <1>10, RunsAssumption DEF failureUnconfirmed, FailureWritten, FailureOf
<1> QED BY <1>3, <1>4, <1>5, <1>6, <1>7, <1>8, <1>9, <1>10 DEF launch

\* A firing, and the retries of waiting runs.
LEMMA FiringKeepsType ==
  ASSUME TypeOK, NEW i \in Invocations,
         insertInvocationGuarded(i) \/ firingEnds(i) \/ firingDies(i)
  PROVE  TypeOK'
<1> USE DEF TypeOK, StreakTypes, RunTypes, WorldTypes, WorkTypes, streak, run, world
<1>1. CASE insertInvocationGuarded(i)
  <2>1. PICK start \in [Targets -> {"starting", "failed"}] :
          /\ status' = [r \in Runs |-> IF r[1] = i THEN start[r[2]] ELSE status[r]]
          /\ launches' = launches \cup {Launch(r, 1, "firing", IF start[r[2]] = "failed"
                                                THEN "failed" ELSE "begin") : r \in RunsOf(i)}
          /\ UNCHANGED <<streak, attempt, session, late, due, retries, accounts, tick, world, faults>>
    BY <1>1 DEF insertInvocationGuarded
  <2>2. status' \in [Runs -> Statuses]
    BY <2>1 DEF Runs, Statuses, Active, Failed
  <2>3. launches' \subseteq LaunchType
    BY <2>1, RunFacts DEF Launch, LaunchType, Ended
  <2> QED BY <2>1, <2>2, <2>3
<1>2. CASE firingEnds(i)
  <2>1. Account(<<"firing", i>>, i) \in AccountType
    BY DEF Account, AccountType, Callers
  <2> QED BY <1>2, <2>1 DEF firingEnds
<1>3. CASE firingDies(i)
  BY <1>3, RunsAssumption DEF firingDies
<1> QED BY <1>1, <1>2, <1>3

LEMMA RetryKeepsType ==
  ASSUME TypeOK,
         \/ \E l \in launches : relaunchEnds(l) \/ relaunchDies(l)
         \/ \E q \in retries : claimRetry(q) \/ failWithdrawnRetry(q) \/ retryDies(q)
  PROVE  TypeOK'
<1> USE DEF TypeOK, StreakTypes, RunTypes, WorldTypes, WorkTypes, streak, run, world
<1>1. ASSUME NEW r \in Runs PROVE Account(<<"retry", r>>, r[1]) \in AccountType
  BY RunFacts DEF Account, AccountType, Callers
<1>2. ASSUME NEW l \in launches, relaunchEnds(l) PROVE TypeOK'
  BY <1>1, <1>2 DEF relaunchEnds, LaunchType
<1>3. ASSUME NEW l \in launches, relaunchDies(l) PROVE TypeOK'
  BY <1>3, RunsAssumption DEF relaunchDies
<1>4. ASSUME NEW q \in retries, claimRetry(q) PROVE TypeOK'
  <2>1. q \in RetryType
    OBVIOUS
  <2>2. ASSUME NEW at \in {"begin", "failing", "denied"}
        PROVE  Launch(q.run, q.attempt + 1, "retry", at) \in LaunchType
    BY <2>1 DEF Launch, LaunchType, RetryType
  <2>3. [q EXCEPT !.at = "withdraw"] \in RetryType
    BY <2>1 DEF RetryType
  <2> QED BY <1>4, <2>1, <2>2, <2>3 DEF claimRetry, Becomes, Stays, Statuses, Active, RetryType
<1>5. ASSUME NEW q \in retries, failWithdrawnRetry(q) PROVE TypeOK'
  BY <1>1, <1>5 DEF failWithdrawnRetry, Becomes, Stays, Statuses, Failed, RetryType
<1>6. ASSUME NEW q \in retries, retryDies(q) PROVE TypeOK'
  BY <1>6, RunsAssumption DEF retryDies
<1> QED BY <1>2, <1>3, <1>4, <1>5, <1>6

LEMMA AccountKeepsType ==
  ASSUME TypeOK, NEW c \in accounts, applyInvocationOutcome(c) \/ accountDies(c)
  PROVE  TypeOK'
<1> USE DEF TypeOK, StreakTypes, RunTypes, WorldTypes, WorkTypes, streak, run, world,
            Proceeds, Returns, AccountType
<1>1. CASE getInvocationRunAggregate(c)
  BY <1>1 DEF getInvocationRunAggregate
<1>2. CASE tryMarkInvocationFailureCounted(c)
  BY <1>2 DEF tryMarkInvocationFailureCounted
<1>3. CASE incrementConsecutiveFailures(c)
  BY <1>3 DEF incrementConsecutiveFailures
<1>4. CASE autoPause(c)
  BY <1>4 DEF autoPause
<1>5. CASE resetConsecutiveFailures(c)
  BY <1>5 DEF resetConsecutiveFailures
<1>6. CASE accountDies(c)
  BY <1>6, RunsAssumption DEF accountDies
<1> QED BY <1>1, <1>2, <1>3, <1>4, <1>5, <1>6 DEF applyInvocationOutcome

LEMMA TickKeepsType ==
  ASSUME TypeOK, NEW t \in Ticks, tickPhase(t) \/ tickAccounts(t) \/ tickDies(t)
  PROVE  TypeOK'
<1> USE DEF TypeOK, StreakTypes, RunTypes, WorldTypes, WorkTypes, streak, run, world
<1>1. tick[t] \in TickType
  OBVIOUS
<1>2. ASSUME NEW at \in {"recovered", "finalize", "resets"}, NEW todo \in SUBSET Invocations,
             Phase(t, at, todo)
      PROVE  tick' \in [Ticks -> TickType]
  BY <1>2 DEF Phase, Resting, TickType
<1>3. CASE recoverRuns(t)
  BY <1>3 DEF recoverRuns, Resting, TickType
<1>4. CASE bulkFailStartingRuns(t)
  BY <1>1, <1>4 DEF bulkFailStartingRuns, TickType, Statuses, Failed
<1>5. CASE bulkFailRunningRuns(t)
  <2>1. {r[1] : r \in tick[t].orphans \cup tick[t].overdue} \in SUBSET Invocations
    BY <1>1, RunFacts DEF TickType
  <2>2. tick' \in [Ticks -> TickType]
    BY <1>2, <1>5, <2>1 DEF bulkFailRunningRuns
  <2> QED BY <1>5, <2>2 DEF bulkFailRunningRuns, Statuses, Failed
<1>6. CASE getUncountedFailedInvocations(t)
  BY <1>2, <1>6 DEF getUncountedFailedInvocations
<1>7. CASE getStaleFailureResetCandidates(t)
  BY <1>2, <1>7 DEF getStaleFailureResetCandidates
<1>8. CASE retryDue(t)
  <2>1. retries' \subseteq RetryType
    BY <1>8 DEF retryDue, RetryType
  <2>2. tick' \in [Ticks -> TickType]
    BY <1>8 DEF retryDue, Resting, TickType
  <2> QED BY <1>8, <2>1, <2>2 DEF retryDue
<1>9. CASE tickAccounts(t)
  <2>1. \A i \in tick[t].todo : Account(<<"tick", t>>, i) \in AccountType
    BY <1>1 DEF Account, AccountType, Callers, TickType
  <2>2. PICK i \in tick[t].todo :
          /\ accounts' = accounts \cup {Account(<<"tick", t>>, i)}
          /\ tick' = [tick EXCEPT ![t].todo = @ \ {i}]
    BY <1>9 DEF tickAccounts
  <2>3. [tick[t] EXCEPT !.todo = @ \ {i}] \in TickType
    BY <1>1 DEF TickType
  <2>4. accounts' \subseteq AccountType /\ tick' \in [Ticks -> TickType]
    BY <2>1, <2>2, <2>3
  <2> QED BY <1>9, <2>4 DEF tickAccounts
<1>10. CASE tickDies(t)
  BY <1>10, RunsAssumption DEF tickDies, Resting, TickType
<1> QED BY <1>3, <1>4, <1>5, <1>6, <1>7, <1>8, <1>9, <1>10 DEF tickPhase

LEMMA WorldKeepsType ==
  ASSUME TypeOK,
         \/ \E r \in Runs : SessionFinishes(r) \/ runComplete(r) \/ GrowsLate(r) \/ FallsDue(r)
         \/ pause \/ resume
  PROVE  TypeOK'
<1> USE DEF TypeOK, StreakTypes, RunTypes, WorldTypes, WorkTypes, streak, run, world
<1>1. ASSUME NEW r \in Runs, SessionFinishes(r) PROVE TypeOK'
  BY <1>1 DEF SessionFinishes
<1>2. ASSUME NEW r \in Runs, runComplete(r) PROVE TypeOK'
  <2>1. Account(<<"callback", r>>, r[1]) \in AccountType
    BY RunFacts DEF Account, AccountType, Callers
  <2> QED BY <1>2, <2>1 DEF runComplete, Becomes, Statuses, Failed
<1>3. ASSUME NEW r \in Runs, GrowsLate(r) \/ FallsDue(r) PROVE TypeOK'
  BY <1>3 DEF GrowsLate, FallsDue
<1>4. CASE pause
  <2>1. pauses' \in 0..MaxPauses
    BY <1>4, RunsAssumption DEF pause
  <2> QED BY <1>4, <2>1 DEF pause
<1>5. CASE resume
  BY <1>5 DEF resume
<1> QED BY <1>1, <1>2, <1>3, <1>4, <1>5

LEMMA TypeStep == TypeOK /\ [Next]_vars => TypeOK'
<1>1. CASE UNCHANGED vars
  BY <1>1 DEF TypeOK, StreakTypes, RunTypes, WorldTypes, WorkTypes, vars, streak, run, world
<1>2. ASSUME TypeOK, Next PROVE TypeOK'
  BY <1>2, Steps, FiringKeepsType, LaunchKeepsType, RetryKeepsType, AccountKeepsType, TickKeepsType,
     WorldKeepsType
<1> QED BY <1>1, <1>2

LEMMA TypeInit == Init => TypeOK
<1> SUFFICES ASSUME Init PROVE TypeOK
  OBVIOUS
<1>1. MaxPauses \in Nat /\ MaxFaults \in Nat
  BY RunsAssumption
<1>2. StreakTypes
  <2>1. enabled \in BOOLEAN /\ paused \in BOOLEAN
    BY Zenon DEF Init
  <2>2. /\ failures \in Nat /\ counted \subseteq Invocations /\ pauses \in 0..MaxPauses
        /\ strikes \in [Invocations -> Nat]
    BY <1>1 DEF Init
  <2> QED BY <2>1, <2>2 DEF StreakTypes
<1>3. WorldTypes
  BY DEF Init, WorldTypes
<1>4. faults \in 0..MaxFaults
  BY <1>1 DEF Init
<1>5. RunTypes
  BY DEF Init, RunTypes, Statuses
<1>6. WorkTypes
  BY DEF Init, WorkTypes, TickType, Resting
<1> QED BY <1>2, <1>3, <1>4, <1>5, <1>6 DEF TypeOK

\* Every column and every worker's record keeps its type, for any number of firings, targets,
\* ticks, retries, pauses and faults (the columns of db/automation-store.ts).
THEOREM TypeCorrect == Spec => []TypeOK
BY TypeInit, TypeStep, PTL DEF Spec

-----------------------------------------------------------------------------
(* How a run's status moves.                                               *)

\* No step but an admission brings a run to life, and an outcome gives way
\* only where a timeout was inferred.
Moves ==
  \A r \in Runs :
    \/ status'[r] = status[r]
    \/ status[r] \in Active /\ status'[r] # "none"
    \/ status[r] = "timedout" /\ status'[r] = "completed"

LEMMA BecomesMoves ==
  ASSUME TypeOK, NEW r \in Runs, status[r] \in Active, NEW s \in Statuses \ {"none"}, Becomes(r, s)
  PROVE  Moves
BY DEF TypeOK, RunTypes, Becomes, Moves

LEMMA LaunchMoves ==
  ASSUME TypeOK, NEW l \in launches, launch(l)
  PROVE  Moves
<1> USE DEF Stays, run
<1>1. l.run \in Runs
  BY DEF TypeOK, WorkTypes, LaunchType
<1>2. CASE claimRunSession(l)
  <2>1. CASE status[l.run] = "starting"
    BY <1>1, <1>2, <2>1, BecomesMoves DEF claimRunSession, Active, Statuses
  <2> QED BY <1>2, <2>1 DEF claimRunSession, Moves
<1>3. CASE failLaunchOrRetry(l) \/ recordFailure(l) \/ failureUnconfirmed(l)
  <2>1. CASE Launching(l.run) /\ FailureWritten(l)
    BY <1>1, <2>1, BecomesMoves
       DEF FailureWritten, FailureOf, Launching, Active, Failed, Statuses
  <2>2. CASE Stays \/ ~Launching(l.run)
    BY <1>3, <2>2 DEF failLaunchOrRetry, recordFailure, failureUnconfirmed, FailureWritten, Moves
  <2> QED BY <1>3, <2>1, <2>2 DEF failLaunchOrRetry, recordFailure, failureUnconfirmed
<1> QED BY <1>2, <1>3
     DEF launch, setRunExecutionDeadline, initializeSession, launchFails, enqueueFirstPrompt, Moves

LEMMA RetryMoves ==
  ASSUME TypeOK, NEW q \in retries, claimRetry(q) \/ failWithdrawnRetry(q) \/ retryDies(q)
  PROVE  Moves
<1> USE DEF Stays, run
<1>1. q.run \in Runs
  BY DEF TypeOK, WorkTypes, RetryType
<1>2. CASE status' = status
  BY <1>2 DEF Moves
<1>3. ASSUME status' # status
      PROVE  /\ status[q.run] = "retrying"
             /\ Becomes(q.run, "starting") \/ Becomes(q.run, "failed")
  BY <1>3 DEF claimRetry, failWithdrawnRetry, retryDies
<1> QED BY <1>1, <1>2, <1>3, BecomesMoves DEF Active, Failed, Statuses

LEMMA TickMoves ==
  ASSUME TypeOK, NEW t \in Ticks, tickPhase(t) \/ tickAccounts(t) \/ tickDies(t)
  PROVE  Moves
<1>1. CASE bulkFailStartingRuns(t)
  BY <1>1 DEF bulkFailStartingRuns, Moves, Active
<1>2. CASE bulkFailRunningRuns(t)
  BY <1>2 DEF bulkFailRunningRuns, Moves, Active
<1> QED BY <1>1, <1>2
     DEF tickPhase, tickAccounts, tickDies, recoverRuns, getUncountedFailedInvocations,
         getStaleFailureResetCandidates, retryDue, run, Moves

LEMMA RunMoves ==
  ASSUME TypeOK, NEW r \in Runs,
         SessionFinishes(r) \/ runComplete(r) \/ GrowsLate(r) \/ FallsDue(r)
  PROVE  Moves
<1>1. CASE runComplete(r)
  <2>1. CASE Launching(r) /\ Becomes(r, IF result[r] = "success" THEN "completed" ELSE "failed")
    BY <2>1, BecomesMoves DEF Launching, Active, Failed, Statuses
  <2>2. CASE status[r] = "timedout" /\ Becomes(r, "completed")
    BY <2>2 DEF Becomes, Moves, TypeOK, RunTypes
  <2> QED BY <1>1, <2>1, <2>2 DEF runComplete
<1> QED BY <1>1 DEF SessionFinishes, GrowsLate, FallsDue, run, Moves

LEMMA AllMoves ==
  ASSUME TypeOK, [Next]_vars
  PROVE  Moves \/ \E i \in Invocations : insertInvocationGuarded(i)
<1>1. CASE status' = status
  BY <1>1 DEF Moves
<1>2. ASSUME NEW i \in Invocations, firingEnds(i) \/ firingDies(i) PROVE status' = status
  BY <1>2 DEF firingEnds, firingDies, run
<1>3. ASSUME NEW l \in launches, relaunchEnds(l) \/ relaunchDies(l) PROVE status' = status
  BY <1>3 DEF relaunchEnds, relaunchDies, run
<1>4. ASSUME NEW c \in accounts, applyInvocationOutcome(c) \/ accountDies(c) PROVE status' = status
  BY <1>4 DEF applyInvocationOutcome, getInvocationRunAggregate, tryMarkInvocationFailureCounted,
              incrementConsecutiveFailures, autoPause, resetConsecutiveFailures, accountDies, run
<1>5. CASE pause \/ resume \/ UNCHANGED vars
  BY <1>5, <1>1 DEF pause, resume, run, vars
<1> QED BY <1>1, <1>2, <1>3, <1>4, <1>5, Steps, LaunchMoves, RetryMoves, TickMoves, RunMoves

\* A run's outcome is final, but an inferred timeout gives way to a success: whichever launches,
\* sweeps and callbacks race for it (updateRun, bulkFailRuns, completeTimedOutRun).
THEOREM OutcomesStay == Spec => OutcomesAreFinal
<1> DEFINE Final == \A r \in Runs : status[r] \in Failed \cup {"completed", "unauthorized"} =>
                     \/ status'[r] = status[r]
                     \/ status[r] = "timedout" /\ status'[r] = "completed"
<1>1. ASSUME TypeOK, [Next]_vars PROVE Final
  <2>1. CASE Moves
    BY <2>1 DEF Moves, Active, Failed
  <2>2. ASSUME NEW i \in Invocations, insertInvocationGuarded(i) PROVE Final
    <3>1. \A r \in Runs : r[1] = i => status[r] = "none"
      BY <2>2, RunFacts DEF insertInvocationGuarded, Admitted
    <3>2. \A r \in Runs : r[1] # i => status'[r] = status[r]
      BY <2>2 DEF insertInvocationGuarded
    <3> QED BY <3>1, <3>2 DEF Failed
  <2> QED BY <1>1, <2>1, <2>2, AllMoves
<1>2. TypeOK /\ [Next]_vars => [Final]_vars
  BY <1>1
<1> QED BY <1>2, TypeCorrect, PTL DEF Spec, OutcomesAreFinal

\* There are finitely many invocations.
LEMMA InvocationSets == \A S \in SUBSET Invocations : IsFiniteSet(S) /\ Cardinality(S) \in Nat
<1>1. MaxInvocations \in Nat
  BY RunsAssumption
<1>2. IsFiniteSet(Invocations)
  BY <1>1, FS_Interval DEF Invocations
<1> QED BY <1>2, FS_Subset, FS_CardinalityType

\* Firings in flight, those that wait to retry included, never exceed max_concurrent_runs: only
\* the guarded insert adds one (insertInvocationGuarded).
THEOREM ConcurrencyIsBounded == Spec => []WithinConcurrency
<1>1. /\ MaxConcurrent \in Nat \ {0}
      /\ \A S \in SUBSET Invocations : IsFiniteSet(S) /\ Cardinality(S) \in Nat
  BY InvocationSets, RunsAssumption
<1>2. Init => WithinConcurrency
  <2>1. Init => InFlight = {}
    BY RunFacts DEF Init, InFlight, Active
  <2> QED BY <2>1, <1>1, FS_EmptySet DEF WithinConcurrency
<1>3. ASSUME TypeOK, WithinConcurrency, [Next]_vars PROVE WithinConcurrency'
  <2>1. InFlight \in SUBSET Invocations /\ InFlight' \in SUBSET Invocations
    BY DEF InFlight
  <2>2. CASE Moves
    <3>1. InFlight' \subseteq InFlight
      BY <2>2, RunFacts DEF Moves, InFlight, Active
    <3> QED BY <1>1, <1>3, <2>1, <3>1, FS_Subset DEF WithinConcurrency
  <2>3. ASSUME NEW i \in Invocations, insertInvocationGuarded(i) PROVE WithinConcurrency'
    <3>1. InFlight' \subseteq InFlight \cup {i}
      BY <2>3, RunFacts DEF insertInvocationGuarded, InFlight
    <3>2. Cardinality(InFlight) < MaxConcurrent
      BY <2>3 DEF insertInvocationGuarded
    <3>3. /\ IsFiniteSet(InFlight \cup {i})
          /\ Cardinality(InFlight \cup {i}) <= Cardinality(InFlight) + 1
      BY <1>1, <2>1, FS_AddElement
    <3>4. Cardinality(InFlight') <= Cardinality(InFlight \cup {i})
      BY <3>1, <3>3, FS_Subset
    <3>5. InFlight \cup {i} \in SUBSET Invocations
      BY <2>1
    <3> QED BY <1>1, <2>1, <3>2, <3>3, <3>4, <3>5 DEF WithinConcurrency
  <2> QED BY <1>3, <2>2, <2>3, AllMoves
<1> QED BY <1>2, <1>3, TypeCorrect, PTL DEF Spec

-----------------------------------------------------------------------------
(* Accounting.                                                             *)

Struck == {i \in Invocations : strikes[i] > 0}

\* The call that won the right to count an invocation is alone with it, and
\* no strike was made for it yet.
Counting ==
  /\ \A c, d \in accounts : c.at = "count" /\ d.at = "count" /\ c.inv = d.inv => c = d
  /\ \A c \in accounts : c.at = "count" => c.inv \in counted /\ strikes[c.inv] = 0
  /\ \A i \in Invocations : strikes[i] <= 1 /\ (i \notin counted => strikes[i] = 0)

\* The streak is made of distinct invocations, and so is the pause it leads to.
Streak ==
  /\ failures <= Cardinality(Struck)
  /\ (paused \/ \E c \in accounts : c.at = "pause") => Cardinality(Struck) >= Threshold

AccountInv == Counting /\ Streak

\* Whoever else joins or leaves, a call that counts is as before.
LEMMA CountingStays ==
  ASSUME AccountInv,
         \A c \in accounts' : c.at \in {"count", "pause"} => c \in accounts,
         strikes' = strikes, counted \subseteq counted', failures' <= failures \/ failures' = failures,
         failures' \in Nat, failures \in Nat, Cardinality(Struck) \in Nat, paused' = paused
  PROVE  AccountInv'
<1>1. Struck' = Struck
  BY DEF Struck
<1>2. Counting'
  BY DEF AccountInv, Counting
<1>3. Streak'
  BY <1>1 DEF AccountInv, Streak
<1> QED BY <1>2, <1>3 DEF AccountInv

LEMMA AccountStep ==
  ASSUME TypeOK, AccountInv, NEW c \in accounts, applyInvocationOutcome(c) \/ accountDies(c)
  PROVE  AccountInv'
<1> USE DEF Proceeds, Returns, streak
<1>1. /\ c \in AccountType /\ c.inv \in Invocations /\ failures \in Nat /\ Threshold \in Nat
      /\ strikes \in [Invocations -> Nat] /\ accounts \subseteq AccountType
  BY RunsAssumption DEF TypeOK, WorkTypes, StreakTypes, AccountType
<1>2. Cardinality(Struck) \in Nat /\ IsFiniteSet(Struck)
  BY InvocationSets DEF Struck
<1>3. \A at \in {"mark", "count", "look", "pause", "reset"} :
        /\ [c EXCEPT !.at = at].at = at /\ [c EXCEPT !.at = at].inv = c.inv
  BY <1>1 DEF AccountType
<1>4. CASE getInvocationRunAggregate(c)
  <2>1. \A d \in accounts' : d.at \in {"count", "pause"} => d \in accounts
    BY <1>3, <1>4 DEF getInvocationRunAggregate
  <2>2. strikes' = strikes /\ counted' = counted /\ failures' = failures /\ paused' = paused
    BY <1>4 DEF getInvocationRunAggregate
  <2> QED BY <1>1, <1>2, <2>1, <2>2, CountingStays
<1>5. CASE tryMarkInvocationFailureCounted(c)
  <2>1. strikes' = strikes /\ failures' = failures /\ paused' = paused
    BY <1>5 DEF tryMarkInvocationFailureCounted
  <2>2. CASE c.inv \in counted
    <3>1. accounts' \subseteq accounts /\ counted' = counted
      BY <1>5, <2>2 DEF tryMarkInvocationFailureCounted
    <3> QED BY <1>1, <1>2, <2>1, <3>1, CountingStays
  <2>3. CASE c.inv \notin counted
    <3>1. counted' = counted \cup {c.inv} /\ Proceeds(c, "count")
      BY <1>5, <2>3 DEF tryMarkInvocationFailureCounted
    <3>2. \A d \in accounts : d.at = "count" => d.inv # c.inv
      BY <2>3 DEF AccountInv, Counting
    <3>3. strikes[c.inv] = 0
      BY <1>1, <2>3 DEF AccountInv, Counting
    <3>4. Counting'
      <4>1. \A d \in accounts' : d \in accounts \/ d = [c EXCEPT !.at = "count"]
        BY <3>1
      <4> DEFINE n == [c EXCEPT !.at = "count"]
      <4>2. n.inv = c.inv
        BY <1>3
      <4> HIDE DEF n
      <4>3. \A d \in accounts' : d \in accounts \/ d = n
        BY <4>1 DEF n
      <4>4. \A d, e \in accounts' : d.at = "count" /\ e.at = "count" /\ d.inv = e.inv => d = e
        BY <3>2, <4>2, <4>3 DEF AccountInv, Counting
      <4>5. \A d \in accounts' : d.at = "count" => d.inv \in counted' /\ strikes'[d.inv] = 0
        BY <1>3, <2>1, <3>1, <3>3, <4>1 DEF AccountInv, Counting
      <4>6. \A i \in Invocations : strikes'[i] <= 1 /\ (i \notin counted' => strikes'[i] = 0)
        BY <2>1, <3>1 DEF AccountInv, Counting
      <4> QED BY <4>4, <4>5, <4>6 DEF Counting
    <3>5. Struck' = Struck
      BY <2>1 DEF Struck
    <3>6. Streak'
      BY <1>3, <2>1, <3>1, <3>5 DEF AccountInv, Streak
    <3> QED BY <3>4, <3>6 DEF AccountInv
  <2> QED BY <2>2, <2>3
<1>6. CASE incrementConsecutiveFailures(c)
  <2>1. CASE c.at = "count"
    <3>1. /\ failures' = failures + 1 /\ strikes' = [strikes EXCEPT ![c.inv] = @ + 1]
          /\ Proceeds(c, "look") /\ counted' = counted /\ paused' = paused
      BY <1>6, <2>1 DEF incrementConsecutiveFailures
    <3>2. /\ c.inv \in counted /\ strikes[c.inv] = 0
          /\ \A d \in accounts : d.at = "count" /\ d # c => d.inv # c.inv
      BY <2>1 DEF AccountInv, Counting
    <3>3. strikes'[c.inv] = 1 /\ \A i \in Invocations : i # c.inv => strikes'[i] = strikes[i]
      BY <1>1, <3>1, <3>2
    <3>4. Counting'
      <4>1. \A d \in accounts' : d.at = "count" => d \in accounts /\ d # c
        BY <1>3, <3>1
      <4>2. \A d \in accounts : d.inv \in Invocations
        BY <1>1 DEF AccountType
      <4>3. \A d \in accounts' : d.at = "count" => d.inv \in counted' /\ strikes'[d.inv] = 0
        BY <3>1, <3>2, <3>3, <4>1, <4>2 DEF AccountInv, Counting
      <4>4. \A d, e \in accounts' : d.at = "count" /\ e.at = "count" /\ d.inv = e.inv => d = e
        BY <4>1 DEF AccountInv, Counting
      <4>5. \A i \in Invocations : strikes'[i] <= 1 /\ (i \notin counted' => strikes'[i] = 0)
        BY <3>1, <3>2, <3>3 DEF AccountInv, Counting
      <4> QED BY <4>3, <4>4, <4>5 DEF Counting
    <3>5. Struck' = Struck \cup {c.inv} /\ c.inv \notin Struck
      BY <1>1, <3>2, <3>3 DEF Struck
    <3>6. Cardinality(Struck') = Cardinality(Struck) + 1
      BY <1>2, <3>5, FS_AddElement
    <3>7. \A d \in accounts' : d.at = "pause" => d \in accounts
      BY <1>3, <3>1
    <3>8. Streak'
      BY <1>1, <1>2, <3>1, <3>6, <3>7 DEF AccountInv, Streak
    <3> QED BY <3>4, <3>8 DEF AccountInv
  <2>2. CASE c.at = "look"
    <3>1. strikes' = strikes /\ counted' = counted /\ failures' = failures /\ paused' = paused
      BY <1>6, <2>2 DEF incrementConsecutiveFailures
    <3>2. Struck' = Struck
      BY <3>1 DEF Struck
    <3>3. \A d \in accounts' : d.at = "count" => d \in accounts
      BY <1>3, <1>6, <2>2 DEF incrementConsecutiveFailures
    <3>4. Counting'
      BY <3>1, <3>3 DEF AccountInv, Counting
    <3>5. CASE failures >= Threshold
      <4>1. Cardinality(Struck) >= Threshold
        BY <1>1, <1>2, <3>5 DEF AccountInv, Streak
      <4> QED BY <3>1, <3>2, <3>4, <4>1 DEF AccountInv, Streak
    <3>6. CASE ~(failures >= Threshold)
      <4>1. accounts' \subseteq accounts
        BY <1>6, <2>2, <3>6 DEF incrementConsecutiveFailures
      <4> QED BY <1>1, <1>2, <3>1, <4>1, CountingStays
    <3> QED BY <3>5, <3>6
  <2> QED BY <1>6, <2>1, <2>2 DEF incrementConsecutiveFailures
<1>7. CASE autoPause(c)
  <2>1. /\ strikes' = strikes /\ counted' = counted /\ failures' = failures
        /\ accounts' \subseteq accounts /\ c.at = "pause"
    BY <1>7 DEF autoPause
  <2>2. Struck' = Struck
    BY <2>1 DEF Struck
  <2> QED BY <2>1, <2>2 DEF AccountInv, Counting, Streak
<1>8. CASE resetConsecutiveFailures(c)
  <2>1. /\ strikes' = strikes /\ counted' = counted /\ failures' = 0 /\ paused' = paused
        /\ accounts' \subseteq accounts
    BY <1>8 DEF resetConsecutiveFailures
  <2> QED BY <1>1, <1>2, <2>1, CountingStays
<1>9. CASE accountDies(c)
  <2>1. /\ strikes' = strikes /\ counted' = counted /\ failures' = failures /\ paused' = paused
        /\ accounts' \subseteq accounts
    BY <1>9 DEF accountDies
  <2> QED BY <1>1, <1>2, <2>1, CountingStays
<1> QED BY <1>4, <1>5, <1>6, <1>7, <1>8, <1>9 DEF applyInvocationOutcome

\* Who is not accounting only adds calls that begin.
LEMMA OthersBegin ==
  ASSUME [Next]_vars
  PROVE  \/ \E c \in accounts : applyInvocationOutcome(c) \/ accountDies(c)
         \/ /\ \A c \in accounts' : c \in accounts \/ c.at = "read"
            /\ UNCHANGED <<counted, strikes, paused>> /\ failures' \in {failures, 0}
<1> DEFINE Begins == /\ \A c \in accounts' : c \in accounts \/ c.at = "read"
                     /\ UNCHANGED <<counted, strikes, paused>> /\ failures' \in {failures, 0}
<1> USE DEF streak, Account
<1>1. CASE UNCHANGED vars
  BY <1>1 DEF vars
<1>2. ASSUME NEW i \in Invocations, insertInvocationGuarded(i) \/ firingEnds(i) \/ firingDies(i)
      PROVE  Begins
  BY <1>2 DEF insertInvocationGuarded, firingEnds, firingDies
<1>3. ASSUME NEW l \in launches, launch(l) PROVE Begins
  BY <1>3 DEF launch, claimRunSession, setRunExecutionDeadline, initializeSession, launchFails,
              enqueueFirstPrompt, failLaunchOrRetry, recordFailure, failureUnconfirmed
<1>4. ASSUME NEW l \in launches, relaunchEnds(l) \/ relaunchDies(l) PROVE Begins
  BY <1>4 DEF relaunchEnds, relaunchDies
<1>5. ASSUME NEW q \in retries, claimRetry(q) \/ failWithdrawnRetry(q) \/ retryDies(q)
      PROVE  Begins
  BY <1>5 DEF claimRetry, failWithdrawnRetry, retryDies
<1>6. ASSUME NEW t \in Ticks, tickPhase(t) \/ tickAccounts(t) \/ tickDies(t) PROVE Begins
  BY <1>6 DEF tickPhase, tickAccounts, tickDies, recoverRuns, bulkFailStartingRuns,
              bulkFailRunningRuns, getUncountedFailedInvocations, getStaleFailureResetCandidates,
              retryDue
<1>7. ASSUME NEW r \in Runs, SessionFinishes(r) \/ runComplete(r) \/ GrowsLate(r) \/ FallsDue(r)
      PROVE  Begins
  BY <1>7 DEF SessionFinishes, runComplete, GrowsLate, FallsDue
<1>8. CASE pause \/ resume
  BY <1>8 DEF pause, resume
<1> QED BY <1>1, <1>2, <1>3, <1>4, <1>5, <1>6, <1>7, <1>8, Steps

LEMMA AccountInvariant == Spec => []AccountInv
<1>1. ASSUME Init PROVE AccountInv
  <2>1. accounts = {} /\ Struck = {} /\ failures = 0 /\ paused = FALSE
        /\ \A i \in Invocations : strikes[i] = 0
    BY <1>1 DEF Init, Struck
  <2> QED BY <2>1, FS_EmptySet DEF AccountInv, Counting, Streak
<1>2. ASSUME TypeOK, AccountInv, [Next]_vars PROVE AccountInv'
  <2>1. failures \in Nat /\ Cardinality(Struck) \in Nat
    BY <1>2, InvocationSets DEF TypeOK, StreakTypes, Struck
  <2>2. CASE /\ \A c \in accounts' : c \in accounts \/ c.at = "read"
             /\ UNCHANGED <<counted, strikes, paused>> /\ failures' \in {failures, 0}
    BY <1>2, <2>1, <2>2, CountingStays
  <2> QED BY <1>2, <2>2, OthersBegin, AccountStep
<1> QED BY <1>1, <1>2, TypeCorrect, PTL DEF Spec

\* However many callbacks, launchers and ticks account it, and whatever dies among them, an
\* invocation costs at most one strike (the failure_counted_at mark).
THEOREM StrikesAreSingle == Spec => []OneStrikePerInvocation
<1>1. AccountInv => OneStrikePerInvocation
  BY DEF AccountInv, Counting, OneStrikePerInvocation
<1> QED BY <1>1, AccountInvariant, PTL

\* The streak pauses an automation only after Threshold distinct firings failed (autoPause after
\* incrementConsecutiveFailures), for every threshold and any overlap of resets and increments.
THEOREM PausesAreEarned == Spec => []PauseTakesDistinctFailures
<1>1. AccountInv => PauseTakesDistinctFailures
  BY DEF AccountInv, Streak, Struck, PauseTakesDistinctFailures
<1> QED BY <1>1, AccountInvariant, PTL

-----------------------------------------------------------------------------
(* Launches.                                                               *)

\* What a launch that has not ended knows of its run.
LaunchOK(l) ==
  l.at \notin Ended =>
    /\ l.attempt = attempt[l.run] /\ status[l.run] \notin {"none", "retrying"}
    /\ l.at # "final" => prompts[l.run] = {}
    /\ l.at \in {"create", "initialize", "send"} =>
         session[l.run] = l.attempt /\ status[l.run] # "starting"

\* A run that has no session, or is to get another one, has given none its work.
RunOK(r) ==
  /\ prompts[r] \subseteq {session[r]}
  /\ status[r] \in {"none", "starting", "retrying"} => prompts[r] = {}
  /\ status[r] = "none" => attempt[r] = 1

Launched == OneLauncherPerRun /\ (\A l \in launches : LaunchOK(l)) /\ (\A r \in Runs : RunOK(r))

\* Launches may end, and runs be settled by others, meanwhile.
LEMMA Settles ==
  ASSUME Launched, launches \subseteq LaunchType, launches' \subseteq launches,
         attempt' = attempt, session' = session, prompts' = prompts,
         \A r \in Runs : status'[r] = status[r]
                        \/ (status[r] # "none" /\ status'[r] \in Failed \cup {"completed", "unauthorized"})
  PROVE  Launched'
<1>1. \A l \in launches : l.run \in Runs
  BY DEF LaunchType
<1>2. OneLauncherPerRun'
  BY DEF Launched, OneLauncherPerRun
<1>3. ASSUME NEW l \in launches' PROVE LaunchOK(l)'
  BY <1>1, <1>3 DEF Launched, LaunchOK, Failed
<1>4. ASSUME NEW r \in Runs PROVE RunOK(r)'
  BY <1>4 DEF Launched, RunOK, Failed
<1> QED BY <1>2, <1>3, <1>4 DEF Launched

\* A launch that has not ended goes on, and touches no run but its own.
LEMMA OneGoes ==
  ASSUME Launched, launches \subseteq LaunchType, NEW l \in launches, l.at \notin Ended,
         NEW at, Goes(l, at),
         attempt' = attempt,
         \A r \in Runs \ {l.run} :
           status'[r] = status[r] /\ session'[r] = session[r] /\ prompts'[r] = prompts[r],
         LaunchOK([l EXCEPT !.at = at])', RunOK(l.run)'
  PROVE  Launched'
<1> DEFINE n == [l EXCEPT !.at = at]
<1>1. n.run = l.run /\ \A m \in launches : m.run \in Runs
  BY DEF LaunchType
<1>2. LaunchOK(n)'
  OBVIOUS
<1>3. launches' = (launches \ {l}) \cup {n}
  BY DEF Goes
<1> HIDE DEF n
<1>4. \A m \in launches : m # l /\ m.at \notin Ended => m.run # l.run
  BY DEF Launched, OneLauncherPerRun
<1>5. OneLauncherPerRun'
  BY <1>1, <1>3, <1>4 DEF Launched, OneLauncherPerRun
<1>6. ASSUME NEW m \in launches' PROVE LaunchOK(m)'
  <2>1. CASE m = n
    BY <1>2, <2>1
  <2>2. CASE m \in launches \ {l}
    BY <1>1, <1>4, <2>2 DEF Launched, LaunchOK
  <2> QED BY <1>3, <2>1, <2>2
<1>7. ASSUME NEW r \in Runs PROVE RunOK(r)'
  BY <1>7 DEF Launched, RunOK
<1> QED BY <1>5, <1>6, <1>7 DEF Launched

LEMMA LaunchStep ==
  ASSUME TypeOK, Launched, NEW l \in launches, launch(l)
  PROVE  Launched'
<1> USE DEF Stays, run, world
<1>1. /\ launches \subseteq LaunchType /\ l \in LaunchType /\ l.run \in Runs /\ l.attempt \in Nat
      /\ status \in [Runs -> Statuses] /\ session \in [Runs -> Nat] /\ prompts \in [Runs -> SUBSET Nat]
  BY DEF TypeOK, WorkTypes, RunTypes, WorldTypes, LaunchType
<1>2. l.at \notin Ended
  BY DEF launch, claimRunSession, setRunExecutionDeadline, initializeSession, launchFails,
         enqueueFirstPrompt, failLaunchOrRetry, recordFailure, failureUnconfirmed, Retryable, Ended
<1>3. /\ LaunchOK(l) /\ RunOK(l.run)
  BY <1>1 DEF Launched
<1>4. \A at : /\ [l EXCEPT !.at = at].at = at /\ [l EXCEPT !.at = at].run = l.run
              /\ [l EXCEPT !.at = at].attempt = l.attempt
  BY <1>1 DEF LaunchType
<1>5. ASSUME NEW at, Goes(l, at), UNCHANGED <<attempt, status, session, prompts>>,
             \/ at \in Ended \/ at = "final"
             \/ at \in {"failing", "denied"} /\ l.at # "final"
             \/ at \in {"initialize", "send"} /\ l.at \in {"create", "initialize"}
      PROVE  Launched'
  <2>1. LaunchOK([l EXCEPT !.at = at])'
    BY <1>2, <1>3, <1>4, <1>5 DEF LaunchOK
  <2>2. RunOK(l.run)'
    BY <1>3, <1>5 DEF RunOK
  <2> QED BY <1>1, <1>2, <1>5, <2>1, <2>2, OneGoes
<1>6. CASE claimRunSession(l)
  <2>1. CASE status[l.run] = "starting"
    <3>1. /\ Goes(l, "create") /\ UNCHANGED <<attempt, prompts>>
          /\ status' = [status EXCEPT ![l.run] = "running"]
          /\ session' = [session EXCEPT ![l.run] = l.attempt]
      BY <1>6, <2>1 DEF claimRunSession, Becomes
    <3>2. LaunchOK([l EXCEPT !.at = "create"])'
      BY <1>1, <1>2, <1>3, <1>4, <1>6, <3>1 DEF LaunchOK, claimRunSession
    <3>3. RunOK(l.run)'
      BY <1>1, <1>3, <2>1, <3>1 DEF RunOK
    <3> QED BY <1>1, <1>2, <3>1, <3>2, <3>3, OneGoes
  <2>2. CASE status[l.run] # "starting"
    BY <1>5, <1>6, <2>2 DEF claimRunSession
  <2> QED BY <2>1, <2>2
<1>7. CASE setRunExecutionDeadline(l)
  BY <1>5, <1>7 DEF setRunExecutionDeadline
<1>8. CASE initializeSession(l)
  BY <1>5, <1>8 DEF initializeSession
<1>9. CASE launchFails(l)
  BY <1>5, <1>9 DEF launchFails
<1>10. CASE enqueueFirstPrompt(l)
  <2>1. CASE Goes(l, "final") /\ UNCHANGED prompts
    BY <1>5, <1>10, <2>1 DEF enqueueFirstPrompt
  <2>2. ASSUME NEW at \in {"ran", "final"}, Goes(l, at),
               prompts' = [prompts EXCEPT ![l.run] = @ \cup {l.attempt}]
        PROVE  Launched'
    <3>1. l.at = "send" /\ UNCHANGED <<attempt, status, session>>
      BY <1>10 DEF enqueueFirstPrompt
    <3>2. LaunchOK([l EXCEPT !.at = at])'
      BY <1>2, <1>3, <1>4, <2>2, <3>1 DEF LaunchOK, Ended
    <3>3. RunOK(l.run)'
      BY <1>1, <1>2, <1>3, <2>2, <3>1 DEF LaunchOK, RunOK
    <3> QED BY <1>1, <1>2, <2>2, <3>1, <3>2, <3>3, OneGoes
  <2> QED BY <1>10, <2>1, <2>2 DEF enqueueFirstPrompt
<1>11. ASSUME NEW at \in {"waits", "failed", "unauthorized"}, Goes(l, at),
              l.at \in {"failing", "final", "denied"},
              FailureWritten(l) \/ (Stays /\ UNCHANGED session), UNCHANGED <<attempt, prompts>>
       PROVE  Launched'
  <2>1. LaunchOK([l EXCEPT !.at = at])'
    BY <1>4, <1>11 DEF LaunchOK, Ended
  <2>2. /\ \/ status' = [status EXCEPT ![l.run] = FailureOf(l)]
           \/ status' = status
        /\ \/ session' = session
           \/ FailureOf(l) # "failed" /\ session' = [session EXCEPT ![l.run] = 0]
        /\ FailureOf(l) = "failed" => session' = session
    BY <1>1, <1>11 DEF FailureWritten, Becomes
  <2>3. FailureOf(l) \in {"unauthorized", "retrying", "failed"}
    BY DEF FailureOf
  <2>4. FailureOf(l) # "failed" => prompts[l.run] = {}
    BY <1>2, <1>3, <1>11 DEF FailureOf, Retryable, LaunchOK
  <2>5. RunOK(l.run)'
    <3>1. CASE FailureOf(l) = "failed"
      BY <1>1, <1>3, <1>11, <2>2, <3>1 DEF RunOK
    <3>2. CASE FailureOf(l) # "failed"
      BY <1>1, <1>3, <1>11, <2>2, <2>3, <2>4, <3>2 DEF RunOK
    <3> QED BY <3>1, <3>2
  <2> QED BY <1>1, <1>2, <1>11, <2>1, <2>2, <2>5, OneGoes
<1>12. CASE failLaunchOrRetry(l) \/ recordFailure(l) \/ failureUnconfirmed(l)
  BY <1>11, <1>12 DEF failLaunchOrRetry, recordFailure, failureUnconfirmed, Retryable
<1> QED BY <1>6, <1>7, <1>8, <1>9, <1>10, <1>12 DEF launch

LEMMA InsertStep ==
  ASSUME TypeOK, Launched, NEW i \in Invocations, insertInvocationGuarded(i)
  PROVE  Launched'
<1>1. PICK start \in [Targets -> {"starting", "failed"}] :
        /\ status' = [r \in Runs |-> IF r[1] = i THEN start[r[2]] ELSE status[r]]
        /\ launches' = launches \cup {Launch(r, 1, "firing", IF start[r[2]] = "failed"
                                              THEN "failed" ELSE "begin") : r \in RunsOf(i)}
        /\ UNCHANGED <<attempt, session, prompts>>
  BY DEF insertInvocationGuarded, world
<1>2. \A r \in RunsOf(i) : r \in Runs /\ status[r] = "none" /\ start[r[2]] \in {"starting", "failed"}
  BY RunFacts DEF insertInvocationGuarded, Admitted, Runs
<1>3. \A l \in launches : l.run \in Runs
  BY DEF TypeOK, WorkTypes, LaunchType
<1>4. \A l \in launches : l.at \notin Ended => l.run \notin RunsOf(i)
  BY <1>2, <1>3 DEF Launched, LaunchOK
<1> DEFINE new(r) == Launch(r, 1, "firing", IF start[r[2]] = "failed" THEN "failed" ELSE "begin")
<1>5. \A r : /\ new(r).run = r /\ new(r).attempt = 1
             /\ new(r).at = IF start[r[2]] = "failed" THEN "failed" ELSE "begin"
  BY DEF Launch
<1>6. \A l \in launches' : l \in launches \/ \E r \in RunsOf(i) : l = new(r)
  BY <1>1
<1> HIDE DEF new
<1>7. OneLauncherPerRun'
  BY <1>4, <1>5, <1>6 DEF Launched, OneLauncherPerRun
<1>8. ASSUME NEW l \in launches' PROVE LaunchOK(l)'
  <2>1. CASE l \in launches
    <3>1. CASE l.at \notin Ended
      <4>1. status'[l.run] = status[l.run]
        BY <1>1, <1>3, <1>4, <2>1, <3>1, RunFacts
      <4> QED BY <1>1, <2>1, <4>1 DEF Launched, LaunchOK
    <3> QED BY <3>1 DEF LaunchOK
  <2>2. ASSUME NEW r \in RunsOf(i), l = new(r) PROVE LaunchOK(l)'
    <3>1. CASE start[r[2]] = "failed"
      BY <1>5, <2>2, <3>1 DEF LaunchOK, Ended
    <3>2. CASE start[r[2]] # "failed"
      <4>1. l.at = "begin" /\ l.run = r /\ l.attempt = 1
        BY <1>5, <2>2, <3>2
      <4>2. status'[r] = "starting"
        BY <1>1, <1>2, <3>2, RunFacts
      <4>3. attempt[r] = 1 /\ prompts[r] = {}
        BY <1>2 DEF Launched, RunOK
      <4> QED BY <1>1, <4>1, <4>2, <4>3 DEF LaunchOK
    <3> QED BY <3>1, <3>2
  <2> QED BY <1>6, <2>1, <2>2
<1>9. ASSUME NEW r \in Runs PROVE RunOK(r)'
  <2>1. CASE r \in RunsOf(i)
    BY <1>1, <1>2, <2>1, RunFacts DEF Launched, RunOK
  <2>2. CASE r \notin RunsOf(i)
    BY <1>1, <2>2, RunFacts DEF Launched, RunOK
  <2> QED BY <2>1, <2>2
<1> QED BY <1>7, <1>8, <1>9 DEF Launched

LEMMA ClaimStep ==
  ASSUME TypeOK, Launched, NEW q \in retries, claimRetry(q)
  PROVE  Launched'
<1>1. /\ launches \subseteq LaunchType /\ q.run \in Runs /\ q.attempt \in Nat
      /\ status \in [Runs -> Statuses] /\ attempt \in [Runs -> Nat]
  BY DEF TypeOK, WorkTypes, RunTypes, RetryType
<1>2. CASE ~(/\ status[q.run] = "retrying" /\ attempt[q.run] = q.attempt /\ q.run \in due
             /\ RetryAllowed(q.run))
  <2>1. UNCHANGED <<status, attempt, session, prompts, launches>>
    BY <1>2 DEF claimRetry, Stays, world
  <2> QED BY <1>1, <2>1, Settles
<1>3. CASE /\ status[q.run] = "retrying" /\ attempt[q.run] = q.attempt /\ q.run \in due
           /\ RetryAllowed(q.run)
  <2>1. PICK admission \in {"begin", "failing", "denied"} :
          launches' = launches \cup {Launch(q.run, q.attempt + 1, "retry", admission)}
    BY <1>3 DEF claimRetry
  <2>2. /\ status' = [status EXCEPT ![q.run] = "starting"]
        /\ attempt' = [attempt EXCEPT ![q.run] = @ + 1]
        /\ UNCHANGED <<session, prompts>>
    BY <1>3 DEF claimRetry, Becomes, world
  <2> DEFINE n == Launch(q.run, q.attempt + 1, "retry", admission)
  <2>3. n.run = q.run /\ n.attempt = q.attempt + 1 /\ n.at = admission
    BY DEF Launch
  <2>4. launches' = launches \cup {n}
    BY <2>1
  <2> HIDE DEF n
  <2>5. \A l \in launches : l.run \in Runs /\ (l.at \notin Ended => l.run # q.run)
    BY <1>1, <1>3 DEF Launched, LaunchOK, LaunchType
  <2>6. OneLauncherPerRun'
    BY <2>3, <2>4, <2>5 DEF Launched, OneLauncherPerRun
  <2>7. prompts[q.run] = {}
    BY <1>1, <1>3 DEF Launched, RunOK
  <2>8. ASSUME NEW l \in launches' PROVE LaunchOK(l)'
    <3>1. CASE l = n
      BY <1>1, <1>3, <2>2, <2>3, <2>7, <3>1 DEF LaunchOK
    <3>2. CASE l \in launches
      BY <1>1, <2>2, <2>5, <3>2 DEF Launched, LaunchOK
    <3> QED BY <2>4, <3>1, <3>2
  <2>9. ASSUME NEW r \in Runs PROVE RunOK(r)'
    BY <1>1, <1>3, <2>2, <2>7, <2>9 DEF Launched, RunOK
  <2> QED BY <2>6, <2>8, <2>9 DEF Launched
<1> QED BY <1>2, <1>3

LEMMA LaunchedStep == TypeOK /\ Launched /\ [Next]_vars => Launched'
<1> SUFFICES ASSUME TypeOK, Launched, [Next]_vars PROVE Launched'
  OBVIOUS
<1> USE DEF run, world
<1>1. launches \subseteq LaunchType /\ status \in [Runs -> Statuses]
  BY DEF TypeOK, WorkTypes, RunTypes
<1>2. CASE /\ launches' \subseteq launches /\ UNCHANGED <<attempt, session, prompts>>
           /\ \A r \in Runs : status'[r] = status[r] \/
                 (status[r] # "none" /\ status'[r] \in Failed \cup {"completed", "unauthorized"})
  BY <1>1, <1>2, Settles
<1>3. CASE UNCHANGED vars
  BY <1>2, <1>3 DEF vars
<1>4. ASSUME NEW i \in Invocations, firingEnds(i) \/ firingDies(i) PROVE Launched'
  BY <1>2, <1>4 DEF firingEnds, firingDies
<1>5. ASSUME NEW l \in launches, relaunchEnds(l) \/ relaunchDies(l) PROVE Launched'
  BY <1>2, <1>5 DEF relaunchEnds, relaunchDies
<1>6. ASSUME NEW q \in retries, failWithdrawnRetry(q) \/ retryDies(q) PROVE Launched'
  BY <1>1, <1>2, <1>6 DEF failWithdrawnRetry, retryDies, Becomes, Stays, Failed
<1>7. ASSUME NEW c \in accounts, applyInvocationOutcome(c) \/ accountDies(c) PROVE Launched'
  BY <1>2, <1>7 DEF applyInvocationOutcome, getInvocationRunAggregate, tryMarkInvocationFailureCounted,
              incrementConsecutiveFailures, autoPause, resetConsecutiveFailures, accountDies
<1>8. ASSUME NEW t \in Ticks, tickPhase(t) \/ tickAccounts(t) \/ tickDies(t) PROVE Launched'
  <2>1. CASE bulkFailStartingRuns(t) \/ bulkFailRunningRuns(t)
    <3>1. /\ launches' \subseteq launches /\ UNCHANGED <<attempt, session, prompts>>
      BY <2>1 DEF bulkFailStartingRuns, bulkFailRunningRuns
    <3>2. \A r \in Runs : status'[r] = status[r] \/ (status[r] # "none" /\ status'[r] \in Failed)
      BY <2>1 DEF bulkFailStartingRuns, bulkFailRunningRuns, Failed
    <3> QED BY <1>2, <3>1, <3>2
  <2> QED BY <1>2, <1>8, <2>1
       DEF tickPhase, tickAccounts, tickDies, recoverRuns, getUncountedFailedInvocations,
           getStaleFailureResetCandidates, retryDue
<1>9. ASSUME NEW r \in Runs, SessionFinishes(r) \/ runComplete(r) \/ GrowsLate(r) \/ FallsDue(r)
      PROVE  Launched'
  BY <1>1, <1>2, <1>9 DEF SessionFinishes, runComplete, GrowsLate, FallsDue, Becomes, Launching, Failed
<1>10. CASE pause \/ resume
  BY <1>2, <1>10 DEF pause, resume
<1> QED BY <1>3, <1>4, <1>5, <1>6, <1>7, <1>8, <1>9, <1>10, Steps, InsertStep, LaunchStep, ClaimStep

LEMMA LaunchedInvariant == Spec => []Launched
<1>1. Init => Launched
  BY DEF Init, Launched, OneLauncherPerRun, RunOK
<1> QED BY <1>1, LaunchedStep, TypeCorrect, PTL DEF Spec

\* Over all attempts, sweeps, overlapping ticks and lost answers, a run's first prompt reaches at
\* most one session, the one its row names (launch, failLaunchOrRetry, claimRetry).
THEOREM PromptsAreSingle == Spec => []OnePromptPerRun
<1>1. Launched => OnePromptPerRun
  BY DEF Launched, RunOK, OnePromptPerRun
<1> QED BY <1>1, LaunchedInvariant, PTL

\* However many ticks read the same waiting run, one of them launches it, and none beside a
\* launch that has not ended (the attempt in claimRetry's condition).
THEOREM LaunchersExclude == Spec => []OneLauncherPerRun
<1>1. Launched => OneLauncherPerRun
  BY DEF Launched
<1> QED BY <1>1, LaunchedInvariant, PTL
=============================================================================
