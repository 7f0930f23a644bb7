------------------------- MODULE ImageBuildsProofs -------------------------
(***************************************************************************)
(* Theorems about ImageBuilds, for any number of builds, finalizers and    *)
(* faults.  The invariants speak of one build at a time: whether its       *)
(* capture was asked for, who owes its source, what names its snapshot,    *)
(* and, if a lease outlives the attempt made under it, who may touch its   *)
(* image.                                                                  *)
(***************************************************************************)
EXTENDS ImageBuilds, TLAPS

-----------------------------------------------------------------------------
(* Types.                                                                  *)

\* An attempt that goes on is an attempt.
LEMMA Moves ==
  \A a \in Attempts : \A place \in Places \ {"idle"} :
    a.at # "idle" => [a EXCEPT !.at = place] \in Attempts
BY DEF Attempts

\* An attempt that goes on with what it replaced.
LEMMA MovesReplacing ==
  \A a \in Attempts : \A place \in Places \ {"idle"} : \A older \in SUBSET Builds :
    a.at # "idle" => [a EXCEPT !.at = place, !.replaced = older] \in Attempts
BY DEF Attempts

\* An attempt that ended, and one that begins.
LEMMA Begins ==
  /\ Idle \in Attempts
  /\ \A b \in Builds : \A place \in Places \ {"idle"} : \A read \in BOOLEAN :
       /\ [Idle EXCEPT !.at = place, !.build = b] \in Attempts
       /\ [Idle EXCEPT !.at = place, !.build = b, !.unknown = read] \in Attempts
<1>1. Idle \in Attempts
  BY BuildsAssumption DEF Attempts, Idle, Places
<1>2. ASSUME NEW b \in Builds, NEW place \in Places \ {"idle"}, NEW read \in BOOLEAN
      PROVE  /\ [Idle EXCEPT !.at = place, !.build = b] \in Attempts
             /\ [Idle EXCEPT !.at = place, !.build = b, !.unknown = read] \in Attempts
  <2>1. b \in 0..MaxBuilds /\ b # 0
    BY BuildsAssumption DEF Builds
  <2> QED BY <1>1, <2>1 DEF Attempts
<1> QED BY <1>1, <1>2

\* The attempts of all finalizers, after a step of one.
LEMMA WorkGoesOn ==
  ASSUME TypeOK, NEW w \in Workers, work[w].at # "idle",
         \/ work' = [work EXCEPT ![w] = Idle]
         \/ \E place \in Places \ {"idle"} :
              \/ work' = [work EXCEPT ![w].at = place]
              \/ \E older \in SUBSET Builds :
                   work' = [work EXCEPT ![w].at = place, ![w].replaced = older]
  PROVE  work' \in [Workers -> Attempts]
<1>0. work \in [Workers -> Attempts] /\ work[w] \in Attempts
  BY DEF TypeOK, ActorTypes
<1>1. CASE work' = [work EXCEPT ![w] = Idle]
  BY <1>0, <1>1, Begins
<1>2. ASSUME NEW place \in Places \ {"idle"}, work' = [work EXCEPT ![w].at = place]
      PROVE  work' \in [Workers -> Attempts]
  <2>1. [work[w] EXCEPT !.at = place] \in Attempts
    BY <1>0, Moves
  <2> QED BY <1>0, <1>2, <2>1
<1>3. ASSUME NEW place \in Places \ {"idle"}, NEW older \in SUBSET Builds,
             work' = [work EXCEPT ![w].at = place, ![w].replaced = older]
      PROVE  work' \in [Workers -> Attempts]
  <2>1. [work[w] EXCEPT !.at = place, !.replaced = older] \in Attempts
    BY <1>0, MovesReplacing
  <2>2. work' = [work EXCEPT ![w] = [work[w] EXCEPT !.at = place, !.replaced = older]]
    BY <1>3
  <2> QED BY <1>0, <2>1, <2>2
<1> QED BY <1>1, <1>2, <1>3

\* What a maintenance pass may find.
LEMMA Findable ==
  /\ Resting \in Findings
  /\ \A b \in Builds :
       \A what \in {"source", "no source", "deleted source", "settled operation", "reaped",
         "bare"} :
         [found |-> what, build |-> b] \in Findings
BY BuildsAssumption DEF Findings, Resting, Builds

\* A finalizer at work is at work on a build.
LEMMA BusyBuild ==
  ASSUME TypeOK, NEW w \in Workers, Finalize(w) \/ finalizerFails(w)
  PROVE  work[w].build \in Builds \/ \E b \in Builds : getBuild(w, b)
<1>1. work[w] \in Attempts
  BY DEF TypeOK, ActorTypes
<1>2. work[w].at = "idle" \/ work[w].build \in Builds
  BY <1>1, BuildsAssumption DEF Attempts, Builds
<1>3. CASE work[w].at = "idle"
  BY <1>3 DEF Finalize, finalizerFails, At, claimLease, reserveProviderOperation,
    captureBuildSnapshot, awaitCapturedSnapshot, recordArtifact, compensateUnrecordedArtifact,
    quarantineArtifact, clearLease, markFailed, tryMarkImageBuildReady, supersedeOlder,
    deleteReplacedImages, cleanupTerminalBuild, clearAfterCleanup
<1> QED BY <1>2, <1>3


\* Every write to the row (image-builds.ts) leaves its columns in their types.
LEMMA RowsKeepType ==
  ASSUME TypeOK, [Next]_vars
  PROVE  RowTypes'
<1>1. ASSUME NEW b \in Builds, registerBuild(b) PROVE RowTypes'
  BY <1>1 DEF registerBuild, ProviderTypes, RowTypes, TypeOK, history, provider
<1>2. ASSUME NEW b \in Builds, markSourceCreateIntent(b) PROVE RowTypes'
  BY <1>2 DEF markSourceCreateIntent, ProviderTypes, RowTypes, TypeOK, history, provider
<1>3. ASSUME NEW b \in Builds, startBuild(b) PROVE RowTypes'
  BY <1>3 DEF startBuild, ProviderTypes, RowTypes, TypeOK, history, row
<1>4. ASSUME NEW b \in Builds, createAnswers(b) PROVE RowTypes'
  BY <1>4 DEF createAnswers, ProviderTypes, RowTypes, TypeOK, history, provider, row
<1>5. ASSUME NEW b \in Builds, bindProviderSession(b) PROVE RowTypes'
  BY <1>5 DEF bindProviderSession, ProviderTypes, RowTypes, TypeOK, history, provider
<1>6. ASSUME NEW b \in Builds, launched(b) PROVE RowTypes'
  BY <1>6 DEF launched, ProviderTypes, RowTypes, TypeOK, history, provider, row
<1>7. ASSUME NEW b \in Builds, markBuildFailed(b) PROVE RowTypes'
  BY <1>7 DEF markBuildFailed, ProviderTypes, RowTypes, TypeOK, history, provider
<1>8. ASSUME NEW b \in Builds, cleanupTrigger(b) PROVE RowTypes'
  BY <1>8 DEF cleanupTrigger, ProviderTypes, RowTypes, TypeOK, history, row
<1>9. ASSUME NEW b \in Builds, triggerDies(b) PROVE RowTypes'
  BY <1>9 DEF triggerDies, ProviderTypes, RowTypes, TypeOK, provider, row
<1>10. ASSUME NEW b \in Builds, acceptSuccessfulCompletion(b) PROVE RowTypes'
  BY <1>10 DEF acceptSuccessfulCompletion, ProviderTypes, RowTypes, TypeOK, history, provider
<1>11. ASSUME NEW b \in Builds, acceptFailedCompletion(b) PROVE RowTypes'
  BY <1>11 DEF acceptFailedCompletion, ProviderTypes, RowTypes, TypeOK, history, provider
<1>12. ASSUME NEW b \in Builds, replayCompletion(b) PROVE RowTypes'
  BY <1>12 DEF replayCompletion, ProviderTypes, Registered, RowTypes, TypeOK, history, provider,
    row
<1>13. ASSUME NEW b \in Builds, republishRecoverableFinalizations(b) PROVE RowTypes'
  BY <1>13 DEF republishRecoverableFinalizations, ProviderTypes, RowTypes, TypeOK, history,
    provider, row
<1>14. ASSUME NEW b \in Builds, markStaleBuildsAsFailed(b) PROVE RowTypes'
  BY <1>14 DEF markStaleBuildsAsFailed, ProviderTypes, RowTypes, TypeOK, history, provider
<1>15. ASSUME NEW b \in Builds, recoverUnboundSource(b) PROVE RowTypes'
  BY <1>15 DEF recoverUnboundSource, Finds, ProviderTypes, Resting, RowTypes, TypeOK, history,
    provider, row
<1>16. ASSUME NEW b \in Builds, sweepSession(b) PROVE RowTypes'
  BY <1>16 DEF sweepSession, Finds, ProviderTypes, Resting, RowTypes, Terminal, TypeOK, history,
    row
<1>17. ASSUME NEW b \in Builds, reconcileUnresolvedOperation(b) PROVE RowTypes'
  BY <1>17 DEF reconcileUnresolvedOperation, Finds, ProviderTypes, Resting, RowTypes, TypeOK,
    history, row
<1>18. ASSUME NEW b \in Builds, reapImage(b) PROVE RowTypes'
  BY <1>18 DEF reapImage, Finds, NoSessionObligation, ProviderTypes, Resting, RowTypes, TypeOK,
    history, row
<1>19. ASSUME NEW b \in Builds, attachRecoveredProviderSession(b) PROVE RowTypes'
  BY <1>19 DEF attachRecoveredProviderSession, Found, ProviderTypes, Resting, RowTypes, TypeOK,
    history, provider
<1>20. ASSUME NEW b \in Builds, clearUnboundSourceIntent(b) PROVE RowTypes'
  BY <1>20 DEF clearUnboundSourceIntent, Found, ProviderTypes, Resting, RowTypes, TypeOK,
    history, provider
<1>21. ASSUME NEW b \in Builds, sweptSession(b) PROVE RowTypes'
  BY <1>21 DEF sweptSession, Found, ProviderTypes, Resting, RowTypes, Terminal, TypeOK,
    clearSessionCleanup, history, provider
<1>22. ASSUME NEW b \in Builds, clearProviderOperation(b) PROVE RowTypes'
  BY <1>22 DEF clearProviderOperation, Found, ProviderTypes, Resting, RowTypes, TypeOK, history,
    provider
<1>23. ASSUME NEW b \in Builds, clearReapedImage(b) PROVE RowTypes'
  BY <1>23 DEF clearReapedImage, Found, NoSessionObligation, ProviderTypes, Resting, RowTypes,
    TypeOK, deleteSupersededImage, history, provider
<1>24. ASSUME NEW b \in Builds, deleteOldFailedBuilds(b) PROVE RowTypes'
  BY <1>24 DEF deleteOldFailedBuilds, NoSessionObligation, ProviderTypes, RowTypes, TypeOK,
    history, provider
<1>25. ASSUME NEW b \in Builds, markRestoreFailed(b) PROVE RowTypes'
  BY <1>25 DEF markRestoreFailed, ProviderTypes, RowTypes, TypeOK, history, provider
<1>26. ASSUME NEW b \in Builds, ProviderCreates(b) PROVE RowTypes'
  BY <1>26 DEF ProviderCreates, ProviderTypes, RowTypes, TypeOK, history, row
<1>27. ASSUME NEW b \in Builds, ProviderCaptures(b) PROVE RowTypes'
  BY <1>27 DEF ProviderCaptures, ProviderTypes, RowTypes, TypeOK, history, row
<1>28. ASSUME NEW b \in Builds, LeaseExpires(b) PROVE RowTypes'
  BY <1>28 DEF LeaseExpires, ProviderTypes, RowTypes, TypeOK, history, provider
<1>29. ASSUME NEW b \in Builds, DeadlinePasses(b) PROVE RowTypes'
  BY <1>29 DEF DeadlinePasses, ProviderTypes, Registered, RowTypes, TypeOK, provider, row
<1>30. ASSUME NEW b \in Builds, GrowsOld(b) PROVE RowTypes'
  BY <1>30 DEF GrowsOld, ProviderTypes, Registered, RowTypes, TypeOK, row
<1>31. ASSUME NEW w \in Workers, NEW b \in Builds, getBuild(w, b) PROVE RowTypes'
  BY <1>31 DEF getBuild, At, Idle, ProviderTypes, RowTypes, TypeOK, history, provider, row
<1>32. ASSUME NEW w \in Workers, NEW b \in Builds, work[w].build = b, claimLease(w) PROVE
  RowTypes'
  BY <1>32 DEF claimLease, At, Finishes, Goes, Idle, ProviderTypes, Retries, RowTypes, TypeOK,
    history, provider
<1>33. ASSUME NEW w \in Workers, NEW b \in Builds, work[w].build = b, reserveProviderOperation(w)
  PROVE RowTypes'
  BY <1>33 DEF reserveProviderOperation, At, Goes, HasLease, ProviderTypes, RowTypes, TypeOK,
    history, provider
<1>34. ASSUME NEW w \in Workers, NEW b \in Builds, work[w].build = b, captureBuildSnapshot(w)
  PROVE RowTypes'
  BY <1>34 DEF captureBuildSnapshot, At, Goes, ProviderTypes, RowTypes, TypeOK, history, row
<1>35. ASSUME NEW w \in Workers, NEW b \in Builds, work[w].build = b, awaitCapturedSnapshot(w)
  PROVE RowTypes'
  BY <1>35 DEF awaitCapturedSnapshot, At, Goes, ProviderTypes, RowTypes, TypeOK, history,
    provider, row
<1>36. ASSUME NEW w \in Workers, NEW b \in Builds, work[w].build = b, recordArtifact(w) PROVE
  RowTypes'
  BY <1>36 DEF recordArtifact, At, Goes, HasLease, ProviderTypes, RowTypes, TypeOK, history,
    provider
<1>37. ASSUME NEW w \in Workers, NEW b \in Builds, work[w].build = b,
  compensateUnrecordedArtifact(w) PROVE RowTypes'
  BY <1>37 DEF compensateUnrecordedArtifact, At, Goes, ProviderTypes, RowTypes, TypeOK, history,
    row
<1>38. ASSUME NEW w \in Workers, NEW b \in Builds, work[w].build = b, quarantineArtifact(w) PROVE
  RowTypes'
  BY <1>38 DEF quarantineArtifact, At, Finishes, Idle, ProviderTypes, Retries, RowTypes, TypeOK,
    history, provider
<1>39. ASSUME NEW w \in Workers, NEW b \in Builds, work[w].build = b, clearLease(w) PROVE
  RowTypes'
  BY <1>39 DEF clearLease, At, Finishes, HasLease, Idle, ProviderTypes, Retries, RowTypes,
    TypeOK, history, provider
<1>40. ASSUME NEW w \in Workers, NEW b \in Builds, work[w].build = b, markFailed(w) PROVE
  RowTypes'
  BY <1>40 DEF markFailed, At, Goes, HasLease, ProviderTypes, RowTypes, TypeOK, history, provider
<1>41. ASSUME NEW w \in Workers, NEW b \in Builds, work[w].build = b, tryMarkImageBuildReady(w)
  PROVE RowTypes'
  BY <1>41 DEF tryMarkImageBuildReady, At, Goes, HasLease, NewerReady, ProviderTypes, RowTypes,
    TypeOK, history, provider
<1>42. ASSUME NEW w \in Workers, NEW b \in Builds, work[w].build = b, supersedeOlder(w) PROVE
  RowTypes'
  BY <1>42 DEF supersedeOlder, At, ProviderTypes, RowTypes, TypeOK, history, provider
<1>43. ASSUME NEW w \in Workers, NEW b \in Builds, work[w].build = b, deleteReplacedImages(w)
  PROVE RowTypes'
  BY <1>43 DEF deleteReplacedImages, At, Goes, NoSessionObligation, ProviderTypes, RowTypes,
    TypeOK, deleteSupersededImage, history
<1>44. ASSUME NEW w \in Workers, NEW b \in Builds, work[w].build = b, cleanupTerminalBuild(w)
  PROVE RowTypes'
  BY <1>44 DEF cleanupTerminalBuild, At, Finishes, Goes, Idle, ProviderTypes, Retries, RowTypes,
    Terminal, TypeOK, history, row
<1>45. ASSUME NEW w \in Workers, NEW b \in Builds, work[w].build = b, clearAfterCleanup(w) PROVE
  RowTypes'
  BY <1>45 DEF clearAfterCleanup, At, Finishes, Idle, ProviderTypes, RowTypes, Terminal, TypeOK,
    clearSessionCleanup, history, provider
<1>46. ASSUME NEW w \in Workers, NEW b \in Builds, work[w].build = b, finalizerFails(w) PROVE
  RowTypes'
  BY <1>46 DEF finalizerFails, At, Finishes, Idle, ProviderTypes, Retries, RowTypes, TypeOK,
    provider
<1>47. ASSUME sweepDies PROVE RowTypes'
  BY <1>47 DEF sweepDies, ProviderTypes, Resting, RowTypes, TypeOK, provider, row
<1>48. ASSUME supersedeActiveImages PROVE RowTypes'
  BY <1>48 DEF supersedeActiveImages, ProviderTypes, RowTypes, TypeOK, provider
<1>49. CASE UNCHANGED vars
  BY <1>49 DEF vars, row, provider, history, TypeOK, RowTypes, ProviderTypes
<1>50. ASSUME NEW w \in Workers, Finalize(w) \/ finalizerFails(w) PROVE RowTypes'
  BY <1>50, BusyBuild, <1>31, <1>32, <1>33, <1>34, <1>35, <1>36, <1>37, <1>38, <1>39, <1>40,
    <1>41, <1>42, <1>43, <1>44, <1>45, <1>46 DEF Finalize
<1>51. QED
  BY <1>1, <1>2, <1>3, <1>4, <1>5, <1>6, <1>7, <1>8, <1>9, <1>10, <1>11, <1>12, <1>13, <1>14,
    <1>15, <1>16, <1>17, <1>18, <1>19, <1>20, <1>21, <1>22, <1>23, <1>24, <1>25, <1>26, <1>27,
    <1>28, <1>29, <1>30, <1>47, <1>48, <1>49, <1>50 DEF Next, Trigger, Callback, SweepStarts,
    SweepEnds, Maintain, Environment

\* Triggers, finalizers, jobs and the cron's passes stay within their stages.
LEMMA ActorsKeepType ==
  ASSUME TypeOK, [Next]_vars
  PROVE  ActorTypes'
<1>1. ASSUME NEW b \in Builds, registerBuild(b) PROVE ActorTypes'
  BY <1>1, Findable, Moves, MovesReplacing, Begins DEF registerBuild, ActorTypes, TypeOK,
    history, provider
<1>2. ASSUME NEW b \in Builds, markSourceCreateIntent(b) PROVE ActorTypes'
  BY <1>2, Findable, Moves, MovesReplacing, Begins DEF markSourceCreateIntent, ActorTypes,
    TypeOK, history, provider
<1>3. ASSUME NEW b \in Builds, startBuild(b) PROVE ActorTypes'
  BY <1>3, Findable, Moves, MovesReplacing, Begins DEF startBuild, ActorTypes, TypeOK, history,
    row
<1>4. ASSUME NEW b \in Builds, createAnswers(b) PROVE ActorTypes'
  BY <1>4, Findable, Moves, MovesReplacing, Begins DEF createAnswers, ActorTypes, TypeOK,
    history, provider, row
<1>5. ASSUME NEW b \in Builds, bindProviderSession(b) PROVE ActorTypes'
  BY <1>5, Findable, Moves, MovesReplacing, Begins DEF bindProviderSession, ActorTypes, TypeOK,
    history, provider
<1>6. ASSUME NEW b \in Builds, launched(b) PROVE ActorTypes'
  BY <1>6, Findable, Moves, MovesReplacing, Begins DEF launched, ActorTypes, TypeOK, history,
    provider, row
<1>7. ASSUME NEW b \in Builds, markBuildFailed(b) PROVE ActorTypes'
  BY <1>7, Findable, Moves, MovesReplacing, Begins DEF markBuildFailed, ActorTypes, TypeOK,
    history, provider
<1>8. ASSUME NEW b \in Builds, cleanupTrigger(b) PROVE ActorTypes'
  BY <1>8, Findable, Moves, MovesReplacing, Begins DEF cleanupTrigger, ActorTypes, TypeOK,
    history, row
<1>9. ASSUME NEW b \in Builds, triggerDies(b) PROVE ActorTypes'
  BY <1>9, Findable, Moves, MovesReplacing, Begins DEF triggerDies, ActorTypes, TypeOK, provider,
    row
<1>10. ASSUME NEW b \in Builds, acceptSuccessfulCompletion(b) PROVE ActorTypes'
  BY <1>10, Findable, Moves, MovesReplacing, Begins DEF acceptSuccessfulCompletion, ActorTypes,
    TypeOK, history, provider
<1>11. ASSUME NEW b \in Builds, acceptFailedCompletion(b) PROVE ActorTypes'
  BY <1>11, Findable, Moves, MovesReplacing, Begins DEF acceptFailedCompletion, ActorTypes,
    TypeOK, history, provider
<1>12. ASSUME NEW b \in Builds, replayCompletion(b) PROVE ActorTypes'
  BY <1>12, Findable, Moves, MovesReplacing, Begins DEF replayCompletion, ActorTypes, Registered,
    TypeOK, history, provider, row
<1>13. ASSUME NEW b \in Builds, republishRecoverableFinalizations(b) PROVE ActorTypes'
  BY <1>13, Findable, Moves, MovesReplacing, Begins DEF republishRecoverableFinalizations,
    ActorTypes, TypeOK, history, provider, row
<1>14. ASSUME NEW b \in Builds, markStaleBuildsAsFailed(b) PROVE ActorTypes'
  BY <1>14, Findable, Moves, MovesReplacing, Begins DEF markStaleBuildsAsFailed, ActorTypes,
    TypeOK, history, provider
<1>15. ASSUME NEW b \in Builds, recoverUnboundSource(b) PROVE ActorTypes'
  BY <1>15, Findable, Moves, MovesReplacing, Begins DEF recoverUnboundSource, ActorTypes, Finds,
    TypeOK, history, provider, row
<1>16. ASSUME NEW b \in Builds, sweepSession(b) PROVE ActorTypes'
  BY <1>16, Findable, Moves, MovesReplacing, Begins DEF sweepSession, ActorTypes, Finds,
    Terminal, TypeOK, history, row
<1>17. ASSUME NEW b \in Builds, reconcileUnresolvedOperation(b) PROVE ActorTypes'
  BY <1>17, Findable, Moves, MovesReplacing, Begins DEF reconcileUnresolvedOperation, ActorTypes,
    Finds, TypeOK, history, row
<1>18. ASSUME NEW b \in Builds, reapImage(b) PROVE ActorTypes'
  BY <1>18, Findable, Moves, MovesReplacing, Begins DEF reapImage, ActorTypes, Finds,
    NoSessionObligation, TypeOK, history, row
<1>19. ASSUME NEW b \in Builds, attachRecoveredProviderSession(b) PROVE ActorTypes'
  BY <1>19, Findable, Moves, MovesReplacing, Begins DEF attachRecoveredProviderSession,
    ActorTypes, Found, TypeOK, history, provider
<1>20. ASSUME NEW b \in Builds, clearUnboundSourceIntent(b) PROVE ActorTypes'
  BY <1>20, Findable, Moves, MovesReplacing, Begins DEF clearUnboundSourceIntent, ActorTypes,
    Found, TypeOK, history, provider
<1>21. ASSUME NEW b \in Builds, sweptSession(b) PROVE ActorTypes'
  BY <1>21, Findable, Moves, MovesReplacing, Begins DEF sweptSession, ActorTypes, Found,
    Terminal, TypeOK, clearSessionCleanup, history, provider
<1>22. ASSUME NEW b \in Builds, clearProviderOperation(b) PROVE ActorTypes'
  BY <1>22, Findable, Moves, MovesReplacing, Begins DEF clearProviderOperation, ActorTypes,
    Found, TypeOK, history, provider
<1>23. ASSUME NEW b \in Builds, clearReapedImage(b) PROVE ActorTypes'
  BY <1>23, Findable, Moves, MovesReplacing, Begins DEF clearReapedImage, ActorTypes, Found,
    NoSessionObligation, TypeOK, deleteSupersededImage, history, provider
<1>24. ASSUME NEW b \in Builds, deleteOldFailedBuilds(b) PROVE ActorTypes'
  BY <1>24, Findable, Moves, MovesReplacing, Begins DEF deleteOldFailedBuilds, ActorTypes,
    NoSessionObligation, TypeOK, history, provider
<1>25. ASSUME NEW b \in Builds, markRestoreFailed(b) PROVE ActorTypes'
  BY <1>25, Findable, Moves, MovesReplacing, Begins DEF markRestoreFailed, ActorTypes, TypeOK,
    history, provider
<1>26. ASSUME NEW b \in Builds, ProviderCreates(b) PROVE ActorTypes'
  BY <1>26, Findable, Moves, MovesReplacing, Begins DEF ProviderCreates, ActorTypes, TypeOK,
    history, row
<1>27. ASSUME NEW b \in Builds, ProviderCaptures(b) PROVE ActorTypes'
  BY <1>27, Findable, Moves, MovesReplacing, Begins DEF ProviderCaptures, ActorTypes, TypeOK,
    history, row
<1>28. ASSUME NEW b \in Builds, LeaseExpires(b) PROVE ActorTypes'
  BY <1>28, Findable, Moves, MovesReplacing, Begins DEF LeaseExpires, ActorTypes, TypeOK,
    history, provider
<1>29. ASSUME NEW b \in Builds, DeadlinePasses(b) PROVE ActorTypes'
  BY <1>29, Findable, Moves, MovesReplacing, Begins DEF DeadlinePasses, ActorTypes, Registered,
    TypeOK, provider, row
<1>30. ASSUME NEW b \in Builds, GrowsOld(b) PROVE ActorTypes'
  BY <1>30, Findable, Moves, MovesReplacing, Begins DEF GrowsOld, ActorTypes, Registered, TypeOK,
    row
<1>31. ASSUME NEW w \in Workers, NEW b \in Builds, getBuild(w, b) PROVE ActorTypes'
  <2>1. work[w] \in Attempts /\ work \in [Workers -> Attempts]
    BY DEF TypeOK, ActorTypes
  <2>2. Idle \in Attempts
    BY Begins
  <2>3. [Idle EXCEPT !.at = "cleanup", !.build = b] \in Attempts
    <3>1. "cleanup" \in Places \ {"idle"}
      BY DEF Places
    <3> QED BY <3>1, Begins
  <2>4. [Idle EXCEPT !.at = "claim", !.build = b, !.unknown = b \notin image /\ b \in lapsed] \in
    Attempts
    <3>1. (b \notin image /\ b \in lapsed) \in BOOLEAN
      OBVIOUS
    <3>2. "claim" \in Places \ {"idle"}
      BY DEF Places
    <3> QED BY <3>1, <3>2, Begins
  <2>5. work' \in [Workers -> Attempts]
    BY <1>31, <2>1, <2>2, <2>3, <2>4 DEF getBuild
  <2> QED BY <1>31, <2>5 DEF getBuild, TypeOK, ActorTypes
<1>32. ASSUME NEW w \in Workers, NEW b \in Builds, work[w].build = b, claimLease(w) PROVE
  ActorTypes'
  <2>1. work' = [work EXCEPT ![w] = Idle]
        \/ \E place \in Places \ {"idle"} : work' = [work EXCEPT ![w].at = place]
    BY <1>32 DEF claimLease, Goes, Finishes, Retries, Places
  <2>2. work[w].at # "idle"
    BY <1>32 DEF claimLease, At
  <2>3. work' \in [Workers -> Attempts]
    BY <2>1, <2>2, WorkGoesOn
  <2> QED BY <1>32, <2>3 DEF claimLease, Finishes, Retries, provider, history, TypeOK, ActorTypes
<1>33. ASSUME NEW w \in Workers, NEW b \in Builds, work[w].build = b, reserveProviderOperation(w)
  PROVE ActorTypes'
  <2>1. work' = [work EXCEPT ![w] = Idle]
        \/ \E place \in Places \ {"idle"} : work' = [work EXCEPT ![w].at = place]
    BY <1>33 DEF reserveProviderOperation, Goes, Places
  <2>2. work[w].at # "idle"
    BY <1>33 DEF reserveProviderOperation, At
  <2>3. work' \in [Workers -> Attempts]
    BY <2>1, <2>2, WorkGoesOn
  <2> QED BY <1>33, <2>3 DEF reserveProviderOperation, provider, history, TypeOK, ActorTypes
<1>34. ASSUME NEW w \in Workers, NEW b \in Builds, work[w].build = b, captureBuildSnapshot(w)
  PROVE ActorTypes'
  <2>1. work' = [work EXCEPT ![w] = Idle]
        \/ \E place \in Places \ {"idle"} : work' = [work EXCEPT ![w].at = place]
    BY <1>34 DEF captureBuildSnapshot, Goes, Places
  <2>2. work[w].at # "idle"
    BY <1>34 DEF captureBuildSnapshot, At
  <2>3. work' \in [Workers -> Attempts]
    BY <2>1, <2>2, WorkGoesOn
  <2> QED BY <1>34, <2>3 DEF captureBuildSnapshot, row, history, TypeOK, ActorTypes
<1>35. ASSUME NEW w \in Workers, NEW b \in Builds, work[w].build = b, awaitCapturedSnapshot(w)
  PROVE ActorTypes'
  <2>1. work' = [work EXCEPT ![w] = Idle]
        \/ \E place \in Places \ {"idle"} : work' = [work EXCEPT ![w].at = place]
    BY <1>35 DEF awaitCapturedSnapshot, Goes, Places
  <2>2. work[w].at # "idle"
    BY <1>35 DEF awaitCapturedSnapshot, At
  <2>3. work' \in [Workers -> Attempts]
    BY <2>1, <2>2, WorkGoesOn
  <2> QED BY <1>35, <2>3 DEF awaitCapturedSnapshot, row, provider, history, TypeOK, ActorTypes
<1>36. ASSUME NEW w \in Workers, NEW b \in Builds, work[w].build = b, recordArtifact(w) PROVE
  ActorTypes'
  <2>1. work' = [work EXCEPT ![w] = Idle]
        \/ \E place \in Places \ {"idle"} : work' = [work EXCEPT ![w].at = place]
    BY <1>36 DEF recordArtifact, Goes, Places
  <2>2. work[w].at # "idle"
    BY <1>36 DEF recordArtifact, At
  <2>3. work' \in [Workers -> Attempts]
    BY <2>1, <2>2, WorkGoesOn
  <2> QED BY <1>36, <2>3 DEF recordArtifact, provider, history, TypeOK, ActorTypes
<1>37. ASSUME NEW w \in Workers, NEW b \in Builds, work[w].build = b,
  compensateUnrecordedArtifact(w) PROVE ActorTypes'
  <2>1. work' = [work EXCEPT ![w] = Idle]
        \/ \E place \in Places \ {"idle"} : work' = [work EXCEPT ![w].at = place]
    BY <1>37 DEF compensateUnrecordedArtifact, Goes, Places
  <2>2. work[w].at # "idle"
    BY <1>37 DEF compensateUnrecordedArtifact, At
  <2>3. work' \in [Workers -> Attempts]
    BY <2>1, <2>2, WorkGoesOn
  <2> QED BY <1>37, <2>3 DEF compensateUnrecordedArtifact, row, history, TypeOK, ActorTypes
<1>38. ASSUME NEW w \in Workers, NEW b \in Builds, work[w].build = b, quarantineArtifact(w) PROVE
  ActorTypes'
  BY <1>38, Findable, Moves, MovesReplacing, Begins DEF quarantineArtifact, ActorTypes, At,
    Finishes, Places, Retries, TypeOK, history, provider
<1>39. ASSUME NEW w \in Workers, NEW b \in Builds, work[w].build = b, clearLease(w) PROVE
  ActorTypes'
  BY <1>39, Findable, Moves, MovesReplacing, Begins DEF clearLease, ActorTypes, At, Finishes,
    HasLease, Places, Retries, TypeOK, history, provider
<1>40. ASSUME NEW w \in Workers, NEW b \in Builds, work[w].build = b, markFailed(w) PROVE
  ActorTypes'
  BY <1>40, Findable, Moves, MovesReplacing, Begins DEF markFailed, ActorTypes, At, Goes,
    HasLease, Places, TypeOK, history, provider
<1>41. ASSUME NEW w \in Workers, NEW b \in Builds, work[w].build = b, tryMarkImageBuildReady(w)
  PROVE ActorTypes'
  <2>1. \E place \in Places \ {"idle"} :
          \/ work' = [work EXCEPT ![w].at = place]
          \/ \E older \in SUBSET Builds : work' = [work EXCEPT ![w].at = place,
            ![w].replaced = older]
    BY <1>41 DEF tryMarkImageBuildReady, Goes, Places
  <2>2. work[w].at # "idle"
    BY <1>41 DEF tryMarkImageBuildReady, At
  <2>3. work' \in [Workers -> Attempts]
    BY <2>1, <2>2, WorkGoesOn
  <2> QED BY <1>41, <2>3 DEF tryMarkImageBuildReady, TypeOK, ActorTypes, provider, history
<1>42. ASSUME NEW w \in Workers, NEW b \in Builds, work[w].build = b, supersedeOlder(w) PROVE
  ActorTypes'
  BY <1>42, Findable, Moves, MovesReplacing, Begins DEF supersedeOlder, ActorTypes, At, Places,
    TypeOK, history, provider
<1>43. ASSUME NEW w \in Workers, NEW b \in Builds, work[w].build = b, deleteReplacedImages(w)
  PROVE ActorTypes'
  <2>1. work' = [work EXCEPT ![w].at = "cleanup"]
        \/ \E c \in work[w].replaced : work' = [work EXCEPT ![w].replaced = @ \ {c}]
    BY <1>43 DEF deleteReplacedImages, Goes
  <2>2. work[w].at # "idle"
    BY <1>43 DEF deleteReplacedImages, At
  <2>3. CASE work' = [work EXCEPT ![w].at = "cleanup"]
    <3>1. "cleanup" \in Places \ {"idle"}
      BY DEF Places
    <3>2. work' \in [Workers -> Attempts]
      BY <2>2, <2>3, <3>1, WorkGoesOn
    <3> QED BY <1>43, <3>2 DEF deleteReplacedImages, TypeOK, ActorTypes
  <2>4. ASSUME NEW c \in work[w].replaced, work' = [work EXCEPT ![w].replaced = @ \ {c}]
        PROVE  ActorTypes'
    <3>1. [work[w] EXCEPT !.replaced = @ \ {c}] \in Attempts
      BY DEF TypeOK, ActorTypes, Attempts
    <3>2. work' \in [Workers -> Attempts]
      BY <2>4, <3>1 DEF TypeOK, ActorTypes
    <3> QED BY <1>43, <3>2 DEF deleteReplacedImages, TypeOK, ActorTypes
  <2> QED BY <2>1, <2>3, <2>4
<1>44. ASSUME NEW w \in Workers, NEW b \in Builds, work[w].build = b, cleanupTerminalBuild(w)
  PROVE ActorTypes'
  <2>1. work' = [work EXCEPT ![w] = Idle]
        \/ \E place \in Places \ {"idle"} : work' = [work EXCEPT ![w].at = place]
    BY <1>44 DEF cleanupTerminalBuild, Goes, Finishes, Retries, Places
  <2>2. work[w].at # "idle"
    BY <1>44 DEF cleanupTerminalBuild, At
  <2>3. work' \in [Workers -> Attempts]
    BY <2>1, <2>2, WorkGoesOn
  <2> QED BY <1>44, <2>3 DEF cleanupTerminalBuild, Finishes, Retries, row, history, TypeOK,
    ActorTypes
<1>45. ASSUME NEW w \in Workers, NEW b \in Builds, work[w].build = b, clearAfterCleanup(w) PROVE
  ActorTypes'
  BY <1>45, Findable, Moves, MovesReplacing, Begins DEF clearAfterCleanup, ActorTypes, At,
    Finishes, Places, Terminal, TypeOK, clearSessionCleanup, history, provider
<1>46. ASSUME NEW w \in Workers, NEW b \in Builds, work[w].build = b, finalizerFails(w) PROVE
  ActorTypes'
  BY <1>46, Findable, Moves, MovesReplacing, Begins DEF finalizerFails, ActorTypes, At, Finishes,
    Places, Retries, TypeOK, provider
<1>47. ASSUME sweepDies PROVE ActorTypes'
  BY <1>47, Findable, Moves, MovesReplacing, Begins DEF sweepDies, ActorTypes, TypeOK, provider,
    row
<1>48. ASSUME supersedeActiveImages PROVE ActorTypes'
  BY <1>48, Findable, Moves, MovesReplacing, Begins DEF supersedeActiveImages, ActorTypes,
    TypeOK, provider
<1>49. CASE UNCHANGED vars
  BY <1>49 DEF vars, row, provider, history, TypeOK, ActorTypes
<1>50. ASSUME NEW w \in Workers, Finalize(w) \/ finalizerFails(w) PROVE ActorTypes'
  BY <1>50, BusyBuild, <1>31, <1>32, <1>33, <1>34, <1>35, <1>36, <1>37, <1>38, <1>39, <1>40,
    <1>41, <1>42, <1>43, <1>44, <1>45, <1>46 DEF Finalize
<1>51. QED
  BY <1>1, <1>2, <1>3, <1>4, <1>5, <1>6, <1>7, <1>8, <1>9, <1>10, <1>11, <1>12, <1>13, <1>14,
    <1>15, <1>16, <1>17, <1>18, <1>19, <1>20, <1>21, <1>22, <1>23, <1>24, <1>25, <1>26, <1>27,
    <1>28, <1>29, <1>30, <1>47, <1>48, <1>49, <1>50 DEF Next, Trigger, Callback, SweepStarts,
    SweepEnds, Maintain, Environment

\* The provider's sources and captures stay in their types.
LEMMA ProviderKeepsType ==
  ASSUME TypeOK, [Next]_vars
  PROVE  ProviderTypes'
<1>1. ASSUME NEW b \in Builds, registerBuild(b) PROVE ProviderTypes'
  BY <1>1, BuildsAssumption DEF registerBuild, ProviderTypes, TypeOK, history, provider
<1>2. ASSUME NEW b \in Builds, markSourceCreateIntent(b) PROVE ProviderTypes'
  BY <1>2, BuildsAssumption DEF markSourceCreateIntent, ProviderTypes, TypeOK, history, provider
<1>3. ASSUME NEW b \in Builds, startBuild(b) PROVE ProviderTypes'
  BY <1>3, BuildsAssumption DEF startBuild, ProviderTypes, TypeOK, history, row
<1>4. ASSUME NEW b \in Builds, createAnswers(b) PROVE ProviderTypes'
  BY <1>4, BuildsAssumption DEF createAnswers, ProviderTypes, TypeOK, history, provider, row
<1>5. ASSUME NEW b \in Builds, bindProviderSession(b) PROVE ProviderTypes'
  BY <1>5, BuildsAssumption DEF bindProviderSession, ProviderTypes, TypeOK, history, provider
<1>6. ASSUME NEW b \in Builds, launched(b) PROVE ProviderTypes'
  BY <1>6, BuildsAssumption DEF launched, ProviderTypes, TypeOK, history, provider, row
<1>7. ASSUME NEW b \in Builds, markBuildFailed(b) PROVE ProviderTypes'
  BY <1>7, BuildsAssumption DEF markBuildFailed, ProviderTypes, TypeOK, history, provider
<1>8. ASSUME NEW b \in Builds, cleanupTrigger(b) PROVE ProviderTypes'
  BY <1>8, BuildsAssumption DEF cleanupTrigger, ProviderTypes, TypeOK, history, row
<1>9. ASSUME NEW b \in Builds, triggerDies(b) PROVE ProviderTypes'
  BY <1>9, BuildsAssumption DEF triggerDies, ProviderTypes, TypeOK, provider, row
<1>10. ASSUME NEW b \in Builds, acceptSuccessfulCompletion(b) PROVE ProviderTypes'
  BY <1>10, BuildsAssumption DEF acceptSuccessfulCompletion, ProviderTypes, TypeOK, history,
    provider
<1>11. ASSUME NEW b \in Builds, acceptFailedCompletion(b) PROVE ProviderTypes'
  BY <1>11, BuildsAssumption DEF acceptFailedCompletion, ProviderTypes, TypeOK, history, provider
<1>12. ASSUME NEW b \in Builds, replayCompletion(b) PROVE ProviderTypes'
  BY <1>12, BuildsAssumption DEF replayCompletion, ProviderTypes, Registered, TypeOK, history,
    provider, row
<1>13. ASSUME NEW b \in Builds, republishRecoverableFinalizations(b) PROVE ProviderTypes'
  BY <1>13, BuildsAssumption DEF republishRecoverableFinalizations, ProviderTypes, TypeOK,
    history, provider, row
<1>14. ASSUME NEW b \in Builds, markStaleBuildsAsFailed(b) PROVE ProviderTypes'
  BY <1>14, BuildsAssumption DEF markStaleBuildsAsFailed, ProviderTypes, TypeOK, history,
    provider
<1>15. ASSUME NEW b \in Builds, recoverUnboundSource(b) PROVE ProviderTypes'
  BY <1>15, BuildsAssumption DEF recoverUnboundSource, Finds, ProviderTypes, Resting, TypeOK,
    history, provider, row
<1>16. ASSUME NEW b \in Builds, sweepSession(b) PROVE ProviderTypes'
  BY <1>16, BuildsAssumption DEF sweepSession, Finds, ProviderTypes, Resting, Terminal, TypeOK,
    history, row
<1>17. ASSUME NEW b \in Builds, reconcileUnresolvedOperation(b) PROVE ProviderTypes'
  BY <1>17, BuildsAssumption DEF reconcileUnresolvedOperation, Finds, ProviderTypes, Resting,
    TypeOK, history, row
<1>18. ASSUME NEW b \in Builds, reapImage(b) PROVE ProviderTypes'
  BY <1>18, BuildsAssumption DEF reapImage, Finds, NoSessionObligation, ProviderTypes, Resting,
    TypeOK, history, row
<1>19. ASSUME NEW b \in Builds, attachRecoveredProviderSession(b) PROVE ProviderTypes'
  BY <1>19, BuildsAssumption DEF attachRecoveredProviderSession, Found, ProviderTypes, Resting,
    TypeOK, history, provider
<1>20. ASSUME NEW b \in Builds, clearUnboundSourceIntent(b) PROVE ProviderTypes'
  BY <1>20, BuildsAssumption DEF clearUnboundSourceIntent, Found, ProviderTypes, Resting, TypeOK,
    history, provider
<1>21. ASSUME NEW b \in Builds, sweptSession(b) PROVE ProviderTypes'
  BY <1>21, BuildsAssumption DEF sweptSession, Found, ProviderTypes, Resting, Terminal, TypeOK,
    clearSessionCleanup, history, provider
<1>22. ASSUME NEW b \in Builds, clearProviderOperation(b) PROVE ProviderTypes'
  BY <1>22, BuildsAssumption DEF clearProviderOperation, Found, ProviderTypes, Resting, TypeOK,
    history, provider
<1>23. ASSUME NEW b \in Builds, clearReapedImage(b) PROVE ProviderTypes'
  BY <1>23, BuildsAssumption DEF clearReapedImage, Found, NoSessionObligation, ProviderTypes,
    Resting, TypeOK, deleteSupersededImage, history, provider
<1>24. ASSUME NEW b \in Builds, deleteOldFailedBuilds(b) PROVE ProviderTypes'
  BY <1>24, BuildsAssumption DEF deleteOldFailedBuilds, NoSessionObligation, ProviderTypes,
    TypeOK, history, provider
<1>25. ASSUME NEW b \in Builds, markRestoreFailed(b) PROVE ProviderTypes'
  BY <1>25, BuildsAssumption DEF markRestoreFailed, ProviderTypes, TypeOK, history, provider
<1>26. ASSUME NEW b \in Builds, ProviderCreates(b) PROVE ProviderTypes'
  BY <1>26, BuildsAssumption DEF ProviderCreates, ProviderTypes, TypeOK, history, row
<1>27. ASSUME NEW b \in Builds, ProviderCaptures(b) PROVE ProviderTypes'
  BY <1>27, BuildsAssumption DEF ProviderCaptures, ProviderTypes, TypeOK, history, row
<1>28. ASSUME NEW b \in Builds, LeaseExpires(b) PROVE ProviderTypes'
  BY <1>28, BuildsAssumption DEF LeaseExpires, ProviderTypes, TypeOK, history, provider
<1>29. ASSUME NEW b \in Builds, DeadlinePasses(b) PROVE ProviderTypes'
  BY <1>29, BuildsAssumption DEF DeadlinePasses, ProviderTypes, Registered, TypeOK, provider, row
<1>30. ASSUME NEW b \in Builds, GrowsOld(b) PROVE ProviderTypes'
  BY <1>30, BuildsAssumption DEF GrowsOld, ProviderTypes, Registered, TypeOK, row
<1>31. ASSUME NEW w \in Workers, NEW b \in Builds, getBuild(w, b) PROVE ProviderTypes'
  BY <1>31, BuildsAssumption DEF getBuild, At, Idle, ProviderTypes, TypeOK, history, provider,
    row
<1>32. ASSUME NEW w \in Workers, NEW b \in Builds, work[w].build = b, claimLease(w) PROVE
  ProviderTypes'
  BY <1>32, BuildsAssumption DEF claimLease, At, Finishes, Goes, Idle, ProviderTypes, Retries,
    TypeOK, history, provider
<1>33. ASSUME NEW w \in Workers, NEW b \in Builds, work[w].build = b, reserveProviderOperation(w)
  PROVE ProviderTypes'
  BY <1>33, BuildsAssumption DEF reserveProviderOperation, At, Goes, HasLease, ProviderTypes,
    TypeOK, history, provider
<1>34. ASSUME NEW w \in Workers, NEW b \in Builds, work[w].build = b, captureBuildSnapshot(w)
  PROVE ProviderTypes'
  BY <1>34, BuildsAssumption DEF captureBuildSnapshot, At, Goes, ProviderTypes, TypeOK, history,
    row
<1>35. ASSUME NEW w \in Workers, NEW b \in Builds, work[w].build = b, awaitCapturedSnapshot(w)
  PROVE ProviderTypes'
  BY <1>35, BuildsAssumption DEF awaitCapturedSnapshot, At, Goes, ProviderTypes, TypeOK, history,
    provider, row
<1>36. ASSUME NEW w \in Workers, NEW b \in Builds, work[w].build = b, recordArtifact(w) PROVE
  ProviderTypes'
  BY <1>36, BuildsAssumption DEF recordArtifact, At, Goes, HasLease, ProviderTypes, TypeOK,
    history, provider
<1>37. ASSUME NEW w \in Workers, NEW b \in Builds, work[w].build = b,
  compensateUnrecordedArtifact(w) PROVE ProviderTypes'
  BY <1>37, BuildsAssumption DEF compensateUnrecordedArtifact, At, Goes, ProviderTypes, TypeOK,
    history, row
<1>38. ASSUME NEW w \in Workers, NEW b \in Builds, work[w].build = b, quarantineArtifact(w) PROVE
  ProviderTypes'
  BY <1>38, BuildsAssumption DEF quarantineArtifact, At, Finishes, Idle, ProviderTypes, Retries,
    TypeOK, history, provider
<1>39. ASSUME NEW w \in Workers, NEW b \in Builds, work[w].build = b, clearLease(w) PROVE
  ProviderTypes'
  BY <1>39, BuildsAssumption DEF clearLease, At, Finishes, HasLease, Idle, ProviderTypes,
    Retries, TypeOK, history, provider
<1>40. ASSUME NEW w \in Workers, NEW b \in Builds, work[w].build = b, markFailed(w) PROVE
  ProviderTypes'
  BY <1>40, BuildsAssumption DEF markFailed, At, Goes, HasLease, ProviderTypes, TypeOK, history,
    provider
<1>41. ASSUME NEW w \in Workers, NEW b \in Builds, work[w].build = b, tryMarkImageBuildReady(w)
  PROVE ProviderTypes'
  BY <1>41, BuildsAssumption DEF tryMarkImageBuildReady, At, Goes, HasLease, NewerReady,
    ProviderTypes, TypeOK, history, provider
<1>42. ASSUME NEW w \in Workers, NEW b \in Builds, work[w].build = b, supersedeOlder(w) PROVE
  ProviderTypes'
  BY <1>42, BuildsAssumption DEF supersedeOlder, At, ProviderTypes, TypeOK, history, provider
<1>43. ASSUME NEW w \in Workers, NEW b \in Builds, work[w].build = b, deleteReplacedImages(w)
  PROVE ProviderTypes'
  BY <1>43, BuildsAssumption DEF deleteReplacedImages, At, Goes, NoSessionObligation,
    ProviderTypes, TypeOK, deleteSupersededImage, history
<1>44. ASSUME NEW w \in Workers, NEW b \in Builds, work[w].build = b, cleanupTerminalBuild(w)
  PROVE ProviderTypes'
  BY <1>44, BuildsAssumption DEF cleanupTerminalBuild, At, Finishes, Goes, Idle, ProviderTypes,
    Retries, Terminal, TypeOK, history, row
<1>45. ASSUME NEW w \in Workers, NEW b \in Builds, work[w].build = b, clearAfterCleanup(w) PROVE
  ProviderTypes'
  BY <1>45, BuildsAssumption DEF clearAfterCleanup, At, Finishes, Idle, ProviderTypes, Terminal,
    TypeOK, clearSessionCleanup, history, provider
<1>46. ASSUME NEW w \in Workers, NEW b \in Builds, work[w].build = b, finalizerFails(w) PROVE
  ProviderTypes'
  BY <1>46, BuildsAssumption DEF finalizerFails, At, Finishes, Idle, ProviderTypes, Retries,
    TypeOK, provider
<1>47. ASSUME sweepDies PROVE ProviderTypes'
  BY <1>47, BuildsAssumption DEF sweepDies, ProviderTypes, Resting, TypeOK, provider, row
<1>48. ASSUME supersedeActiveImages PROVE ProviderTypes'
  BY <1>48, BuildsAssumption DEF supersedeActiveImages, ProviderTypes, TypeOK, provider
<1>49. CASE UNCHANGED vars
  BY <1>49 DEF vars, row, provider, history, TypeOK, ProviderTypes
<1>50. ASSUME NEW w \in Workers, Finalize(w) \/ finalizerFails(w) PROVE ProviderTypes'
  BY <1>50, BusyBuild, <1>31, <1>32, <1>33, <1>34, <1>35, <1>36, <1>37, <1>38, <1>39, <1>40,
    <1>41, <1>42, <1>43, <1>44, <1>45, <1>46 DEF Finalize
<1>51. QED
  BY <1>1, <1>2, <1>3, <1>4, <1>5, <1>6, <1>7, <1>8, <1>9, <1>10, <1>11, <1>12, <1>13, <1>14,
    <1>15, <1>16, <1>17, <1>18, <1>19, <1>20, <1>21, <1>22, <1>23, <1>24, <1>25, <1>26, <1>27,
    <1>28, <1>29, <1>30, <1>47, <1>48, <1>49, <1>50 DEF Next, Trigger, Callback, SweepStarts,
    SweepEnds, Maintain, Environment

\* Every variable of the image builds keeps its type, for any number of builds
\* and finalizers.
THEOREM TypeCorrect == Spec => []TypeOK
<1>1. Init => TypeOK
  <2> SUFFICES ASSUME Init PROVE TypeOK
    OBVIOUS
  <2>1. RowTypes
    BY DEF Init, RowTypes
  <2>2. work \in [Workers -> Attempts] /\ sweep \in Findings
    BY Begins, Findable DEF Init
  <2>3. ActorTypes
    BY <2>2 DEF Init, ActorTypes
  <2>4. ProviderTypes
    BY BuildsAssumption DEF Init, ProviderTypes
  <2> QED BY <2>1, <2>3, <2>4 DEF TypeOK
<1>2. TypeOK /\ [Next]_vars => TypeOK'
  BY RowsKeepType, ActorsKeepType, ProviderKeepsType DEF TypeOK
<1> QED BY <1>1, <1>2, PTL DEF Spec

-----------------------------------------------------------------------------
(* Builds and revocation.                                                  *)

\* A build is registered only when none is building, and none resumes.
LEMMA OneBuildStays ==
  ASSUME TypeOK, OneBuildAtATime, [Next]_vars
  PROVE  OneBuildAtATime'
<1>1. ASSUME NEW b \in Builds, registerBuild(b) PROVE OneBuildAtATime'
  BY <1>1 DEF registerBuild, OneBuildAtATime, RowTypes, TypeOK, history, provider
<1>2. ASSUME NEW b \in Builds, markSourceCreateIntent(b) PROVE OneBuildAtATime'
  BY <1>2 DEF markSourceCreateIntent, OneBuildAtATime, RowTypes, TypeOK, history, provider
<1>3. ASSUME NEW b \in Builds, startBuild(b) PROVE OneBuildAtATime'
  BY <1>3 DEF startBuild, OneBuildAtATime, RowTypes, TypeOK, history, row
<1>4. ASSUME NEW b \in Builds, createAnswers(b) PROVE OneBuildAtATime'
  BY <1>4 DEF createAnswers, OneBuildAtATime, RowTypes, TypeOK, history, provider, row
<1>5. ASSUME NEW b \in Builds, bindProviderSession(b) PROVE OneBuildAtATime'
  BY <1>5 DEF bindProviderSession, OneBuildAtATime, RowTypes, TypeOK, history, provider
<1>6. ASSUME NEW b \in Builds, launched(b) PROVE OneBuildAtATime'
  BY <1>6 DEF launched, OneBuildAtATime, RowTypes, TypeOK, history, provider, row
<1>7. ASSUME NEW b \in Builds, markBuildFailed(b) PROVE OneBuildAtATime'
  BY <1>7 DEF markBuildFailed, OneBuildAtATime, RowTypes, TypeOK, history, provider
<1>8. ASSUME NEW b \in Builds, cleanupTrigger(b) PROVE OneBuildAtATime'
  BY <1>8 DEF cleanupTrigger, OneBuildAtATime, RowTypes, TypeOK, history, row
<1>9. ASSUME NEW b \in Builds, triggerDies(b) PROVE OneBuildAtATime'
  BY <1>9 DEF triggerDies, OneBuildAtATime, RowTypes, TypeOK, provider, row
<1>10. ASSUME NEW b \in Builds, acceptSuccessfulCompletion(b) PROVE OneBuildAtATime'
  BY <1>10 DEF acceptSuccessfulCompletion, OneBuildAtATime, RowTypes, TypeOK, history, provider
<1>11. ASSUME NEW b \in Builds, acceptFailedCompletion(b) PROVE OneBuildAtATime'
  BY <1>11 DEF acceptFailedCompletion, OneBuildAtATime, RowTypes, TypeOK, history, provider
<1>12. ASSUME NEW b \in Builds, replayCompletion(b) PROVE OneBuildAtATime'
  BY <1>12 DEF replayCompletion, OneBuildAtATime, Registered, RowTypes, TypeOK, history,
    provider, row
<1>13. ASSUME NEW b \in Builds, republishRecoverableFinalizations(b) PROVE OneBuildAtATime'
  BY <1>13 DEF republishRecoverableFinalizations, OneBuildAtATime, RowTypes, TypeOK, history,
    provider, row
<1>14. ASSUME NEW b \in Builds, markStaleBuildsAsFailed(b) PROVE OneBuildAtATime'
  BY <1>14 DEF markStaleBuildsAsFailed, OneBuildAtATime, RowTypes, TypeOK, history, provider
<1>15. ASSUME NEW b \in Builds, recoverUnboundSource(b) PROVE OneBuildAtATime'
  BY <1>15 DEF recoverUnboundSource, Finds, OneBuildAtATime, Resting, RowTypes, TypeOK, history,
    provider, row
<1>16. ASSUME NEW b \in Builds, sweepSession(b) PROVE OneBuildAtATime'
  BY <1>16 DEF sweepSession, Finds, OneBuildAtATime, Resting, RowTypes, Terminal, TypeOK,
    history, row
<1>17. ASSUME NEW b \in Builds, reconcileUnresolvedOperation(b) PROVE OneBuildAtATime'
  BY <1>17 DEF reconcileUnresolvedOperation, Finds, OneBuildAtATime, Resting, RowTypes, TypeOK,
    history, row
<1>18. ASSUME NEW b \in Builds, reapImage(b) PROVE OneBuildAtATime'
  BY <1>18 DEF reapImage, Finds, NoSessionObligation, OneBuildAtATime, Resting, RowTypes, TypeOK,
    history, row
<1>19. ASSUME NEW b \in Builds, attachRecoveredProviderSession(b) PROVE OneBuildAtATime'
  BY <1>19 DEF attachRecoveredProviderSession, Found, OneBuildAtATime, Resting, RowTypes, TypeOK,
    history, provider
<1>20. ASSUME NEW b \in Builds, clearUnboundSourceIntent(b) PROVE OneBuildAtATime'
  BY <1>20 DEF clearUnboundSourceIntent, Found, OneBuildAtATime, Resting, RowTypes, TypeOK,
    history, provider
<1>21. ASSUME NEW b \in Builds, sweptSession(b) PROVE OneBuildAtATime'
  BY <1>21 DEF sweptSession, Found, OneBuildAtATime, Resting, RowTypes, Terminal, TypeOK,
    clearSessionCleanup, history, provider
<1>22. ASSUME NEW b \in Builds, clearProviderOperation(b) PROVE OneBuildAtATime'
  BY <1>22 DEF clearProviderOperation, Found, OneBuildAtATime, Resting, RowTypes, TypeOK,
    history, provider
<1>23. ASSUME NEW b \in Builds, clearReapedImage(b) PROVE OneBuildAtATime'
  BY <1>23 DEF clearReapedImage, Found, NoSessionObligation, OneBuildAtATime, Resting, RowTypes,
    TypeOK, deleteSupersededImage, history, provider
<1>24. ASSUME NEW b \in Builds, deleteOldFailedBuilds(b) PROVE OneBuildAtATime'
  BY <1>24 DEF deleteOldFailedBuilds, NoSessionObligation, OneBuildAtATime, RowTypes, TypeOK,
    history, provider
<1>25. ASSUME NEW b \in Builds, markRestoreFailed(b) PROVE OneBuildAtATime'
  BY <1>25 DEF markRestoreFailed, OneBuildAtATime, RowTypes, TypeOK, history, provider
<1>26. ASSUME NEW b \in Builds, ProviderCreates(b) PROVE OneBuildAtATime'
  BY <1>26 DEF ProviderCreates, OneBuildAtATime, RowTypes, TypeOK, history, row
<1>27. ASSUME NEW b \in Builds, ProviderCaptures(b) PROVE OneBuildAtATime'
  BY <1>27 DEF ProviderCaptures, OneBuildAtATime, RowTypes, TypeOK, history, row
<1>28. ASSUME NEW b \in Builds, LeaseExpires(b) PROVE OneBuildAtATime'
  BY <1>28 DEF LeaseExpires, OneBuildAtATime, RowTypes, TypeOK, history, provider
<1>29. ASSUME NEW b \in Builds, DeadlinePasses(b) PROVE OneBuildAtATime'
  BY <1>29 DEF DeadlinePasses, OneBuildAtATime, Registered, RowTypes, TypeOK, provider, row
<1>30. ASSUME NEW b \in Builds, GrowsOld(b) PROVE OneBuildAtATime'
  BY <1>30 DEF GrowsOld, OneBuildAtATime, Registered, RowTypes, TypeOK, row
<1>31. ASSUME NEW w \in Workers, NEW b \in Builds, getBuild(w, b) PROVE OneBuildAtATime'
  BY <1>31 DEF getBuild, At, Idle, OneBuildAtATime, RowTypes, TypeOK, history, provider, row
<1>32. ASSUME NEW w \in Workers, NEW b \in Builds, work[w].build = b, claimLease(w) PROVE
  OneBuildAtATime'
  BY <1>32 DEF claimLease, At, Finishes, Goes, Idle, OneBuildAtATime, Retries, RowTypes, TypeOK,
    history, provider
<1>33. ASSUME NEW w \in Workers, NEW b \in Builds, work[w].build = b, reserveProviderOperation(w)
  PROVE OneBuildAtATime'
  BY <1>33 DEF reserveProviderOperation, At, Goes, HasLease, OneBuildAtATime, RowTypes, TypeOK,
    history, provider
<1>34. ASSUME NEW w \in Workers, NEW b \in Builds, work[w].build = b, captureBuildSnapshot(w)
  PROVE OneBuildAtATime'
  BY <1>34 DEF captureBuildSnapshot, At, Goes, OneBuildAtATime, RowTypes, TypeOK, history, row
<1>35. ASSUME NEW w \in Workers, NEW b \in Builds, work[w].build = b, awaitCapturedSnapshot(w)
  PROVE OneBuildAtATime'
  BY <1>35 DEF awaitCapturedSnapshot, At, Goes, OneBuildAtATime, RowTypes, TypeOK, history,
    provider, row
<1>36. ASSUME NEW w \in Workers, NEW b \in Builds, work[w].build = b, recordArtifact(w) PROVE
  OneBuildAtATime'
  BY <1>36 DEF recordArtifact, At, Goes, HasLease, OneBuildAtATime, RowTypes, TypeOK, history,
    provider
<1>37. ASSUME NEW w \in Workers, NEW b \in Builds, work[w].build = b,
  compensateUnrecordedArtifact(w) PROVE OneBuildAtATime'
  BY <1>37 DEF compensateUnrecordedArtifact, At, Goes, OneBuildAtATime, RowTypes, TypeOK,
    history, row
<1>38. ASSUME NEW w \in Workers, NEW b \in Builds, work[w].build = b, quarantineArtifact(w) PROVE
  OneBuildAtATime'
  BY <1>38 DEF quarantineArtifact, At, Finishes, Idle, OneBuildAtATime, Retries, RowTypes,
    TypeOK, history, provider
<1>39. ASSUME NEW w \in Workers, NEW b \in Builds, work[w].build = b, clearLease(w) PROVE
  OneBuildAtATime'
  BY <1>39 DEF clearLease, At, Finishes, HasLease, Idle, OneBuildAtATime, Retries, RowTypes,
    TypeOK, history, provider
<1>40. ASSUME NEW w \in Workers, NEW b \in Builds, work[w].build = b, markFailed(w) PROVE
  OneBuildAtATime'
  BY <1>40 DEF markFailed, At, Goes, HasLease, OneBuildAtATime, RowTypes, TypeOK, history,
    provider
<1>41. ASSUME NEW w \in Workers, NEW b \in Builds, work[w].build = b, tryMarkImageBuildReady(w)
  PROVE OneBuildAtATime'
  BY <1>41 DEF tryMarkImageBuildReady, At, Goes, HasLease, NewerReady, OneBuildAtATime, RowTypes,
    TypeOK, history, provider
<1>42. ASSUME NEW w \in Workers, NEW b \in Builds, work[w].build = b, supersedeOlder(w) PROVE
  OneBuildAtATime'
  BY <1>42 DEF supersedeOlder, At, OneBuildAtATime, RowTypes, TypeOK, history, provider
<1>43. ASSUME NEW w \in Workers, NEW b \in Builds, work[w].build = b, deleteReplacedImages(w)
  PROVE OneBuildAtATime'
  BY <1>43 DEF deleteReplacedImages, At, Goes, NoSessionObligation, OneBuildAtATime, RowTypes,
    TypeOK, deleteSupersededImage, history
<1>44. ASSUME NEW w \in Workers, NEW b \in Builds, work[w].build = b, cleanupTerminalBuild(w)
  PROVE OneBuildAtATime'
  BY <1>44 DEF cleanupTerminalBuild, At, Finishes, Goes, Idle, OneBuildAtATime, Retries,
    RowTypes, Terminal, TypeOK, history, row
<1>45. ASSUME NEW w \in Workers, NEW b \in Builds, work[w].build = b, clearAfterCleanup(w) PROVE
  OneBuildAtATime'
  BY <1>45 DEF clearAfterCleanup, At, Finishes, Idle, OneBuildAtATime, RowTypes, Terminal,
    TypeOK, clearSessionCleanup, history, provider
<1>46. ASSUME NEW w \in Workers, NEW b \in Builds, work[w].build = b, finalizerFails(w) PROVE
  OneBuildAtATime'
  BY <1>46 DEF finalizerFails, At, Finishes, Idle, OneBuildAtATime, Retries, RowTypes, TypeOK,
    provider
<1>47. ASSUME sweepDies PROVE OneBuildAtATime'
  BY <1>47 DEF sweepDies, OneBuildAtATime, Resting, RowTypes, TypeOK, provider, row
<1>48. ASSUME supersedeActiveImages PROVE OneBuildAtATime'
  BY <1>48 DEF supersedeActiveImages, OneBuildAtATime, RowTypes, TypeOK, provider
<1>49. CASE UNCHANGED vars
  BY <1>49 DEF vars, row, provider, history, OneBuildAtATime, TypeOK, RowTypes
<1>50. ASSUME NEW w \in Workers, Finalize(w) \/ finalizerFails(w) PROVE OneBuildAtATime'
  BY <1>50, BusyBuild, <1>31, <1>32, <1>33, <1>34, <1>35, <1>36, <1>37, <1>38, <1>39, <1>40,
    <1>41, <1>42, <1>43, <1>44, <1>45, <1>46 DEF Finalize
<1>51. QED
  BY <1>1, <1>2, <1>3, <1>4, <1>5, <1>6, <1>7, <1>8, <1>9, <1>10, <1>11, <1>12, <1>13, <1>14,
    <1>15, <1>16, <1>17, <1>18, <1>19, <1>20, <1>21, <1>22, <1>23, <1>24, <1>25, <1>26, <1>27,
    <1>28, <1>29, <1>30, <1>47, <1>48, <1>49, <1>50 DEF Next, Trigger, Callback, SweepStarts,
    SweepEnds, Maintain, Environment

\* Two builds of a scope never run at once (registerBuild's guarded insert),
\* whatever finalizers, sweeps and revocations do meanwhile.
THEOREM BuildsExclude == Spec => []OneBuildAtATime
<1>1. Init => OneBuildAtATime
  BY DEF Init, OneBuildAtATime
<1>2. TypeOK /\ OneBuildAtATime /\ [Next]_vars => OneBuildAtATime'
  BY OneBuildStays
<1> QED BY <1>1, <1>2, TypeCorrect, PTL DEF Spec

\* A revoked build is over: no status of its row is written that lets it become
\* an image again.
Revoked == \A b \in revoked : status[b] \in {"superseded", "failed", "deleted"}

\* Every write of a status but the first is fenced by the status before it.
LEMMA RevokedStays ==
  ASSUME TypeOK, Revoked, [Next]_vars
  PROVE  Revoked'
<1>1. ASSUME NEW b \in Builds, registerBuild(b) PROVE Revoked'
  BY <1>1 DEF registerBuild, ProviderTypes, Revoked, RowTypes, TypeOK, history, provider
<1>2. ASSUME NEW b \in Builds, markSourceCreateIntent(b) PROVE Revoked'
  BY <1>2 DEF markSourceCreateIntent, ProviderTypes, Revoked, RowTypes, TypeOK, history, provider
<1>3. ASSUME NEW b \in Builds, startBuild(b) PROVE Revoked'
  BY <1>3 DEF startBuild, ProviderTypes, Revoked, RowTypes, TypeOK, history, row
<1>4. ASSUME NEW b \in Builds, createAnswers(b) PROVE Revoked'
  BY <1>4 DEF createAnswers, ProviderTypes, Revoked, RowTypes, TypeOK, history, provider, row
<1>5. ASSUME NEW b \in Builds, bindProviderSession(b) PROVE Revoked'
  BY <1>5 DEF bindProviderSession, ProviderTypes, Revoked, RowTypes, TypeOK, history, provider
<1>6. ASSUME NEW b \in Builds, launched(b) PROVE Revoked'
  BY <1>6 DEF launched, ProviderTypes, Revoked, RowTypes, TypeOK, history, provider, row
<1>7. ASSUME NEW b \in Builds, markBuildFailed(b) PROVE Revoked'
  BY <1>7 DEF markBuildFailed, ProviderTypes, Revoked, RowTypes, TypeOK, history, provider
<1>8. ASSUME NEW b \in Builds, cleanupTrigger(b) PROVE Revoked'
  BY <1>8 DEF cleanupTrigger, ProviderTypes, Revoked, RowTypes, TypeOK, history, row
<1>9. ASSUME NEW b \in Builds, triggerDies(b) PROVE Revoked'
  BY <1>9 DEF triggerDies, ProviderTypes, Revoked, RowTypes, TypeOK, provider, row
<1>10. ASSUME NEW b \in Builds, acceptSuccessfulCompletion(b) PROVE Revoked'
  BY <1>10 DEF acceptSuccessfulCompletion, ProviderTypes, Revoked, RowTypes, TypeOK, history,
    provider
<1>11. ASSUME NEW b \in Builds, acceptFailedCompletion(b) PROVE Revoked'
  BY <1>11 DEF acceptFailedCompletion, ProviderTypes, Revoked, RowTypes, TypeOK, history,
    provider
<1>12. ASSUME NEW b \in Builds, replayCompletion(b) PROVE Revoked'
  BY <1>12 DEF replayCompletion, ProviderTypes, Registered, Revoked, RowTypes, TypeOK, history,
    provider, row
<1>13. ASSUME NEW b \in Builds, republishRecoverableFinalizations(b) PROVE Revoked'
  BY <1>13 DEF republishRecoverableFinalizations, ProviderTypes, Revoked, RowTypes, TypeOK,
    history, provider, row
<1>14. ASSUME NEW b \in Builds, markStaleBuildsAsFailed(b) PROVE Revoked'
  BY <1>14 DEF markStaleBuildsAsFailed, ProviderTypes, Revoked, RowTypes, TypeOK, history,
    provider
<1>15. ASSUME NEW b \in Builds, recoverUnboundSource(b) PROVE Revoked'
  BY <1>15 DEF recoverUnboundSource, Finds, ProviderTypes, Resting, Revoked, RowTypes, TypeOK,
    history, provider, row
<1>16. ASSUME NEW b \in Builds, sweepSession(b) PROVE Revoked'
  BY <1>16 DEF sweepSession, Finds, ProviderTypes, Resting, Revoked, RowTypes, Terminal, TypeOK,
    history, row
<1>17. ASSUME NEW b \in Builds, reconcileUnresolvedOperation(b) PROVE Revoked'
  BY <1>17 DEF reconcileUnresolvedOperation, Finds, ProviderTypes, Resting, Revoked, RowTypes,
    TypeOK, history, row
<1>18. ASSUME NEW b \in Builds, reapImage(b) PROVE Revoked'
  BY <1>18 DEF reapImage, Finds, NoSessionObligation, ProviderTypes, Resting, Revoked, RowTypes,
    TypeOK, history, row
<1>19. ASSUME NEW b \in Builds, attachRecoveredProviderSession(b) PROVE Revoked'
  BY <1>19 DEF attachRecoveredProviderSession, Found, ProviderTypes, Resting, Revoked, RowTypes,
    TypeOK, history, provider
<1>20. ASSUME NEW b \in Builds, clearUnboundSourceIntent(b) PROVE Revoked'
  BY <1>20 DEF clearUnboundSourceIntent, Found, ProviderTypes, Resting, Revoked, RowTypes,
    TypeOK, history, provider
<1>21. ASSUME NEW b \in Builds, sweptSession(b) PROVE Revoked'
  BY <1>21 DEF sweptSession, Found, ProviderTypes, Resting, Revoked, RowTypes, Terminal, TypeOK,
    clearSessionCleanup, history, provider
<1>22. ASSUME NEW b \in Builds, clearProviderOperation(b) PROVE Revoked'
  BY <1>22 DEF clearProviderOperation, Found, ProviderTypes, Resting, Revoked, RowTypes, TypeOK,
    history, provider
<1>23. ASSUME NEW b \in Builds, clearReapedImage(b) PROVE Revoked'
  BY <1>23 DEF clearReapedImage, Found, NoSessionObligation, ProviderTypes, Resting, Revoked,
    RowTypes, TypeOK, deleteSupersededImage, history, provider
<1>24. ASSUME NEW b \in Builds, deleteOldFailedBuilds(b) PROVE Revoked'
  BY <1>24 DEF deleteOldFailedBuilds, NoSessionObligation, ProviderTypes, Revoked, RowTypes,
    TypeOK, history, provider
<1>25. ASSUME NEW b \in Builds, markRestoreFailed(b) PROVE Revoked'
  BY <1>25 DEF markRestoreFailed, ProviderTypes, Revoked, RowTypes, TypeOK, history, provider
<1>26. ASSUME NEW b \in Builds, ProviderCreates(b) PROVE Revoked'
  BY <1>26 DEF ProviderCreates, ProviderTypes, Revoked, RowTypes, TypeOK, history, row
<1>27. ASSUME NEW b \in Builds, ProviderCaptures(b) PROVE Revoked'
  BY <1>27 DEF ProviderCaptures, ProviderTypes, Revoked, RowTypes, TypeOK, history, row
<1>28. ASSUME NEW b \in Builds, LeaseExpires(b) PROVE Revoked'
  BY <1>28 DEF LeaseExpires, ProviderTypes, Revoked, RowTypes, TypeOK, history, provider
<1>29. ASSUME NEW b \in Builds, DeadlinePasses(b) PROVE Revoked'
  BY <1>29 DEF DeadlinePasses, ProviderTypes, Registered, Revoked, RowTypes, TypeOK, provider,
    row
<1>30. ASSUME NEW b \in Builds, GrowsOld(b) PROVE Revoked'
  BY <1>30 DEF GrowsOld, ProviderTypes, Registered, Revoked, RowTypes, TypeOK, row
<1>31. ASSUME NEW w \in Workers, NEW b \in Builds, getBuild(w, b) PROVE Revoked'
  BY <1>31 DEF getBuild, At, Idle, ProviderTypes, Revoked, RowTypes, TypeOK, history, provider,
    row
<1>32. ASSUME NEW w \in Workers, NEW b \in Builds, work[w].build = b, claimLease(w) PROVE
  Revoked'
  BY <1>32 DEF claimLease, At, Finishes, Goes, Idle, ProviderTypes, Retries, Revoked, RowTypes,
    TypeOK, history, provider
<1>33. ASSUME NEW w \in Workers, NEW b \in Builds, work[w].build = b, reserveProviderOperation(w)
  PROVE Revoked'
  BY <1>33 DEF reserveProviderOperation, At, Goes, HasLease, ProviderTypes, Revoked, RowTypes,
    TypeOK, history, provider
<1>34. ASSUME NEW w \in Workers, NEW b \in Builds, work[w].build = b, captureBuildSnapshot(w)
  PROVE Revoked'
  BY <1>34 DEF captureBuildSnapshot, At, Goes, ProviderTypes, Revoked, RowTypes, TypeOK, history,
    row
<1>35. ASSUME NEW w \in Workers, NEW b \in Builds, work[w].build = b, awaitCapturedSnapshot(w)
  PROVE Revoked'
  BY <1>35 DEF awaitCapturedSnapshot, At, Goes, ProviderTypes, Revoked, RowTypes, TypeOK,
    history, provider, row
<1>36. ASSUME NEW w \in Workers, NEW b \in Builds, work[w].build = b, recordArtifact(w) PROVE
  Revoked'
  BY <1>36 DEF recordArtifact, At, Goes, HasLease, ProviderTypes, Revoked, RowTypes, TypeOK,
    history, provider
<1>37. ASSUME NEW w \in Workers, NEW b \in Builds, work[w].build = b,
  compensateUnrecordedArtifact(w) PROVE Revoked'
  BY <1>37 DEF compensateUnrecordedArtifact, At, Goes, ProviderTypes, Revoked, RowTypes, TypeOK,
    history, row
<1>38. ASSUME NEW w \in Workers, NEW b \in Builds, work[w].build = b, quarantineArtifact(w) PROVE
  Revoked'
  BY <1>38 DEF quarantineArtifact, At, Finishes, Idle, ProviderTypes, Retries, Revoked, RowTypes,
    TypeOK, history, provider
<1>39. ASSUME NEW w \in Workers, NEW b \in Builds, work[w].build = b, clearLease(w) PROVE
  Revoked'
  BY <1>39 DEF clearLease, At, Finishes, HasLease, Idle, ProviderTypes, Retries, Revoked,
    RowTypes, TypeOK, history, provider
<1>40. ASSUME NEW w \in Workers, NEW b \in Builds, work[w].build = b, markFailed(w) PROVE
  Revoked'
  BY <1>40 DEF markFailed, At, Goes, HasLease, ProviderTypes, Revoked, RowTypes, TypeOK, history,
    provider
<1>41. ASSUME NEW w \in Workers, NEW b \in Builds, work[w].build = b, tryMarkImageBuildReady(w)
  PROVE Revoked'
  BY <1>41 DEF tryMarkImageBuildReady, At, Goes, HasLease, NewerReady, ProviderTypes, Revoked,
    RowTypes, TypeOK, history, provider
<1>42. ASSUME NEW w \in Workers, NEW b \in Builds, work[w].build = b, supersedeOlder(w) PROVE
  Revoked'
  BY <1>42 DEF supersedeOlder, At, ProviderTypes, Revoked, RowTypes, TypeOK, history, provider
<1>43. ASSUME NEW w \in Workers, NEW b \in Builds, work[w].build = b, deleteReplacedImages(w)
  PROVE Revoked'
  BY <1>43 DEF deleteReplacedImages, At, Goes, NoSessionObligation, ProviderTypes, Revoked,
    RowTypes, TypeOK, deleteSupersededImage, history
<1>44. ASSUME NEW w \in Workers, NEW b \in Builds, work[w].build = b, cleanupTerminalBuild(w)
  PROVE Revoked'
  BY <1>44 DEF cleanupTerminalBuild, At, Finishes, Goes, Idle, ProviderTypes, Retries, Revoked,
    RowTypes, Terminal, TypeOK, history, row
<1>45. ASSUME NEW w \in Workers, NEW b \in Builds, work[w].build = b, clearAfterCleanup(w) PROVE
  Revoked'
  BY <1>45 DEF clearAfterCleanup, At, Finishes, Idle, ProviderTypes, Revoked, RowTypes, Terminal,
    TypeOK, clearSessionCleanup, history, provider
<1>46. ASSUME NEW w \in Workers, NEW b \in Builds, work[w].build = b, finalizerFails(w) PROVE
  Revoked'
  BY <1>46 DEF finalizerFails, At, Finishes, Idle, ProviderTypes, Retries, Revoked, RowTypes,
    TypeOK, provider
<1>47. ASSUME sweepDies PROVE Revoked'
  BY <1>47 DEF sweepDies, ProviderTypes, Resting, Revoked, RowTypes, TypeOK, provider, row
<1>48. ASSUME supersedeActiveImages PROVE Revoked'
  BY <1>48 DEF supersedeActiveImages, ProviderTypes, Revoked, RowTypes, TypeOK, provider
<1>49. CASE UNCHANGED vars
  BY <1>49 DEF vars, row, provider, history, Revoked, TypeOK, RowTypes, ProviderTypes
<1>50. ASSUME NEW w \in Workers, Finalize(w) \/ finalizerFails(w) PROVE Revoked'
  BY <1>50, BusyBuild, <1>31, <1>32, <1>33, <1>34, <1>35, <1>36, <1>37, <1>38, <1>39, <1>40,
    <1>41, <1>42, <1>43, <1>44, <1>45, <1>46 DEF Finalize
<1>51. QED
  BY <1>1, <1>2, <1>3, <1>4, <1>5, <1>6, <1>7, <1>8, <1>9, <1>10, <1>11, <1>12, <1>13, <1>14,
    <1>15, <1>16, <1>17, <1>18, <1>19, <1>20, <1>21, <1>22, <1>23, <1>24, <1>25, <1>26, <1>27,
    <1>28, <1>29, <1>30, <1>47, <1>48, <1>49, <1>50 DEF Next, Trigger, Callback, SweepStarts,
    SweepEnds, Maintain, Environment

\* A build that began before a secret of its scope changed is never published,
\* however late its completion, its capture or its finalizer.
THEOREM RevokedImagesStayOut == Spec => []NoRevokedImage
<1>1. Init => Revoked
  BY DEF Init, Revoked
<1>2. TypeOK /\ Revoked /\ [Next]_vars => Revoked'
  BY RevokedStays
<1>3. Revoked => NoRevokedImage
  BY DEF Revoked, NoRevokedImage
<1> QED BY <1>1, <1>2, <1>3, TypeCorrect, PTL DEF Spec

-----------------------------------------------------------------------------
(* Where an attempt goes from where it is.                                 *)

Went(w, places) ==
  /\ \A v \in Workers \ {w} : work'[v] = work[v]
  /\ work'[w].at \in places
  /\ work'[w].at # "idle" => work'[w].build = work[w].build

Keeps(w) == work'[w].replaced \subseteq work[w].replaced

\* claimLease leads on only on a building row whose lease was free.
LEMMA ClaimGoes ==
  ASSUME TypeOK, NEW w \in Workers, NEW b \in Builds, work[w].build = b, claimLease(w)
  PROVE  /\ At(w, "claim")
         /\ Went(w, {"idle", "submit", "fail", "await", "publish"}) /\ Keeps(w)
         /\ work'[w].at # "idle" =>
              /\ status[b] = "building" /\ b \in bound
              /\ lease[b] = "none" \/ b \in lapsed
              /\ lease' = [lease EXCEPT ![b] = w] /\ lapsed' = lapsed \ {b}
         /\ work'[w].at = "publish" => b \in image
         /\ work'[w].at = "idle" => UNCHANGED <<lease, lapsed>>
BY DEF claimLease, ActorTypes, At, Attempts, Finishes, Goes, Idle, Keeps, ProviderTypes, Retries,
  RowTypes, TypeOK, Went, history, provider

\* reserveProviderOperation leads on only with the row's own operation, and
\* reserves it only under the lease.
LEMMA ReserveGoes ==
  ASSUME TypeOK, NEW w \in Workers, NEW b \in Builds, work[w].build = b, reserveProviderOperation(w)
  PROVE  /\ At(w, "submit")
         /\ Went(w, {"fail", "release", "poll", "capture"}) /\ Keeps(w)
         /\ \/ UNCHANGED op /\ work'[w].at # "capture"
            \/ /\ status[b] = "building" /\ HasLease(w, b) /\ source[b] = "up"
               /\ b \notin op \cup image /\ op' = op \cup {b}
BY DEF reserveProviderOperation, ActorTypes, At, Attempts, Goes, HasLease, Keeps, ProviderTypes,
  RowTypes, TypeOK, Went, history, provider

\* captureBuildSnapshot waits for the provider, or reports its refusal.
LEMMA CaptureGoes ==
  ASSUME TypeOK, NEW w \in Workers, NEW b \in Builds, work[w].build = b, captureBuildSnapshot(w)
  PROVE  /\ At(w, "capture")
         /\ Went(w, {"await", "fail"}) /\ Keeps(w)
BY DEF captureBuildSnapshot, ActorTypes, At, Attempts, Goes, Keeps, ProviderTypes, RowTypes,
  TypeOK, Went, history, row

\* Waiting for a capture ends in a recording, a failure or a retry.
LEMMA AwaitGoes ==
  ASSUME TypeOK, NEW w \in Workers, NEW b \in Builds, work[w].build = b, awaitCapturedSnapshot(w)
  PROVE  /\ At(w, "await")
         /\ Went(w, {"record", "fail", "poll"}) /\ Keeps(w)
         /\ work'[w].at = "record" => capture[b] = "done"
BY DEF awaitCapturedSnapshot, ActorTypes, At, Attempts, Goes, Keeps, ProviderTypes, RowTypes,
  TypeOK, Went, history, provider, row

\* recordArtifact is followed by publication, or by a compensation.
LEMMA RecordGoes ==
  ASSUME TypeOK, NEW w \in Workers, NEW b \in Builds, work[w].build = b, recordArtifact(w)
  PROVE  /\ At(w, "record")
         /\ Went(w, {"publish", "compensate"}) /\ Keeps(w)
         /\ work'[w].at = "publish" => b \in image'
         /\ work'[w].at = "compensate" => b \notin image'
         /\ \/ UNCHANGED <<image, op>>
            \/ /\ status[b] = "building" /\ HasLease(w, b)
               /\ image' = image \cup {b} /\ op' = op \ {b}
BY DEF recordArtifact, ActorTypes, At, Attempts, Goes, HasLease, Keeps, ProviderTypes, RowTypes,
  TypeOK, Went, history, provider

\* An artifact that was not recorded is deleted, or quarantined.
LEMMA CompensateGoes ==
  ASSUME TypeOK, NEW w \in Workers, NEW b \in Builds, work[w].build = b,
    compensateUnrecordedArtifact(w)
  PROVE  /\ At(w, "compensate")
         /\ Went(w, {"release", "quarantine"}) /\ Keeps(w)
BY DEF compensateUnrecordedArtifact, ActorTypes, At, Attempts, Goes, Keeps, ProviderTypes,
  RowTypes, TypeOK, Went, history, row

\* A quarantined artifact leaves the lease to be released.
LEMMA QuarantineGoes ==
  ASSUME TypeOK, NEW w \in Workers, NEW b \in Builds, work[w].build = b, quarantineArtifact(w)
  PROVE  /\ At(w, "quarantine")
         /\ Went(w, {"idle"}) /\ Keeps(w)
BY DEF quarantineArtifact, ActorTypes, At, Attempts, Finishes, Idle, Keeps, ProviderTypes,
  Retries, RowTypes, TypeOK, Went, history, provider

\* clearLease ends an attempt that has nothing left to do under its lease.
LEMMA ReleaseGoes ==
  ASSUME TypeOK, NEW w \in Workers, NEW b \in Builds, work[w].build = b, clearLease(w)
  PROVE  /\ At(w, "release") \/ At(w, "poll")
         /\ Went(w, {"idle"}) /\ Keeps(w)
BY DEF clearLease, ActorTypes, At, Attempts, Finishes, HasLease, Idle, Keeps, ProviderTypes,
  Retries, RowTypes, TypeOK, Went, history, provider

\* markFailed is followed by the deletion of the source.
LEMMA FailGoes ==
  ASSUME TypeOK, NEW w \in Workers, NEW b \in Builds, work[w].build = b, markFailed(w)
  PROVE  /\ At(w, "fail")
         /\ Went(w, {"cleanup"}) /\ Keeps(w)
BY DEF markFailed, ActorTypes, At, Attempts, Goes, HasLease, Keeps, ProviderTypes, RowTypes,
  TypeOK, Went, history, provider

\* tryMarkImageBuildReady decides which images the attempt replaces.
LEMMA PublishGoes ==
  ASSUME TypeOK, NEW w \in Workers, NEW b \in Builds, work[w].build = b, tryMarkImageBuildReady(w)
  PROVE  /\ At(w, "publish")
         /\ Went(w, {"delete", "supersede", "release", "cleanup"})
         /\ work'[w].at \in {"delete", "supersede"} => status[b] = "building" /\ HasLease(w, b)
         /\ work'[w].at \in {"release", "cleanup"} =>
              UNCHANGED status /\ work'[w].replaced = work[w].replaced
         /\ work'[w].at = "delete" =>
              status' = [status EXCEPT ![b] = "superseded"] /\ work'[w].replaced = {b}
         /\ work'[w].at = "supersede" =>
              status' = [status EXCEPT ![b] = "ready"] /\ work'[w].replaced = {}
BY DEF tryMarkImageBuildReady, ActorTypes, At, Attempts, Goes, HasLease, Keeps, NewerReady,
  ProviderTypes, RowTypes, TypeOK, Went, history, provider

\* supersedeOlder replaces the older ready images.
LEMMA SupersedeGoes ==
  ASSUME TypeOK, NEW w \in Workers, NEW b \in Builds, work[w].build = b, supersedeOlder(w)
  PROVE  /\ At(w, "supersede")
         /\ Went(w, {"delete"})
         /\ work'[w].replaced = {c \in Builds : c < b /\ status[c] = "ready"}
BY DEF supersedeOlder, ActorTypes, At, Attempts, Keeps, ProviderTypes, RowTypes, TypeOK, Went,
  history, provider

\* deleteReplacedImages forgets a replaced image at a time.
LEMMA DeleteGoes ==
  ASSUME TypeOK, NEW w \in Workers, NEW b \in Builds, work[w].build = b, deleteReplacedImages(w)
  PROVE  /\ At(w, "delete")
         /\ Went(w, {"delete", "cleanup"})
         /\ work'[w].replaced \subseteq work[w].replaced
<1>1. At(w, "delete")
  BY DEF deleteReplacedImages
<1>2. CASE work[w].replaced = {}
  BY <1>1, <1>2 DEF deleteReplacedImages, Goes, Went, At, TypeOK, ActorTypes, Attempts
<1>3. ASSUME NEW c \in work[w].replaced, work' = [work EXCEPT ![w].replaced = @ \ {c}]
      PROVE  Went(w, {"delete", "cleanup"}) /\ work'[w].replaced \subseteq work[w].replaced
  BY <1>1, <1>3 DEF Went, At, TypeOK, ActorTypes, Attempts
<1> QED BY <1>1, <1>2, <1>3 DEF deleteReplacedImages

\* cleanupTerminalBuild settles a debt only with the source gone.
LEMMA CleanupGoes ==
  ASSUME TypeOK, NEW w \in Workers, NEW b \in Builds, work[w].build = b, cleanupTerminalBuild(w)
  PROVE  /\ At(w, "cleanup")
         /\ Went(w, {"clear", "idle"}) /\ Keeps(w)
         /\ work'[w].at = "clear" => source'[b] = "gone"
BY DEF cleanupTerminalBuild, ActorTypes, At, Attempts, Finishes, Goes, Idle, Keeps,
  ProviderTypes, Retries, RowTypes, Terminal, TypeOK, Went, history, row

\* clearSessionCleanup is the attempt's last step.
LEMMA ClearGoes ==
  ASSUME TypeOK, NEW w \in Workers, NEW b \in Builds, work[w].build = b, clearAfterCleanup(w)
  PROVE  /\ At(w, "clear")
         /\ Went(w, {"idle"}) /\ Keeps(w)
BY DEF clearAfterCleanup, ActorTypes, At, Attempts, Finishes, Idle, Keeps, ProviderTypes,
  RowTypes, Terminal, TypeOK, Went, clearSessionCleanup, history, provider

\* A finalizer that dies leaves no attempt behind.
LEMMA FailureGoes ==
  ASSUME TypeOK, NEW w \in Workers, NEW b \in Builds, work[w].build = b, finalizerFails(w)
  PROVE  /\ Went(w, {"idle"}) /\ Keeps(w)
BY DEF finalizerFails, ActorTypes, At, Attempts, Finishes, Idle, Keeps, ProviderTypes, Retries,
  RowTypes, TypeOK, Went, provider

\* A delivered command begins an attempt that replaces nothing.
LEMMA DeliveryGoes ==
  ASSUME TypeOK, NEW w \in Workers, NEW b \in Builds, getBuild(w, b)
  PROVE  /\ At(w, "idle")
         /\ \A v \in Workers \ {w} : work'[v] = work[v]
         /\ work'[w].at \in {"idle", "claim", "cleanup"}
         /\ work'[w].at # "idle" => work'[w].build = b
         /\ work'[w].replaced = {}
         /\ work'[w].at = "claim" => status[b] = "building"
BY DEF getBuild, At, Idle, TypeOK, ActorTypes, Attempts

-----------------------------------------------------------------------------
(* Captures.                                                               *)

\* A build whose capture's name was reserved keeps the operation or its image,
\* or is over: no later attempt finds it free to reserve again.
Reserved(b) == b \in op \cup image \/ status[b] \in {"ready", "failed", "superseded", "deleted"}

Capturing(w, b) == work[w].at = "capture" /\ work[w].build = b

AskedOnce ==
  \A b \in Builds :
    /\ captures[b] = 0 \/ (captures[b] = 1 /\ Reserved(b))
    /\ \A w \in Workers : Capturing(w, b) => captures[b] = 0 /\ Reserved(b)
    /\ \A v, w \in Workers : Capturing(v, b) /\ Capturing(w, b) => v = w

ReservedHolds == \A b \in Builds : Reserved(b) => Reserved(b)'

\* A step that neither reserves a capture's name nor asks for one, or one that does.
Asking ==
  \/ UNCHANGED captures /\ \A v \in Workers : work'[v] = work[v] \/ work'[v].at # "capture"
  \/ \E w \in Workers : reserveProviderOperation(w) \/ captureBuildSnapshot(w)

\* An operation is given up for an image or in a row that is over, and no row comes back.
LEMMA ReservedStays ==
  ASSUME TypeOK, [Next]_vars
  PROVE  ReservedHolds
<1>1. ASSUME NEW b \in Builds, registerBuild(b) PROVE ReservedHolds
  BY <1>1 DEF registerBuild, Reserved, ReservedHolds, RowTypes, TypeOK, history, provider
<1>2. ASSUME NEW b \in Builds, markSourceCreateIntent(b) PROVE ReservedHolds
  BY <1>2 DEF markSourceCreateIntent, Reserved, ReservedHolds, RowTypes, TypeOK, history,
    provider
<1>3. ASSUME NEW b \in Builds, startBuild(b) PROVE ReservedHolds
  BY <1>3 DEF startBuild, Reserved, ReservedHolds, RowTypes, TypeOK, history, row
<1>4. ASSUME NEW b \in Builds, createAnswers(b) PROVE ReservedHolds
  BY <1>4 DEF createAnswers, Reserved, ReservedHolds, RowTypes, TypeOK, history, provider, row
<1>5. ASSUME NEW b \in Builds, bindProviderSession(b) PROVE ReservedHolds
  BY <1>5 DEF bindProviderSession, Reserved, ReservedHolds, RowTypes, TypeOK, history, provider
<1>6. ASSUME NEW b \in Builds, launched(b) PROVE ReservedHolds
  BY <1>6 DEF launched, Reserved, ReservedHolds, RowTypes, TypeOK, history, provider, row
<1>7. ASSUME NEW b \in Builds, markBuildFailed(b) PROVE ReservedHolds
  BY <1>7 DEF markBuildFailed, Reserved, ReservedHolds, RowTypes, TypeOK, history, provider
<1>8. ASSUME NEW b \in Builds, cleanupTrigger(b) PROVE ReservedHolds
  BY <1>8 DEF cleanupTrigger, Reserved, ReservedHolds, RowTypes, TypeOK, history, row
<1>9. ASSUME NEW b \in Builds, triggerDies(b) PROVE ReservedHolds
  BY <1>9 DEF triggerDies, Reserved, ReservedHolds, RowTypes, TypeOK, provider, row
<1>10. ASSUME NEW b \in Builds, acceptSuccessfulCompletion(b) PROVE ReservedHolds
  BY <1>10 DEF acceptSuccessfulCompletion, Reserved, ReservedHolds, RowTypes, TypeOK, history,
    provider
<1>11. ASSUME NEW b \in Builds, acceptFailedCompletion(b) PROVE ReservedHolds
  BY <1>11 DEF acceptFailedCompletion, Reserved, ReservedHolds, RowTypes, TypeOK, history,
    provider
<1>12. ASSUME NEW b \in Builds, replayCompletion(b) PROVE ReservedHolds
  BY <1>12 DEF replayCompletion, Registered, Reserved, ReservedHolds, RowTypes, TypeOK, history,
    provider, row
<1>13. ASSUME NEW b \in Builds, republishRecoverableFinalizations(b) PROVE ReservedHolds
  BY <1>13 DEF republishRecoverableFinalizations, Reserved, ReservedHolds, RowTypes, TypeOK,
    history, provider, row
<1>14. ASSUME NEW b \in Builds, markStaleBuildsAsFailed(b) PROVE ReservedHolds
  BY <1>14 DEF markStaleBuildsAsFailed, Reserved, ReservedHolds, RowTypes, TypeOK, history,
    provider
<1>15. ASSUME NEW b \in Builds, recoverUnboundSource(b) PROVE ReservedHolds
  BY <1>15 DEF recoverUnboundSource, Finds, Reserved, ReservedHolds, RowTypes, TypeOK, history,
    provider, row
<1>16. ASSUME NEW b \in Builds, sweepSession(b) PROVE ReservedHolds
  BY <1>16 DEF sweepSession, Finds, Reserved, ReservedHolds, RowTypes, Terminal, TypeOK, history,
    row
<1>17. ASSUME NEW b \in Builds, reconcileUnresolvedOperation(b) PROVE ReservedHolds
  BY <1>17 DEF reconcileUnresolvedOperation, Finds, Reserved, ReservedHolds, RowTypes, TypeOK,
    history, row
<1>18. ASSUME NEW b \in Builds, reapImage(b) PROVE ReservedHolds
  BY <1>18 DEF reapImage, Finds, NoSessionObligation, Reserved, ReservedHolds, RowTypes, TypeOK,
    history, row
<1>19. ASSUME NEW b \in Builds, attachRecoveredProviderSession(b) PROVE ReservedHolds
  BY <1>19 DEF attachRecoveredProviderSession, Found, Reserved, ReservedHolds, RowTypes, TypeOK,
    history, provider
<1>20. ASSUME NEW b \in Builds, clearUnboundSourceIntent(b) PROVE ReservedHolds
  BY <1>20 DEF clearUnboundSourceIntent, Found, Reserved, ReservedHolds, RowTypes, TypeOK,
    history, provider
<1>21. ASSUME NEW b \in Builds, sweptSession(b) PROVE ReservedHolds
  BY <1>21 DEF sweptSession, Found, Reserved, ReservedHolds, RowTypes, Terminal, TypeOK,
    clearSessionCleanup, history, provider
<1>22. ASSUME NEW b \in Builds, clearProviderOperation(b) PROVE ReservedHolds
  BY <1>22 DEF clearProviderOperation, Found, Reserved, ReservedHolds, RowTypes, TypeOK, history,
    provider
<1>23. ASSUME NEW b \in Builds, clearReapedImage(b) PROVE ReservedHolds
  BY <1>23 DEF clearReapedImage, Found, NoSessionObligation, Reserved, ReservedHolds, RowTypes,
    TypeOK, deleteSupersededImage, history, provider
<1>24. ASSUME NEW b \in Builds, deleteOldFailedBuilds(b) PROVE ReservedHolds
  BY <1>24 DEF deleteOldFailedBuilds, NoSessionObligation, Reserved, ReservedHolds, RowTypes,
    TypeOK, history, provider
<1>25. ASSUME NEW b \in Builds, markRestoreFailed(b) PROVE ReservedHolds
  BY <1>25 DEF markRestoreFailed, Reserved, ReservedHolds, RowTypes, TypeOK, history, provider
<1>26. ASSUME NEW b \in Builds, ProviderCreates(b) PROVE ReservedHolds
  BY <1>26 DEF ProviderCreates, Reserved, ReservedHolds, RowTypes, TypeOK, history, row
<1>27. ASSUME NEW b \in Builds, ProviderCaptures(b) PROVE ReservedHolds
  BY <1>27 DEF ProviderCaptures, Reserved, ReservedHolds, RowTypes, TypeOK, history, row
<1>28. ASSUME NEW b \in Builds, LeaseExpires(b) PROVE ReservedHolds
  BY <1>28 DEF LeaseExpires, Reserved, ReservedHolds, RowTypes, TypeOK, history, provider
<1>29. ASSUME NEW b \in Builds, DeadlinePasses(b) PROVE ReservedHolds
  BY <1>29 DEF DeadlinePasses, Registered, Reserved, ReservedHolds, RowTypes, TypeOK, provider,
    row
<1>30. ASSUME NEW b \in Builds, GrowsOld(b) PROVE ReservedHolds
  BY <1>30 DEF GrowsOld, Registered, Reserved, ReservedHolds, RowTypes, TypeOK, row
<1>31. ASSUME NEW w \in Workers, NEW b \in Builds, getBuild(w, b) PROVE ReservedHolds
  BY <1>31 DEF getBuild, At, Idle, Reserved, ReservedHolds, RowTypes, TypeOK, history, provider,
    row
<1>32. ASSUME NEW w \in Workers, NEW b \in Builds, work[w].build = b, claimLease(w) PROVE
  ReservedHolds
  BY <1>32 DEF claimLease, At, Finishes, Goes, Idle, Reserved, ReservedHolds, Retries, RowTypes,
    TypeOK, history, provider
<1>33. ASSUME NEW w \in Workers, NEW b \in Builds, work[w].build = b, reserveProviderOperation(w)
  PROVE ReservedHolds
  BY <1>33 DEF reserveProviderOperation, At, Goes, HasLease, Reserved, ReservedHolds, RowTypes,
    TypeOK, history, provider
<1>34. ASSUME NEW w \in Workers, NEW b \in Builds, work[w].build = b, captureBuildSnapshot(w)
  PROVE ReservedHolds
  BY <1>34 DEF captureBuildSnapshot, At, Goes, Reserved, ReservedHolds, RowTypes, TypeOK,
    history, row
<1>35. ASSUME NEW w \in Workers, NEW b \in Builds, work[w].build = b, awaitCapturedSnapshot(w)
  PROVE ReservedHolds
  BY <1>35 DEF awaitCapturedSnapshot, At, Goes, Reserved, ReservedHolds, RowTypes, TypeOK,
    history, provider, row
<1>36. ASSUME NEW w \in Workers, NEW b \in Builds, work[w].build = b, recordArtifact(w) PROVE
  ReservedHolds
  BY <1>36 DEF recordArtifact, At, Goes, HasLease, Reserved, ReservedHolds, RowTypes, TypeOK,
    history, provider
<1>37. ASSUME NEW w \in Workers, NEW b \in Builds, work[w].build = b,
  compensateUnrecordedArtifact(w) PROVE ReservedHolds
  BY <1>37 DEF compensateUnrecordedArtifact, At, Goes, Reserved, ReservedHolds, RowTypes, TypeOK,
    history, row
<1>38. ASSUME NEW w \in Workers, NEW b \in Builds, work[w].build = b, quarantineArtifact(w) PROVE
  ReservedHolds
  BY <1>38 DEF quarantineArtifact, At, Finishes, Idle, Reserved, ReservedHolds, Retries,
    RowTypes, TypeOK, history, provider
<1>39. ASSUME NEW w \in Workers, NEW b \in Builds, work[w].build = b, clearLease(w) PROVE
  ReservedHolds
  BY <1>39 DEF clearLease, At, Finishes, HasLease, Idle, Reserved, ReservedHolds, Retries,
    RowTypes, TypeOK, history, provider
<1>40. ASSUME NEW w \in Workers, NEW b \in Builds, work[w].build = b, markFailed(w) PROVE
  ReservedHolds
  BY <1>40 DEF markFailed, At, Goes, HasLease, Reserved, ReservedHolds, RowTypes, TypeOK,
    history, provider
<1>41. ASSUME NEW w \in Workers, NEW b \in Builds, work[w].build = b, tryMarkImageBuildReady(w)
  PROVE ReservedHolds
  BY <1>41 DEF tryMarkImageBuildReady, At, Goes, HasLease, NewerReady, Reserved, ReservedHolds,
    RowTypes, TypeOK, history, provider
<1>42. ASSUME NEW w \in Workers, NEW b \in Builds, work[w].build = b, supersedeOlder(w) PROVE
  ReservedHolds
  BY <1>42 DEF supersedeOlder, At, Reserved, ReservedHolds, RowTypes, TypeOK, history, provider
<1>43. ASSUME NEW w \in Workers, NEW b \in Builds, work[w].build = b, deleteReplacedImages(w)
  PROVE ReservedHolds
  BY <1>43 DEF deleteReplacedImages, At, Goes, NoSessionObligation, Reserved, ReservedHolds,
    RowTypes, TypeOK, deleteSupersededImage, history
<1>44. ASSUME NEW w \in Workers, NEW b \in Builds, work[w].build = b, cleanupTerminalBuild(w)
  PROVE ReservedHolds
  BY <1>44 DEF cleanupTerminalBuild, At, Finishes, Goes, Idle, Reserved, ReservedHolds, Retries,
    RowTypes, Terminal, TypeOK, history, row
<1>45. ASSUME NEW w \in Workers, NEW b \in Builds, work[w].build = b, clearAfterCleanup(w) PROVE
  ReservedHolds
  BY <1>45 DEF clearAfterCleanup, At, Finishes, Idle, Reserved, ReservedHolds, RowTypes,
    Terminal, TypeOK, clearSessionCleanup, history, provider
<1>46. ASSUME NEW w \in Workers, NEW b \in Builds, work[w].build = b, finalizerFails(w) PROVE
  ReservedHolds
  BY <1>46 DEF finalizerFails, At, Finishes, Idle, Reserved, ReservedHolds, Retries, RowTypes,
    TypeOK, provider
<1>47. ASSUME sweepDies PROVE ReservedHolds
  BY <1>47 DEF sweepDies, Reserved, ReservedHolds, RowTypes, TypeOK, provider, row
<1>48. ASSUME supersedeActiveImages PROVE ReservedHolds
  BY <1>48 DEF supersedeActiveImages, Reserved, ReservedHolds, RowTypes, TypeOK, provider
<1>49. CASE UNCHANGED vars
  BY <1>49 DEF vars, row, provider, history, ReservedHolds, Reserved, TypeOK, RowTypes
<1>50. ASSUME NEW w \in Workers, Finalize(w) \/ finalizerFails(w) PROVE ReservedHolds
  BY <1>50, BusyBuild, <1>31, <1>32, <1>33, <1>34, <1>35, <1>36, <1>37, <1>38, <1>39, <1>40,
    <1>41, <1>42, <1>43, <1>44, <1>45, <1>46 DEF Finalize
<1>51. QED
  BY <1>1, <1>2, <1>3, <1>4, <1>5, <1>6, <1>7, <1>8, <1>9, <1>10, <1>11, <1>12, <1>13, <1>14,
    <1>15, <1>16, <1>17, <1>18, <1>19, <1>20, <1>21, <1>22, <1>23, <1>24, <1>25, <1>26, <1>27,
    <1>28, <1>29, <1>30, <1>47, <1>48, <1>49, <1>50 DEF Next, Trigger, Callback, SweepStarts,
    SweepEnds, Maintain, Environment

\* Only the reservation and the request touch what AskedOnce counts.
LEMMA AskingSteps ==
  ASSUME TypeOK, [Next]_vars
  PROVE  Asking
<1>1. ASSUME NEW b \in Builds, registerBuild(b) PROVE Asking
  BY <1>1 DEF registerBuild, Asking, history, provider
<1>2. ASSUME NEW b \in Builds, markSourceCreateIntent(b) PROVE Asking
  BY <1>2 DEF markSourceCreateIntent, Asking, history, provider
<1>3. ASSUME NEW b \in Builds, startBuild(b) PROVE Asking
  BY <1>3 DEF startBuild, Asking, history, row
<1>4. ASSUME NEW b \in Builds, createAnswers(b) PROVE Asking
  BY <1>4 DEF createAnswers, Asking, history, provider, row
<1>5. ASSUME NEW b \in Builds, bindProviderSession(b) PROVE Asking
  BY <1>5 DEF bindProviderSession, Asking, history, provider
<1>6. ASSUME NEW b \in Builds, launched(b) PROVE Asking
  BY <1>6 DEF launched, Asking, history, provider, row
<1>7. ASSUME NEW b \in Builds, markBuildFailed(b) PROVE Asking
  BY <1>7 DEF markBuildFailed, Asking, history, provider
<1>8. ASSUME NEW b \in Builds, cleanupTrigger(b) PROVE Asking
  BY <1>8 DEF cleanupTrigger, Asking, history, row
<1>9. ASSUME NEW b \in Builds, triggerDies(b) PROVE Asking
  BY <1>9 DEF triggerDies, Asking, provider, row
<1>10. ASSUME NEW b \in Builds, acceptSuccessfulCompletion(b) PROVE Asking
  BY <1>10 DEF acceptSuccessfulCompletion, Asking, history, provider
<1>11. ASSUME NEW b \in Builds, acceptFailedCompletion(b) PROVE Asking
  BY <1>11 DEF acceptFailedCompletion, Asking, history, provider
<1>12. ASSUME NEW b \in Builds, replayCompletion(b) PROVE Asking
  BY <1>12 DEF replayCompletion, Asking, Registered, history, provider, row
<1>13. ASSUME NEW b \in Builds, republishRecoverableFinalizations(b) PROVE Asking
  BY <1>13 DEF republishRecoverableFinalizations, Asking, history, provider, row
<1>14. ASSUME NEW b \in Builds, markStaleBuildsAsFailed(b) PROVE Asking
  BY <1>14 DEF markStaleBuildsAsFailed, Asking, history, provider
<1>15. ASSUME NEW b \in Builds, recoverUnboundSource(b) PROVE Asking
  BY <1>15 DEF recoverUnboundSource, Asking, Finds, history, provider, row
<1>16. ASSUME NEW b \in Builds, sweepSession(b) PROVE Asking
  BY <1>16 DEF sweepSession, Asking, Finds, Terminal, history, row
<1>17. ASSUME NEW b \in Builds, reconcileUnresolvedOperation(b) PROVE Asking
  BY <1>17 DEF reconcileUnresolvedOperation, Asking, Finds, history, row
<1>18. ASSUME NEW b \in Builds, reapImage(b) PROVE Asking
  BY <1>18 DEF reapImage, Asking, Finds, NoSessionObligation, history, row
<1>19. ASSUME NEW b \in Builds, attachRecoveredProviderSession(b) PROVE Asking
  BY <1>19 DEF attachRecoveredProviderSession, Asking, Found, history, provider
<1>20. ASSUME NEW b \in Builds, clearUnboundSourceIntent(b) PROVE Asking
  BY <1>20 DEF clearUnboundSourceIntent, Asking, Found, history, provider
<1>21. ASSUME NEW b \in Builds, sweptSession(b) PROVE Asking
  BY <1>21 DEF sweptSession, Asking, Found, Terminal, clearSessionCleanup, history, provider
<1>22. ASSUME NEW b \in Builds, clearProviderOperation(b) PROVE Asking
  BY <1>22 DEF clearProviderOperation, Asking, Found, history, provider
<1>23. ASSUME NEW b \in Builds, clearReapedImage(b) PROVE Asking
  BY <1>23 DEF clearReapedImage, Asking, Found, NoSessionObligation, deleteSupersededImage,
    history, provider
<1>24. ASSUME NEW b \in Builds, deleteOldFailedBuilds(b) PROVE Asking
  BY <1>24 DEF deleteOldFailedBuilds, Asking, NoSessionObligation, history, provider
<1>25. ASSUME NEW b \in Builds, markRestoreFailed(b) PROVE Asking
  BY <1>25 DEF markRestoreFailed, Asking, history, provider
<1>26. ASSUME NEW b \in Builds, ProviderCreates(b) PROVE Asking
  BY <1>26 DEF ProviderCreates, Asking, history, row
<1>27. ASSUME NEW b \in Builds, ProviderCaptures(b) PROVE Asking
  BY <1>27 DEF ProviderCaptures, Asking, history, row
<1>28. ASSUME NEW b \in Builds, LeaseExpires(b) PROVE Asking
  BY <1>28 DEF LeaseExpires, Asking, history, provider
<1>29. ASSUME NEW b \in Builds, DeadlinePasses(b) PROVE Asking
  BY <1>29 DEF DeadlinePasses, Asking, Registered, provider, row
<1>30. ASSUME NEW b \in Builds, GrowsOld(b) PROVE Asking
  BY <1>30 DEF GrowsOld, Asking, Registered, row
<1>31. ASSUME NEW w \in Workers, NEW b \in Builds, getBuild(w, b) PROVE Asking
  BY <1>31, TypeOK, DeliveryGoes DEF getBuild, Asking, At, Went, history, provider, row
<1>32. ASSUME NEW w \in Workers, NEW b \in Builds, work[w].build = b, claimLease(w) PROVE Asking
  BY <1>32, TypeOK, ClaimGoes DEF claimLease, Asking, At, Went, history, provider
<1>33. ASSUME NEW w \in Workers, NEW b \in Builds, work[w].build = b, reserveProviderOperation(w)
  PROVE Asking
  BY <1>33 DEF Asking
<1>34. ASSUME NEW w \in Workers, NEW b \in Builds, work[w].build = b, captureBuildSnapshot(w)
  PROVE Asking
  BY <1>34 DEF Asking
<1>35. ASSUME NEW w \in Workers, NEW b \in Builds, work[w].build = b, awaitCapturedSnapshot(w)
  PROVE Asking
  BY <1>35, TypeOK, AwaitGoes DEF awaitCapturedSnapshot, Asking, At, Went, history, provider, row
<1>36. ASSUME NEW w \in Workers, NEW b \in Builds, work[w].build = b, recordArtifact(w) PROVE
  Asking
  <2>1. work'[w].at # "capture" /\ \A v \in Workers \ {w} : work'[v] = work[v]
    BY <1>36, RecordGoes DEF Went
  <2>2. UNCHANGED captures
    BY <1>36 DEF recordArtifact, provider
  <2> QED BY <2>1, <2>2 DEF Asking
<1>37. ASSUME NEW w \in Workers, NEW b \in Builds, work[w].build = b,
  compensateUnrecordedArtifact(w) PROVE Asking
  BY <1>37, TypeOK, CompensateGoes DEF compensateUnrecordedArtifact, Asking, At, Went, history,
    row
<1>38. ASSUME NEW w \in Workers, NEW b \in Builds, work[w].build = b, quarantineArtifact(w) PROVE
  Asking
  BY <1>38, TypeOK, QuarantineGoes DEF quarantineArtifact, Asking, At, Went, history, provider
<1>39. ASSUME NEW w \in Workers, NEW b \in Builds, work[w].build = b, clearLease(w) PROVE Asking
  BY <1>39, TypeOK, ReleaseGoes DEF clearLease, Asking, At, HasLease, Went, history, provider
<1>40. ASSUME NEW w \in Workers, NEW b \in Builds, work[w].build = b, markFailed(w) PROVE Asking
  BY <1>40, TypeOK, FailGoes DEF markFailed, Asking, At, HasLease, Went, history, provider
<1>41. ASSUME NEW w \in Workers, NEW b \in Builds, work[w].build = b, tryMarkImageBuildReady(w)
  PROVE Asking
  BY <1>41, TypeOK, PublishGoes DEF tryMarkImageBuildReady, Asking, At, HasLease, NewerReady,
    Went, history, provider
<1>42. ASSUME NEW w \in Workers, NEW b \in Builds, work[w].build = b, supersedeOlder(w) PROVE
  Asking
  BY <1>42, TypeOK, SupersedeGoes DEF supersedeOlder, Asking, At, Went, history, provider
<1>43. ASSUME NEW w \in Workers, NEW b \in Builds, work[w].build = b, deleteReplacedImages(w)
  PROVE Asking
  BY <1>43, TypeOK, DeleteGoes DEF deleteReplacedImages, Asking, At, NoSessionObligation, Went,
    deleteSupersededImage, history
<1>44. ASSUME NEW w \in Workers, NEW b \in Builds, work[w].build = b, cleanupTerminalBuild(w)
  PROVE Asking
  BY <1>44, TypeOK, CleanupGoes DEF cleanupTerminalBuild, Asking, At, Terminal, Went, history,
    row
<1>45. ASSUME NEW w \in Workers, NEW b \in Builds, work[w].build = b, clearAfterCleanup(w) PROVE
  Asking
  BY <1>45, TypeOK, ClearGoes DEF clearAfterCleanup, Asking, At, Terminal, Went,
    clearSessionCleanup, history, provider
<1>46. ASSUME NEW w \in Workers, NEW b \in Builds, work[w].build = b, finalizerFails(w) PROVE
  Asking
  BY <1>46, TypeOK, FailureGoes DEF finalizerFails, Asking, At, Went, provider
<1>47. ASSUME sweepDies PROVE Asking
  BY <1>47 DEF sweepDies, Asking, provider, row
<1>48. ASSUME supersedeActiveImages PROVE Asking
  BY <1>48 DEF supersedeActiveImages, Asking, provider
<1>49. CASE UNCHANGED vars
  BY <1>49 DEF vars, row, provider, history, Asking
<1>50. ASSUME NEW w \in Workers, Finalize(w) \/ finalizerFails(w) PROVE Asking
  BY <1>50, BusyBuild, <1>31, <1>32, <1>33, <1>34, <1>35, <1>36, <1>37, <1>38, <1>39, <1>40,
    <1>41, <1>42, <1>43, <1>44, <1>45, <1>46 DEF Finalize
<1>51. QED
  BY <1>1, <1>2, <1>3, <1>4, <1>5, <1>6, <1>7, <1>8, <1>9, <1>10, <1>11, <1>12, <1>13, <1>14,
    <1>15, <1>16, <1>17, <1>18, <1>19, <1>20, <1>21, <1>22, <1>23, <1>24, <1>25, <1>26, <1>27,
    <1>28, <1>29, <1>30, <1>47, <1>48, <1>49, <1>50 DEF Next, Trigger, Callback, SweepStarts,
    SweepEnds, Maintain, Environment

\* The reservation is fenced to a building row without an operation or an image.
LEMMA AskedOnceStays ==
  ASSUME TypeOK, AskedOnce, [Next]_vars
  PROVE  AskedOnce'
<1>1. ReservedHolds
  BY ReservedStays
<1>2. CASE UNCHANGED captures /\ \A v \in Workers : work'[v] = work[v] \/ work'[v].at # "capture"
  BY <1>1, <1>2 DEF AskedOnce, Capturing, ReservedHolds
<1>3. ASSUME NEW w \in Workers, reserveProviderOperation(w)
      PROVE  AskedOnce'
  <2>1. work[w].build \in Builds
    BY <1>3, BuildsAssumption DEF reserveProviderOperation, At, TypeOK, ActorTypes, Attempts, Builds
  <2>2. /\ \A v \in Workers \ {w} : work'[v] = work[v]
        /\ work'[w].at = "capture" => /\ status[work[w].build] = "building"
                                      /\ work[w].build \notin op \cup image
                                      /\ work[w].build \in op'
        /\ work'[w].at # "idle" => work'[w].build = work[w].build
    BY <1>3, <2>1, ReserveGoes DEF Went, TypeOK, RowTypes
  <2>3. UNCHANGED captures
    BY <1>3 DEF reserveProviderOperation, provider
  <2>4. work'[w].at = "capture" => ~Reserved(work[w].build) /\ Reserved(work[w].build)'
    BY <2>2 DEF Reserved
  <2> QED BY <1>1, <2>1, <2>2, <2>3, <2>4 DEF AskedOnce, Capturing, ReservedHolds
<1>4. ASSUME NEW w \in Workers, captureBuildSnapshot(w)
      PROVE  AskedOnce'
  <2>1. work[w].build \in Builds
    BY <1>4, BuildsAssumption DEF captureBuildSnapshot, At, TypeOK, ActorTypes, Attempts, Builds
  <2>2. /\ \A v \in Workers \ {w} : work'[v] = work[v]
        /\ work'[w].at # "capture" /\ Capturing(w, work[w].build)
    BY <1>4, <2>1, CaptureGoes DEF Went, At, Capturing
  <2>3. captures' = [captures EXCEPT ![work[w].build] = @ + 1]
    BY <1>4 DEF captureBuildSnapshot
  <2>4. /\ captures'[work[w].build] = 1
        /\ \A b \in Builds : b # work[w].build => captures'[b] = captures[b]
    BY <2>1, <2>2, <2>3 DEF AskedOnce, TypeOK, ProviderTypes
  <2> QED BY <1>1, <2>1, <2>2, <2>4 DEF AskedOnce, Capturing, ReservedHolds
<1> QED BY <1>2, <1>3, <1>4, AskingSteps DEF Asking


\* However often a build's command is delivered, by however many finalizers, one
\* capture is requested (reserveProviderOperation before captureBuildSnapshot).
THEOREM CapturesAreSingle == Spec => []OneCapturePerBuild
<1>1. Init => AskedOnce
  BY DEF Init, AskedOnce, Capturing, Idle
<1>2. TypeOK /\ AskedOnce /\ [Next]_vars => AskedOnce'
  BY AskedOnceStays
<1>3. AskedOnce => OneCapturePerBuild
  BY DEF AskedOnce, OneCapturePerBuild
<1> QED BY <1>1, <1>2, <1>3, TypeCorrect, PTL DEF Spec

-----------------------------------------------------------------------------
(* Sources.                                                                *)

\* Only a source that was up is named by a session or worked on.
Existed(b) == source[b] \in {"up", "gone"}

SourceOwed(b) ==
  /\ source[b] \in {"requested", "up"} => Registered(b) /\ pending[b] = "owed"
  /\ trigger[b] \in {"none", "registered", "intended"} => source[b] = "none"
  /\ trigger[b] = "intended" /\ age[b] # "old" => Registered(b) /\ pending[b] = "owed"
  /\ trigger[b] \in {"created", "launched", "failing", "cleaning"} => Existed(b)
  /\ b \in bound => Existed(b)
  /\ age[b] = "old" => source[b] \in {"none", "gone"}
  /\ age[b] # "young" => status[b] # "none"
  /\ status[b] = "none" => trigger[b] = "none"

SourceInv == \A b \in Builds : SourceOwed(b)

FoundTrue(b) ==
  sweep.build = b =>
    /\ sweep.found = "source" => Existed(b)
    /\ sweep.found = "no source" => age[b] = "old"
    /\ sweep.found = "deleted source" => source[b] = "gone"

FoundInv == \A b \in Builds : FoundTrue(b)

Deleted(b) ==
  \A w \in Workers : work[w].at = "clear" /\ work[w].build = b => source[b] = "gone"

CleaningInv == \A b \in Builds : Deleted(b)

\* A source is owed from before it is requested until it is known to be gone.
LEMMA SourceStays ==
  ASSUME TypeOK, SourceInv, FoundInv, CleaningInv, [Next]_vars
  PROVE  SourceInv'
<1> SUFFICES ASSUME NEW c \in Builds PROVE SourceOwed(c)'
  BY DEF SourceInv
<1>0. SourceOwed(c)
  BY DEF SourceInv
<1>1. ASSUME NEW b \in Builds, registerBuild(b) PROVE SourceOwed(c)'
  BY <1>1, <1>0 DEF registerBuild, ActorTypes, Existed, ProviderTypes, Registered, RowTypes,
    SourceOwed, TypeOK, history, provider
<1>2. ASSUME NEW b \in Builds, markSourceCreateIntent(b) PROVE SourceOwed(c)'
  BY <1>2, <1>0 DEF markSourceCreateIntent, ActorTypes, Existed, ProviderTypes, Registered,
    RowTypes, SourceOwed, TypeOK, history, provider
<1>3. ASSUME NEW b \in Builds, startBuild(b) PROVE SourceOwed(c)'
  BY <1>3, <1>0 DEF startBuild, ActorTypes, Existed, ProviderTypes, Registered, RowTypes,
    SourceOwed, TypeOK, history, row
<1>4. ASSUME NEW b \in Builds, createAnswers(b) PROVE SourceOwed(c)'
  BY <1>4, <1>0 DEF createAnswers, ActorTypes, Existed, ProviderTypes, Registered, RowTypes,
    SourceOwed, TypeOK, history, provider, row
<1>5. ASSUME NEW b \in Builds, bindProviderSession(b) PROVE SourceOwed(c)'
  BY <1>5, <1>0 DEF bindProviderSession, ActorTypes, Existed, ProviderTypes, Registered,
    RowTypes, SourceOwed, TypeOK, history, provider
<1>6. ASSUME NEW b \in Builds, launched(b) PROVE SourceOwed(c)'
  BY <1>6, <1>0 DEF launched, ActorTypes, Existed, ProviderTypes, Registered, RowTypes,
    SourceOwed, TypeOK, history, provider, row
<1>7. ASSUME NEW b \in Builds, markBuildFailed(b) PROVE SourceOwed(c)'
  BY <1>7, <1>0 DEF markBuildFailed, ActorTypes, Existed, ProviderTypes, Registered, RowTypes,
    SourceOwed, TypeOK, history, provider
<1>8. ASSUME NEW b \in Builds, cleanupTrigger(b) PROVE SourceOwed(c)'
  BY <1>8, <1>0 DEF cleanupTrigger, ActorTypes, Existed, ProviderTypes, Registered, RowTypes,
    SourceOwed, TypeOK, history, row
<1>9. ASSUME NEW b \in Builds, triggerDies(b) PROVE SourceOwed(c)'
  BY <1>9, <1>0 DEF triggerDies, ActorTypes, Existed, ProviderTypes, Registered, RowTypes,
    SourceOwed, TypeOK, provider, row
<1>10. ASSUME NEW b \in Builds, acceptSuccessfulCompletion(b) PROVE SourceOwed(c)'
  BY <1>10, <1>0 DEF acceptSuccessfulCompletion, ActorTypes, Existed, ProviderTypes, Registered,
    RowTypes, SourceOwed, TypeOK, history, provider
<1>11. ASSUME NEW b \in Builds, acceptFailedCompletion(b) PROVE SourceOwed(c)'
  BY <1>11, <1>0 DEF acceptFailedCompletion, ActorTypes, Existed, ProviderTypes, Registered,
    RowTypes, SourceOwed, TypeOK, history, provider
<1>12. ASSUME NEW b \in Builds, replayCompletion(b) PROVE SourceOwed(c)'
  BY <1>12, <1>0 DEF replayCompletion, ActorTypes, Existed, ProviderTypes, Registered, RowTypes,
    SourceOwed, TypeOK, history, provider, row
<1>13. ASSUME NEW b \in Builds, republishRecoverableFinalizations(b) PROVE SourceOwed(c)'
  BY <1>13, <1>0 DEF republishRecoverableFinalizations, ActorTypes, Existed, ProviderTypes,
    Registered, RowTypes, SourceOwed, TypeOK, history, provider, row
<1>14. ASSUME NEW b \in Builds, markStaleBuildsAsFailed(b) PROVE SourceOwed(c)'
  BY <1>14, <1>0 DEF markStaleBuildsAsFailed, ActorTypes, Existed, ProviderTypes, Registered,
    RowTypes, SourceOwed, TypeOK, history, provider
<1>15. ASSUME NEW b \in Builds, recoverUnboundSource(b) PROVE SourceOwed(c)'
  BY <1>15, <1>0 DEF recoverUnboundSource, ActorTypes, Existed, Finds, ProviderTypes, Registered,
    RowTypes, SourceOwed, TypeOK, history, provider, row
<1>16. ASSUME NEW b \in Builds, sweepSession(b) PROVE SourceOwed(c)'
  BY <1>16, <1>0 DEF sweepSession, ActorTypes, Existed, Finds, ProviderTypes, Registered,
    RowTypes, SourceOwed, Terminal, TypeOK, history, row
<1>17. ASSUME NEW b \in Builds, reconcileUnresolvedOperation(b) PROVE SourceOwed(c)'
  BY <1>17, <1>0 DEF reconcileUnresolvedOperation, ActorTypes, Existed, Finds, ProviderTypes,
    Registered, RowTypes, SourceOwed, TypeOK, history, row
<1>18. ASSUME NEW b \in Builds, reapImage(b) PROVE SourceOwed(c)'
  BY <1>18, <1>0 DEF reapImage, ActorTypes, Existed, Finds, NoSessionObligation, ProviderTypes,
    Registered, RowTypes, SourceOwed, TypeOK, history, row
<1>19. ASSUME NEW b \in Builds, attachRecoveredProviderSession(b) PROVE SourceOwed(c)'
  BY <1>19, <1>0 DEF attachRecoveredProviderSession, ActorTypes, Existed, Found, FoundInv,
    FoundTrue, ProviderTypes, Registered, RowTypes, SourceOwed, TypeOK, history, provider
<1>20. ASSUME NEW b \in Builds, clearUnboundSourceIntent(b) PROVE SourceOwed(c)'
  BY <1>20, <1>0 DEF clearUnboundSourceIntent, ActorTypes, Existed, Found, FoundInv, FoundTrue,
    ProviderTypes, Registered, RowTypes, SourceOwed, TypeOK, history, provider
<1>21. ASSUME NEW b \in Builds, sweptSession(b) PROVE SourceOwed(c)'
  BY <1>21, <1>0 DEF sweptSession, ActorTypes, Existed, Found, FoundInv, FoundTrue, ProviderTypes,
    Registered, RowTypes, SourceOwed, Terminal, TypeOK, clearSessionCleanup, history, provider
<1>22. ASSUME NEW b \in Builds, clearProviderOperation(b) PROVE SourceOwed(c)'
  BY <1>22, <1>0 DEF clearProviderOperation, ActorTypes, Existed, Found, ProviderTypes,
    Registered, RowTypes, SourceOwed, TypeOK, history, provider
<1>23. ASSUME NEW b \in Builds, clearReapedImage(b) PROVE SourceOwed(c)'
  BY <1>23, <1>0 DEF clearReapedImage, ActorTypes, Existed, Found, NoSessionObligation,
    ProviderTypes, Registered, RowTypes, SourceOwed, TypeOK, deleteSupersededImage, history,
    provider
<1>24. ASSUME NEW b \in Builds, deleteOldFailedBuilds(b) PROVE SourceOwed(c)'
  BY <1>24, <1>0 DEF deleteOldFailedBuilds, ActorTypes, Existed, NoSessionObligation,
    ProviderTypes, Registered, RowTypes, SourceOwed, TypeOK, history, provider
<1>25. ASSUME NEW b \in Builds, markRestoreFailed(b) PROVE SourceOwed(c)'
  BY <1>25, <1>0 DEF markRestoreFailed, ActorTypes, Existed, ProviderTypes, Registered, RowTypes,
    SourceOwed, TypeOK, history, provider
<1>26. ASSUME NEW b \in Builds, ProviderCreates(b) PROVE SourceOwed(c)'
  BY <1>26, <1>0 DEF ProviderCreates, ActorTypes, Existed, ProviderTypes, Registered, RowTypes,
    SourceOwed, TypeOK, history, row
<1>27. ASSUME NEW b \in Builds, ProviderCaptures(b) PROVE SourceOwed(c)'
  BY <1>27, <1>0 DEF ProviderCaptures, ActorTypes, Existed, ProviderTypes, Registered, RowTypes,
    SourceOwed, TypeOK, history, row
<1>28. ASSUME NEW b \in Builds, LeaseExpires(b) PROVE SourceOwed(c)'
  BY <1>28, <1>0 DEF LeaseExpires, ActorTypes, Existed, ProviderTypes, Registered, RowTypes,
    SourceOwed, TypeOK, history, provider
<1>29. ASSUME NEW b \in Builds, DeadlinePasses(b) PROVE SourceOwed(c)'
  BY <1>29, <1>0 DEF DeadlinePasses, ActorTypes, Existed, ProviderTypes, Registered, RowTypes,
    SourceOwed, TypeOK, provider, row
<1>30. ASSUME NEW b \in Builds, GrowsOld(b) PROVE SourceOwed(c)'
  BY <1>30, <1>0 DEF GrowsOld, ActorTypes, Existed, ProviderTypes, Registered, RowTypes,
    SourceOwed, TypeOK, row
<1>31. ASSUME NEW w \in Workers, NEW b \in Builds, getBuild(w, b) PROVE SourceOwed(c)'
  BY <1>31, <1>0 DEF getBuild, ActorTypes, At, Existed, ProviderTypes, Registered, RowTypes,
    SourceOwed, TypeOK, history, provider, row
<1>32. ASSUME NEW w \in Workers, NEW b \in Builds, work[w].build = b, claimLease(w) PROVE
  SourceOwed(c)'
  BY <1>32, <1>0 DEF claimLease, ActorTypes, At, Existed, ProviderTypes, Registered, RowTypes,
    SourceOwed, TypeOK, history, provider
<1>33. ASSUME NEW w \in Workers, NEW b \in Builds, work[w].build = b, reserveProviderOperation(w)
  PROVE SourceOwed(c)'
  BY <1>33, <1>0 DEF reserveProviderOperation, ActorTypes, At, Existed, HasLease, ProviderTypes,
    Registered, RowTypes, SourceOwed, TypeOK, history, provider
<1>34. ASSUME NEW w \in Workers, NEW b \in Builds, work[w].build = b, captureBuildSnapshot(w)
  PROVE SourceOwed(c)'
  BY <1>34, <1>0 DEF captureBuildSnapshot, ActorTypes, At, Existed, ProviderTypes, Registered,
    RowTypes, SourceOwed, TypeOK, history, row
<1>35. ASSUME NEW w \in Workers, NEW b \in Builds, work[w].build = b, awaitCapturedSnapshot(w)
  PROVE SourceOwed(c)'
  BY <1>35, <1>0 DEF awaitCapturedSnapshot, ActorTypes, At, Existed, ProviderTypes, Registered,
    RowTypes, SourceOwed, TypeOK, history, provider, row
<1>36. ASSUME NEW w \in Workers, NEW b \in Builds, work[w].build = b, recordArtifact(w) PROVE
  SourceOwed(c)'
  BY <1>36, <1>0 DEF recordArtifact, ActorTypes, At, Existed, HasLease, ProviderTypes,
    Registered, RowTypes, SourceOwed, TypeOK, history, provider
<1>37. ASSUME NEW w \in Workers, NEW b \in Builds, work[w].build = b,
  compensateUnrecordedArtifact(w) PROVE SourceOwed(c)'
  BY <1>37, <1>0 DEF compensateUnrecordedArtifact, ActorTypes, At, Existed, ProviderTypes,
    Registered, RowTypes, SourceOwed, TypeOK, history, row
<1>38. ASSUME NEW w \in Workers, NEW b \in Builds, work[w].build = b, quarantineArtifact(w) PROVE
  SourceOwed(c)'
  BY <1>38, <1>0 DEF quarantineArtifact, ActorTypes, At, Existed, ProviderTypes, Registered,
    RowTypes, SourceOwed, TypeOK, history, provider
<1>39. ASSUME NEW w \in Workers, NEW b \in Builds, work[w].build = b, clearLease(w) PROVE
  SourceOwed(c)'
  BY <1>39, <1>0 DEF clearLease, ActorTypes, At, Existed, HasLease, ProviderTypes, Registered,
    RowTypes, SourceOwed, TypeOK, history, provider
<1>40. ASSUME NEW w \in Workers, NEW b \in Builds, work[w].build = b, markFailed(w) PROVE
  SourceOwed(c)'
  BY <1>40, <1>0 DEF markFailed, ActorTypes, At, Existed, HasLease, ProviderTypes, Registered,
    RowTypes, SourceOwed, TypeOK, history, provider
<1>41. ASSUME NEW w \in Workers, NEW b \in Builds, work[w].build = b, tryMarkImageBuildReady(w)
  PROVE SourceOwed(c)'
  BY <1>41, <1>0 DEF tryMarkImageBuildReady, ActorTypes, At, Existed, HasLease, NewerReady,
    ProviderTypes, Registered, RowTypes, SourceOwed, TypeOK, history, provider
<1>42. ASSUME NEW w \in Workers, NEW b \in Builds, work[w].build = b, supersedeOlder(w) PROVE
  SourceOwed(c)'
  BY <1>42, <1>0 DEF supersedeOlder, ActorTypes, At, Existed, ProviderTypes, Registered,
    RowTypes, SourceOwed, TypeOK, history, provider
<1>43. ASSUME NEW w \in Workers, NEW b \in Builds, work[w].build = b, deleteReplacedImages(w)
  PROVE SourceOwed(c)'
  BY <1>43, <1>0 DEF deleteReplacedImages, ActorTypes, At, Existed, NoSessionObligation,
    ProviderTypes, Registered, RowTypes, SourceOwed, TypeOK, deleteSupersededImage, history
<1>44. ASSUME NEW w \in Workers, NEW b \in Builds, work[w].build = b, cleanupTerminalBuild(w)
  PROVE SourceOwed(c)'
  BY <1>44, <1>0 DEF cleanupTerminalBuild, ActorTypes, At, Existed, ProviderTypes, Registered,
    RowTypes, SourceOwed, Terminal, TypeOK, history, row
<1>45. ASSUME NEW w \in Workers, NEW b \in Builds, work[w].build = b, clearAfterCleanup(w) PROVE
  SourceOwed(c)'
  BY <1>45, <1>0 DEF clearAfterCleanup, ActorTypes, At, CleaningInv, Deleted, Existed,
    ProviderTypes, Registered, RowTypes, SourceOwed, Terminal, TypeOK, clearSessionCleanup,
      history, provider
<1>46. ASSUME NEW w \in Workers, NEW b \in Builds, work[w].build = b, finalizerFails(w) PROVE
  SourceOwed(c)'
  BY <1>46, <1>0 DEF finalizerFails, ActorTypes, At, Existed, ProviderTypes, Registered,
    RowTypes, SourceOwed, TypeOK, provider
<1>47. ASSUME sweepDies PROVE SourceOwed(c)'
  BY <1>47, <1>0 DEF sweepDies, ActorTypes, Existed, ProviderTypes, Registered, RowTypes,
    SourceOwed, TypeOK, provider, row
<1>48. ASSUME supersedeActiveImages PROVE SourceOwed(c)'
  BY <1>48, <1>0 DEF supersedeActiveImages, ActorTypes, Existed, ProviderTypes, Registered,
    RowTypes, SourceOwed, TypeOK, provider
<1>49. CASE UNCHANGED vars
  BY <1>49, <1>0 DEF vars, row, provider, history, SourceOwed, Existed, Registered, TypeOK,
    RowTypes, ProviderTypes, ActorTypes
<1>50. ASSUME NEW w \in Workers, Finalize(w) \/ finalizerFails(w) PROVE SourceOwed(c)'
  BY <1>50, BusyBuild, <1>31, <1>32, <1>33, <1>34, <1>35, <1>36, <1>37, <1>38, <1>39, <1>40,
    <1>41, <1>42, <1>43, <1>44, <1>45, <1>46 DEF Finalize
<1>51. QED
  BY <1>1, <1>2, <1>3, <1>4, <1>5, <1>6, <1>7, <1>8, <1>9, <1>10, <1>11, <1>12, <1>13, <1>14,
    <1>15, <1>16, <1>17, <1>18, <1>19, <1>20, <1>21, <1>22, <1>23, <1>24, <1>25, <1>26, <1>27,
    <1>28, <1>29, <1>30, <1>47, <1>48, <1>49, <1>50 DEF Next, Trigger, Callback, SweepStarts,
    SweepEnds, Maintain, Environment

\* What a pass found of a source still holds when it writes.
LEMMA FoundStays ==
  ASSUME TypeOK, SourceInv, FoundInv, [Next]_vars
  PROVE  FoundInv'
<1> SUFFICES ASSUME NEW c \in Builds PROVE FoundTrue(c)'
  BY DEF FoundInv
<1>00. SourceOwed(c)
  BY DEF SourceInv
<1>0. FoundTrue(c)
  BY DEF FoundInv
<1>1. ASSUME NEW b \in Builds, registerBuild(b) PROVE FoundTrue(c)'
  BY <1>1, <1>0, <1>00 DEF registerBuild, Existed, FoundTrue, ProviderTypes, SourceOwed, TypeOK,
    history, provider
<1>2. ASSUME NEW b \in Builds, markSourceCreateIntent(b) PROVE FoundTrue(c)'
  BY <1>2, <1>0, <1>00 DEF markSourceCreateIntent, Existed, FoundTrue, ProviderTypes, SourceOwed,
    TypeOK, history, provider
<1>3. ASSUME NEW b \in Builds, startBuild(b) PROVE FoundTrue(c)'
  BY <1>3, <1>0, <1>00 DEF startBuild, Existed, FoundTrue, ProviderTypes, SourceOwed, TypeOK,
    history, row
<1>4. ASSUME NEW b \in Builds, createAnswers(b) PROVE FoundTrue(c)'
  BY <1>4, <1>0, <1>00 DEF createAnswers, Existed, FoundTrue, ProviderTypes, SourceOwed, TypeOK,
    history, provider, row
<1>5. ASSUME NEW b \in Builds, bindProviderSession(b) PROVE FoundTrue(c)'
  BY <1>5, <1>0, <1>00 DEF bindProviderSession, Existed, FoundTrue, ProviderTypes, SourceOwed,
    TypeOK, history, provider
<1>6. ASSUME NEW b \in Builds, launched(b) PROVE FoundTrue(c)'
  BY <1>6, <1>0, <1>00 DEF launched, Existed, FoundTrue, ProviderTypes, SourceOwed, TypeOK,
    history, provider, row
<1>7. ASSUME NEW b \in Builds, markBuildFailed(b) PROVE FoundTrue(c)'
  BY <1>7, <1>0, <1>00 DEF markBuildFailed, Existed, FoundTrue, ProviderTypes, SourceOwed,
    TypeOK, history, provider
<1>8. ASSUME NEW b \in Builds, cleanupTrigger(b) PROVE FoundTrue(c)'
  BY <1>8, <1>0, <1>00 DEF cleanupTrigger, Existed, FoundTrue, ProviderTypes, SourceOwed, TypeOK,
    history, row
<1>9. ASSUME NEW b \in Builds, triggerDies(b) PROVE FoundTrue(c)'
  BY <1>9, <1>0, <1>00 DEF triggerDies, Existed, FoundTrue, ProviderTypes, SourceOwed, TypeOK,
    provider, row
<1>10. ASSUME NEW b \in Builds, acceptSuccessfulCompletion(b) PROVE FoundTrue(c)'
  BY <1>10, <1>0, <1>00 DEF acceptSuccessfulCompletion, Existed, FoundTrue, ProviderTypes,
    SourceOwed, TypeOK, history, provider
<1>11. ASSUME NEW b \in Builds, acceptFailedCompletion(b) PROVE FoundTrue(c)'
  BY <1>11, <1>0, <1>00 DEF acceptFailedCompletion, Existed, FoundTrue, ProviderTypes,
    SourceOwed, TypeOK, history, provider
<1>12. ASSUME NEW b \in Builds, replayCompletion(b) PROVE FoundTrue(c)'
  BY <1>12, <1>0, <1>00 DEF replayCompletion, Existed, FoundTrue, ProviderTypes, Registered,
    SourceOwed, TypeOK, history, provider, row
<1>13. ASSUME NEW b \in Builds, republishRecoverableFinalizations(b) PROVE FoundTrue(c)'
  BY <1>13, <1>0, <1>00 DEF republishRecoverableFinalizations, Existed, FoundTrue, ProviderTypes,
    SourceOwed, TypeOK, history, provider, row
<1>14. ASSUME NEW b \in Builds, markStaleBuildsAsFailed(b) PROVE FoundTrue(c)'
  BY <1>14, <1>0, <1>00 DEF markStaleBuildsAsFailed, Existed, FoundTrue, ProviderTypes,
    SourceOwed, TypeOK, history, provider
<1>15. ASSUME NEW b \in Builds, recoverUnboundSource(b) PROVE FoundTrue(c)'
  <2>1. \/ sweep' = [found |-> "source", build |-> b] /\ source[b] = "up"
        \/ sweep' = [found |-> "no source", build |-> b] /\ age[b] = "old"
    BY <1>15 DEF recoverUnboundSource, Finds
  <2>2. UNCHANGED <<source, age>>
    BY <1>15 DEF recoverUnboundSource, provider, history
  <2>3. CASE sweep' = [found |-> "source", build |-> b] /\ source[b] = "up"
    <3>1. sweep'.found = "source" /\ sweep'.build = b
      BY <2>3
    <3> QED BY <2>2, <2>3, <3>1 DEF FoundTrue, Existed
  <2>4. CASE sweep' = [found |-> "no source", build |-> b] /\ age[b] = "old"
    <3>1. sweep'.found = "no source" /\ sweep'.build = b
      BY <2>4
    <3> QED BY <2>2, <2>4, <3>1 DEF FoundTrue
  <2> QED BY <2>1, <2>3, <2>4
<1>16. ASSUME NEW b \in Builds, sweepSession(b) PROVE FoundTrue(c)'
  BY <1>16, <1>0, <1>00 DEF sweepSession, Existed, Finds, FoundTrue, ProviderTypes, Resting,
    SourceOwed, Terminal, TypeOK, history, row
<1>17. ASSUME NEW b \in Builds, reconcileUnresolvedOperation(b) PROVE FoundTrue(c)'
  BY <1>17, <1>0, <1>00 DEF reconcileUnresolvedOperation, Existed, Finds, FoundTrue,
    ProviderTypes, Resting, SourceOwed, TypeOK, history, row
<1>18. ASSUME NEW b \in Builds, reapImage(b) PROVE FoundTrue(c)'
  BY <1>18, <1>0, <1>00 DEF reapImage, Existed, Finds, FoundTrue, NoSessionObligation,
    ProviderTypes, Resting, SourceOwed, TypeOK, history, row
<1>19. ASSUME NEW b \in Builds, attachRecoveredProviderSession(b) PROVE FoundTrue(c)'
  BY <1>19, <1>0, <1>00 DEF attachRecoveredProviderSession, Existed, Found, FoundTrue,
    ProviderTypes, Resting, SourceOwed, TypeOK, history, provider
<1>20. ASSUME NEW b \in Builds, clearUnboundSourceIntent(b) PROVE FoundTrue(c)'
  BY <1>20, <1>0, <1>00 DEF clearUnboundSourceIntent, Existed, Found, FoundTrue, ProviderTypes,
    Resting, SourceOwed, TypeOK, history, provider
<1>21. ASSUME NEW b \in Builds, sweptSession(b) PROVE FoundTrue(c)'
  BY <1>21, <1>0, <1>00 DEF sweptSession, Existed, Found, FoundTrue, ProviderTypes, Resting,
    SourceOwed, Terminal, TypeOK, clearSessionCleanup, history, provider
<1>22. ASSUME NEW b \in Builds, clearProviderOperation(b) PROVE FoundTrue(c)'
  BY <1>22, <1>0, <1>00 DEF clearProviderOperation, Existed, Found, FoundTrue, ProviderTypes,
    Resting, SourceOwed, TypeOK, history, provider
<1>23. ASSUME NEW b \in Builds, clearReapedImage(b) PROVE FoundTrue(c)'
  <2>1. sweep'.found = "nothing"
    BY <1>23 DEF clearReapedImage, Found, Resting
  <2> QED BY <2>1 DEF FoundTrue
<1>24. ASSUME NEW b \in Builds, deleteOldFailedBuilds(b) PROVE FoundTrue(c)'
  BY <1>24, <1>0, <1>00 DEF deleteOldFailedBuilds, Existed, FoundTrue, NoSessionObligation,
    ProviderTypes, SourceOwed, TypeOK, history, provider
<1>25. ASSUME NEW b \in Builds, markRestoreFailed(b) PROVE FoundTrue(c)'
  BY <1>25, <1>0, <1>00 DEF markRestoreFailed, Existed, FoundTrue, ProviderTypes, SourceOwed,
    TypeOK, history, provider
<1>26. ASSUME NEW b \in Builds, ProviderCreates(b) PROVE FoundTrue(c)'
  BY <1>26, <1>0, <1>00 DEF ProviderCreates, Existed, FoundTrue, ProviderTypes, SourceOwed,
    TypeOK, history, row
<1>27. ASSUME NEW b \in Builds, ProviderCaptures(b) PROVE FoundTrue(c)'
  BY <1>27, <1>0, <1>00 DEF ProviderCaptures, Existed, FoundTrue, ProviderTypes, SourceOwed,
    TypeOK, history, row
<1>28. ASSUME NEW b \in Builds, LeaseExpires(b) PROVE FoundTrue(c)'
  BY <1>28, <1>0, <1>00 DEF LeaseExpires, Existed, FoundTrue, ProviderTypes, SourceOwed, TypeOK,
    history, provider
<1>29. ASSUME NEW b \in Builds, DeadlinePasses(b) PROVE FoundTrue(c)'
  BY <1>29, <1>0, <1>00 DEF DeadlinePasses, Existed, FoundTrue, ProviderTypes, Registered,
    SourceOwed, TypeOK, provider, row
<1>30. ASSUME NEW b \in Builds, GrowsOld(b) PROVE FoundTrue(c)'
  BY <1>30, <1>0, <1>00 DEF GrowsOld, Existed, FoundTrue, ProviderTypes, Registered, SourceOwed,
    TypeOK, row
<1>31. ASSUME NEW w \in Workers, NEW b \in Builds, getBuild(w, b) PROVE FoundTrue(c)'
  BY <1>31, <1>0, <1>00 DEF getBuild, At, Existed, FoundTrue, ProviderTypes, SourceOwed, TypeOK,
    history, provider, row
<1>32. ASSUME NEW w \in Workers, NEW b \in Builds, work[w].build = b, claimLease(w) PROVE
  FoundTrue(c)'
  BY <1>32, <1>0, <1>00 DEF claimLease, At, Existed, FoundTrue, ProviderTypes, SourceOwed,
    TypeOK, history, provider
<1>33. ASSUME NEW w \in Workers, NEW b \in Builds, work[w].build = b, reserveProviderOperation(w)
  PROVE FoundTrue(c)'
  BY <1>33, <1>0, <1>00 DEF reserveProviderOperation, At, Existed, FoundTrue, HasLease,
    ProviderTypes, SourceOwed, TypeOK, history, provider
<1>34. ASSUME NEW w \in Workers, NEW b \in Builds, work[w].build = b, captureBuildSnapshot(w)
  PROVE FoundTrue(c)'
  BY <1>34, <1>0, <1>00 DEF captureBuildSnapshot, At, Existed, FoundTrue, ProviderTypes,
    SourceOwed, TypeOK, history, row
<1>35. ASSUME NEW w \in Workers, NEW b \in Builds, work[w].build = b, awaitCapturedSnapshot(w)
  PROVE FoundTrue(c)'
  BY <1>35, <1>0, <1>00 DEF awaitCapturedSnapshot, At, Existed, FoundTrue, ProviderTypes,
    SourceOwed, TypeOK, history, provider, row
<1>36. ASSUME NEW w \in Workers, NEW b \in Builds, work[w].build = b, recordArtifact(w) PROVE
  FoundTrue(c)'
  BY <1>36, <1>0, <1>00 DEF recordArtifact, At, Existed, FoundTrue, HasLease, ProviderTypes,
    SourceOwed, TypeOK, history, provider
<1>37. ASSUME NEW w \in Workers, NEW b \in Builds, work[w].build = b,
  compensateUnrecordedArtifact(w) PROVE FoundTrue(c)'
  BY <1>37, <1>0, <1>00 DEF compensateUnrecordedArtifact, At, Existed, FoundTrue, ProviderTypes,
    SourceOwed, TypeOK, history, row
<1>38. ASSUME NEW w \in Workers, NEW b \in Builds, work[w].build = b, quarantineArtifact(w) PROVE
  FoundTrue(c)'
  BY <1>38, <1>0, <1>00 DEF quarantineArtifact, At, Existed, FoundTrue, ProviderTypes,
    SourceOwed, TypeOK, history, provider
<1>39. ASSUME NEW w \in Workers, NEW b \in Builds, work[w].build = b, clearLease(w) PROVE
  FoundTrue(c)'
  BY <1>39, <1>0, <1>00 DEF clearLease, At, Existed, FoundTrue, HasLease, ProviderTypes,
    SourceOwed, TypeOK, history, provider
<1>40. ASSUME NEW w \in Workers, NEW b \in Builds, work[w].build = b, markFailed(w) PROVE
  FoundTrue(c)'
  BY <1>40, <1>0, <1>00 DEF markFailed, At, Existed, FoundTrue, HasLease, ProviderTypes,
    SourceOwed, TypeOK, history, provider
<1>41. ASSUME NEW w \in Workers, NEW b \in Builds, work[w].build = b, tryMarkImageBuildReady(w)
  PROVE FoundTrue(c)'
  BY <1>41, <1>0, <1>00 DEF tryMarkImageBuildReady, At, Existed, FoundTrue, HasLease, NewerReady,
    ProviderTypes, SourceOwed, TypeOK, history, provider
<1>42. ASSUME NEW w \in Workers, NEW b \in Builds, work[w].build = b, supersedeOlder(w) PROVE
  FoundTrue(c)'
  BY <1>42, <1>0, <1>00 DEF supersedeOlder, At, Existed, FoundTrue, ProviderTypes, SourceOwed,
    TypeOK, history, provider
<1>43. ASSUME NEW w \in Workers, NEW b \in Builds, work[w].build = b, deleteReplacedImages(w)
  PROVE FoundTrue(c)'
  BY <1>43, <1>0, <1>00 DEF deleteReplacedImages, At, Existed, FoundTrue, NoSessionObligation,
    ProviderTypes, SourceOwed, TypeOK, deleteSupersededImage, history
<1>44. ASSUME NEW w \in Workers, NEW b \in Builds, work[w].build = b, cleanupTerminalBuild(w)
  PROVE FoundTrue(c)'
  BY <1>44, <1>0, <1>00 DEF cleanupTerminalBuild, At, Existed, FoundTrue, ProviderTypes,
    SourceOwed, Terminal, TypeOK, history, row
<1>45. ASSUME NEW w \in Workers, NEW b \in Builds, work[w].build = b, clearAfterCleanup(w) PROVE
  FoundTrue(c)'
  BY <1>45, <1>0, <1>00 DEF clearAfterCleanup, At, Existed, FoundTrue, ProviderTypes, SourceOwed,
    Terminal, TypeOK, clearSessionCleanup, history, provider
<1>46. ASSUME NEW w \in Workers, NEW b \in Builds, work[w].build = b, finalizerFails(w) PROVE
  FoundTrue(c)'
  BY <1>46, <1>0, <1>00 DEF finalizerFails, At, Existed, FoundTrue, ProviderTypes, SourceOwed,
    TypeOK, provider
<1>47. ASSUME sweepDies PROVE FoundTrue(c)'
  BY <1>47, <1>0, <1>00 DEF sweepDies, Existed, FoundTrue, ProviderTypes, Resting, SourceOwed,
    TypeOK, provider, row
<1>48. ASSUME supersedeActiveImages PROVE FoundTrue(c)'
  BY <1>48, <1>0, <1>00 DEF supersedeActiveImages, Existed, FoundTrue, ProviderTypes, SourceOwed,
    TypeOK, provider
<1>49. CASE UNCHANGED vars
  BY <1>49, <1>0 DEF vars, row, provider, history, FoundTrue, SourceOwed, Existed, TypeOK,
    ProviderTypes
<1>50. ASSUME NEW w \in Workers, Finalize(w) \/ finalizerFails(w) PROVE FoundTrue(c)'
  BY <1>50, BusyBuild, <1>31, <1>32, <1>33, <1>34, <1>35, <1>36, <1>37, <1>38, <1>39, <1>40,
    <1>41, <1>42, <1>43, <1>44, <1>45, <1>46 DEF Finalize
<1>51. QED
  BY <1>1, <1>2, <1>3, <1>4, <1>5, <1>6, <1>7, <1>8, <1>9, <1>10, <1>11, <1>12, <1>13, <1>14,
    <1>15, <1>16, <1>17, <1>18, <1>19, <1>20, <1>21, <1>22, <1>23, <1>24, <1>25, <1>26, <1>27,
    <1>28, <1>29, <1>30, <1>47, <1>48, <1>49, <1>50 DEF Next, Trigger, Callback, SweepStarts,
    SweepEnds, Maintain, Environment

\* A finalizer that settles the debt has deleted the source.
LEMMA CleaningStays ==
  ASSUME TypeOK, SourceInv, CleaningInv, [Next]_vars
  PROVE  CleaningInv'
<1> SUFFICES ASSUME NEW c \in Builds PROVE Deleted(c)'
  BY DEF CleaningInv
<1>00. SourceOwed(c)
  BY DEF SourceInv
<1>0. Deleted(c)
  BY DEF CleaningInv
<1>1. ASSUME NEW b \in Builds, registerBuild(b) PROVE Deleted(c)'
  BY <1>1, <1>0, <1>00 DEF registerBuild, Deleted, Existed, ProviderTypes, SourceOwed, TypeOK,
    history, provider
<1>2. ASSUME NEW b \in Builds, markSourceCreateIntent(b) PROVE Deleted(c)'
  BY <1>2, <1>0, <1>00 DEF markSourceCreateIntent, Deleted, Existed, ProviderTypes, SourceOwed,
    TypeOK, history, provider
<1>3. ASSUME NEW b \in Builds, startBuild(b) PROVE Deleted(c)'
  BY <1>3, <1>0, <1>00 DEF startBuild, Deleted, Existed, ProviderTypes, SourceOwed, TypeOK,
    history, row
<1>4. ASSUME NEW b \in Builds, createAnswers(b) PROVE Deleted(c)'
  BY <1>4, <1>0, <1>00 DEF createAnswers, Deleted, Existed, ProviderTypes, SourceOwed, TypeOK,
    history, provider, row
<1>5. ASSUME NEW b \in Builds, bindProviderSession(b) PROVE Deleted(c)'
  BY <1>5, <1>0, <1>00 DEF bindProviderSession, Deleted, Existed, ProviderTypes, SourceOwed,
    TypeOK, history, provider
<1>6. ASSUME NEW b \in Builds, launched(b) PROVE Deleted(c)'
  BY <1>6, <1>0, <1>00 DEF launched, Deleted, Existed, ProviderTypes, SourceOwed, TypeOK,
    history, provider, row
<1>7. ASSUME NEW b \in Builds, markBuildFailed(b) PROVE Deleted(c)'
  BY <1>7, <1>0, <1>00 DEF markBuildFailed, Deleted, Existed, ProviderTypes, SourceOwed, TypeOK,
    history, provider
<1>8. ASSUME NEW b \in Builds, cleanupTrigger(b) PROVE Deleted(c)'
  BY <1>8, <1>0, <1>00 DEF cleanupTrigger, Deleted, Existed, ProviderTypes, SourceOwed, TypeOK,
    history, row
<1>9. ASSUME NEW b \in Builds, triggerDies(b) PROVE Deleted(c)'
  BY <1>9, <1>0, <1>00 DEF triggerDies, Deleted, Existed, ProviderTypes, SourceOwed, TypeOK,
    provider, row
<1>10. ASSUME NEW b \in Builds, acceptSuccessfulCompletion(b) PROVE Deleted(c)'
  BY <1>10, <1>0, <1>00 DEF acceptSuccessfulCompletion, Deleted, Existed, ProviderTypes,
    SourceOwed, TypeOK, history, provider
<1>11. ASSUME NEW b \in Builds, acceptFailedCompletion(b) PROVE Deleted(c)'
  BY <1>11, <1>0, <1>00 DEF acceptFailedCompletion, Deleted, Existed, ProviderTypes, SourceOwed,
    TypeOK, history, provider
<1>12. ASSUME NEW b \in Builds, replayCompletion(b) PROVE Deleted(c)'
  BY <1>12, <1>0, <1>00 DEF replayCompletion, Deleted, Existed, ProviderTypes, Registered,
    SourceOwed, TypeOK, history, provider, row
<1>13. ASSUME NEW b \in Builds, republishRecoverableFinalizations(b) PROVE Deleted(c)'
  BY <1>13, <1>0, <1>00 DEF republishRecoverableFinalizations, Deleted, Existed, ProviderTypes,
    SourceOwed, TypeOK, history, provider, row
<1>14. ASSUME NEW b \in Builds, markStaleBuildsAsFailed(b) PROVE Deleted(c)'
  BY <1>14, <1>0, <1>00 DEF markStaleBuildsAsFailed, Deleted, Existed, ProviderTypes, SourceOwed,
    TypeOK, history, provider
<1>15. ASSUME NEW b \in Builds, recoverUnboundSource(b) PROVE Deleted(c)'
  BY <1>15, <1>0, <1>00 DEF recoverUnboundSource, Deleted, Existed, Finds, ProviderTypes,
    SourceOwed, TypeOK, history, provider, row
<1>16. ASSUME NEW b \in Builds, sweepSession(b) PROVE Deleted(c)'
  BY <1>16, <1>0, <1>00 DEF sweepSession, Deleted, Existed, Finds, ProviderTypes, SourceOwed,
    Terminal, TypeOK, history, row
<1>17. ASSUME NEW b \in Builds, reconcileUnresolvedOperation(b) PROVE Deleted(c)'
  BY <1>17, <1>0, <1>00 DEF reconcileUnresolvedOperation, Deleted, Existed, Finds, ProviderTypes,
    SourceOwed, TypeOK, history, row
<1>18. ASSUME NEW b \in Builds, reapImage(b) PROVE Deleted(c)'
  BY <1>18, <1>0, <1>00 DEF reapImage, Deleted, Existed, Finds, NoSessionObligation,
    ProviderTypes, SourceOwed, TypeOK, history, row
<1>19. ASSUME NEW b \in Builds, attachRecoveredProviderSession(b) PROVE Deleted(c)'
  BY <1>19, <1>0, <1>00 DEF attachRecoveredProviderSession, Deleted, Existed, Found,
    ProviderTypes, SourceOwed, TypeOK, history, provider
<1>20. ASSUME NEW b \in Builds, clearUnboundSourceIntent(b) PROVE Deleted(c)'
  BY <1>20, <1>0, <1>00 DEF clearUnboundSourceIntent, Deleted, Existed, Found, ProviderTypes,
    SourceOwed, TypeOK, history, provider
<1>21. ASSUME NEW b \in Builds, sweptSession(b) PROVE Deleted(c)'
  BY <1>21, <1>0, <1>00 DEF sweptSession, Deleted, Existed, Found, ProviderTypes, SourceOwed,
    Terminal, TypeOK, clearSessionCleanup, history, provider
<1>22. ASSUME NEW b \in Builds, clearProviderOperation(b) PROVE Deleted(c)'
  BY <1>22, <1>0, <1>00 DEF clearProviderOperation, Deleted, Existed, Found, ProviderTypes,
    SourceOwed, TypeOK, history, provider
<1>23. ASSUME NEW b \in Builds, clearReapedImage(b) PROVE Deleted(c)'
  BY <1>23, <1>0, <1>00 DEF clearReapedImage, Deleted, Existed, Found, NoSessionObligation,
    ProviderTypes, SourceOwed, TypeOK, deleteSupersededImage, history, provider
<1>24. ASSUME NEW b \in Builds, deleteOldFailedBuilds(b) PROVE Deleted(c)'
  BY <1>24, <1>0, <1>00 DEF deleteOldFailedBuilds, Deleted, Existed, NoSessionObligation,
    ProviderTypes, SourceOwed, TypeOK, history, provider
<1>25. ASSUME NEW b \in Builds, markRestoreFailed(b) PROVE Deleted(c)'
  BY <1>25, <1>0, <1>00 DEF markRestoreFailed, Deleted, Existed, ProviderTypes, SourceOwed,
    TypeOK, history, provider
<1>26. ASSUME NEW b \in Builds, ProviderCreates(b) PROVE Deleted(c)'
  BY <1>26, <1>0, <1>00 DEF ProviderCreates, Deleted, Existed, ProviderTypes, SourceOwed, TypeOK,
    history, row
<1>27. ASSUME NEW b \in Builds, ProviderCaptures(b) PROVE Deleted(c)'
  BY <1>27, <1>0, <1>00 DEF ProviderCaptures, Deleted, Existed, ProviderTypes, SourceOwed,
    TypeOK, history, row
<1>28. ASSUME NEW b \in Builds, LeaseExpires(b) PROVE Deleted(c)'
  BY <1>28, <1>0, <1>00 DEF LeaseExpires, Deleted, Existed, ProviderTypes, SourceOwed, TypeOK,
    history, provider
<1>29. ASSUME NEW b \in Builds, DeadlinePasses(b) PROVE Deleted(c)'
  BY <1>29, <1>0, <1>00 DEF DeadlinePasses, Deleted, Existed, ProviderTypes, Registered,
    SourceOwed, TypeOK, provider, row
<1>30. ASSUME NEW b \in Builds, GrowsOld(b) PROVE Deleted(c)'
  BY <1>30, <1>0, <1>00 DEF GrowsOld, Deleted, Existed, ProviderTypes, Registered, SourceOwed,
    TypeOK, row
<1>31. ASSUME NEW w \in Workers, NEW b \in Builds, getBuild(w, b) PROVE Deleted(c)'
  <2>1. \A v \in Workers : work'[v] = work[v] \/ work'[v].at # "clear"
    BY <1>31, DeliveryGoes DEF Went
  <2>2. UNCHANGED source
    BY <1>31 DEF getBuild, provider
  <2> QED BY <1>0, <2>1, <2>2 DEF Deleted
<1>32. ASSUME NEW w \in Workers, NEW b \in Builds, work[w].build = b, claimLease(w) PROVE
  Deleted(c)'
  BY <1>32, <1>0, <1>00, TypeOK, ClaimGoes DEF claimLease, At, Deleted, Existed, ProviderTypes,
    SourceOwed, TypeOK, Went, history, provider
<1>33. ASSUME NEW w \in Workers, NEW b \in Builds, work[w].build = b, reserveProviderOperation(w)
  PROVE Deleted(c)'
  BY <1>33, <1>0, <1>00, TypeOK, ReserveGoes DEF reserveProviderOperation, At, Deleted, Existed,
    HasLease, ProviderTypes, SourceOwed, TypeOK, Went, history, provider
<1>34. ASSUME NEW w \in Workers, NEW b \in Builds, work[w].build = b, captureBuildSnapshot(w)
  PROVE Deleted(c)'
  <2>1. \A v \in Workers : work'[v] = work[v] \/ work'[v].at # "clear"
    BY <1>34, CaptureGoes DEF Went
  <2>2. UNCHANGED source
    BY <1>34 DEF captureBuildSnapshot, provider
  <2> QED BY <1>0, <2>1, <2>2 DEF Deleted
<1>35. ASSUME NEW w \in Workers, NEW b \in Builds, work[w].build = b, awaitCapturedSnapshot(w)
  PROVE Deleted(c)'
  BY <1>35, <1>0, <1>00, TypeOK, AwaitGoes DEF awaitCapturedSnapshot, At, Deleted, Existed,
    ProviderTypes, SourceOwed, TypeOK, Went, history, provider, row
<1>36. ASSUME NEW w \in Workers, NEW b \in Builds, work[w].build = b, recordArtifact(w) PROVE
  Deleted(c)'
  BY <1>36, <1>0, <1>00, TypeOK, RecordGoes DEF recordArtifact, At, Deleted, Existed, HasLease,
    ProviderTypes, SourceOwed, TypeOK, Went, history, provider
<1>37. ASSUME NEW w \in Workers, NEW b \in Builds, work[w].build = b,
  compensateUnrecordedArtifact(w) PROVE Deleted(c)'
  BY <1>37, <1>0, <1>00, TypeOK, CompensateGoes DEF compensateUnrecordedArtifact, At, Deleted,
    Existed, ProviderTypes, SourceOwed, TypeOK, Went, history, row
<1>38. ASSUME NEW w \in Workers, NEW b \in Builds, work[w].build = b, quarantineArtifact(w) PROVE
  Deleted(c)'
  BY <1>38, <1>0, <1>00, TypeOK, QuarantineGoes DEF quarantineArtifact, At, Deleted, Existed,
    ProviderTypes, SourceOwed, TypeOK, Went, history, provider
<1>39. ASSUME NEW w \in Workers, NEW b \in Builds, work[w].build = b, clearLease(w) PROVE
  Deleted(c)'
  BY <1>39, <1>0, <1>00, TypeOK, ReleaseGoes DEF clearLease, At, Deleted, Existed, HasLease,
    ProviderTypes, SourceOwed, TypeOK, Went, history, provider
<1>40. ASSUME NEW w \in Workers, NEW b \in Builds, work[w].build = b, markFailed(w) PROVE
  Deleted(c)'
  BY <1>40, <1>0, <1>00, TypeOK, FailGoes DEF markFailed, At, Deleted, Existed, HasLease,
    ProviderTypes, SourceOwed, TypeOK, Went, history, provider
<1>41. ASSUME NEW w \in Workers, NEW b \in Builds, work[w].build = b, tryMarkImageBuildReady(w)
  PROVE Deleted(c)'
  BY <1>41, <1>0, <1>00, TypeOK, PublishGoes DEF tryMarkImageBuildReady, At, Deleted, Existed,
    HasLease, NewerReady, ProviderTypes, SourceOwed, TypeOK, Went, history, provider
<1>42. ASSUME NEW w \in Workers, NEW b \in Builds, work[w].build = b, supersedeOlder(w) PROVE
  Deleted(c)'
  <2>1. \A v \in Workers : work'[v] = work[v] \/ work'[v].at # "clear"
    BY <1>42, SupersedeGoes DEF Went
  <2>2. UNCHANGED source
    BY <1>42 DEF supersedeOlder, provider
  <2> QED BY <1>0, <2>1, <2>2 DEF Deleted
<1>43. ASSUME NEW w \in Workers, NEW b \in Builds, work[w].build = b, deleteReplacedImages(w)
  PROVE Deleted(c)'
  BY <1>43, <1>0, <1>00, TypeOK, DeleteGoes DEF deleteReplacedImages, At, Deleted, Existed,
    NoSessionObligation, ProviderTypes, SourceOwed, TypeOK, Went, deleteSupersededImage, history
<1>44. ASSUME NEW w \in Workers, NEW b \in Builds, work[w].build = b, cleanupTerminalBuild(w)
  PROVE Deleted(c)'
  BY <1>44, <1>0, <1>00, TypeOK, CleanupGoes DEF cleanupTerminalBuild, At, Deleted, Existed,
    ProviderTypes, SourceOwed, Terminal, TypeOK, Went, history, row
<1>45. ASSUME NEW w \in Workers, NEW b \in Builds, work[w].build = b, clearAfterCleanup(w) PROVE
  Deleted(c)'
  BY <1>45, <1>0, <1>00, TypeOK, ClearGoes DEF clearAfterCleanup, At, Deleted, Existed,
    ProviderTypes, SourceOwed, Terminal, TypeOK, Went, clearSessionCleanup, history, provider
<1>46. ASSUME NEW w \in Workers, NEW b \in Builds, work[w].build = b, finalizerFails(w) PROVE
  Deleted(c)'
  BY <1>46, <1>0, <1>00, TypeOK, FailureGoes DEF finalizerFails, At, Deleted, Existed,
    ProviderTypes, SourceOwed, TypeOK, Went, provider
<1>47. ASSUME sweepDies PROVE Deleted(c)'
  BY <1>47, <1>0, <1>00 DEF sweepDies, Deleted, Existed, ProviderTypes, SourceOwed, TypeOK,
    provider, row
<1>48. ASSUME supersedeActiveImages PROVE Deleted(c)'
  BY <1>48, <1>0, <1>00 DEF supersedeActiveImages, Deleted, Existed, ProviderTypes, SourceOwed,
    TypeOK, provider
<1>49. CASE UNCHANGED vars
  BY <1>49, <1>0 DEF vars, row, provider, history, Deleted, SourceOwed, Existed, TypeOK,
    ProviderTypes
<1>50. ASSUME NEW w \in Workers, Finalize(w) \/ finalizerFails(w) PROVE Deleted(c)'
  BY <1>50, BusyBuild, <1>31, <1>32, <1>33, <1>34, <1>35, <1>36, <1>37, <1>38, <1>39, <1>40,
    <1>41, <1>42, <1>43, <1>44, <1>45, <1>46 DEF Finalize
<1>51. QED
  BY <1>1, <1>2, <1>3, <1>4, <1>5, <1>6, <1>7, <1>8, <1>9, <1>10, <1>11, <1>12, <1>13, <1>14,
    <1>15, <1>16, <1>17, <1>18, <1>19, <1>20, <1>21, <1>22, <1>23, <1>24, <1>25, <1>26, <1>27,
    <1>28, <1>29, <1>30, <1>47, <1>48, <1>49, <1>50 DEF Next, Trigger, Callback, SweepStarts,
    SweepEnds, Maintain, Environment

\* A sandbox that exists, or whose request may still create it, is owed by its
\* row, whatever became of the request, the row or the finalizer.
THEOREM SourcesAreOwed == Spec => []NoSourceLost
<1> DEFINE Inv == SourceInv /\ FoundInv /\ CleaningInv
<1>1. Init => Inv
  BY BuildsAssumption DEF Init, SourceInv, FoundInv, CleaningInv, SourceOwed, FoundTrue, Deleted,
    Existed, Idle, Resting, Builds
<1>2. TypeOK /\ Inv /\ [Next]_vars => Inv'
  BY SourceStays, FoundStays, CleaningStays
<1>3. Inv => NoSourceLost
  BY DEF SourceInv, SourceOwed, NoSourceLost
<1> QED BY <1>1, <1>2, <1>3, TypeCorrect, PTL DEF Spec

-----------------------------------------------------------------------------
(* Artifacts.                                                              *)

\* A snapshot is named by its row from before it is asked for.
Named(b) == Registered(b) /\ b \in op \cup image

SnapshotNamed(b) ==
  /\ capture[b] \in {"running", "done"} => Named(b)
  /\ age[b] = "old" => capture[b] # "running"

ArtifactInv == \A b \in Builds : SnapshotNamed(b)

\* A finalizer about to ask for one.
AskNamed(b) ==
  \A w \in Workers : Capturing(w, b) =>
    /\ Existed(b)
    /\ source[b] = "up" /\ capture[b] = "none" => Named(b)

AskInv == \A b \in Builds : AskNamed(b)

\* An operation is given up, and an image cleared, once their snapshot is gone
\* or can no longer be made.
SettledTrue(b) ==
  sweep.build = b =>
    /\ sweep.found = "settled operation" =>
         capture[b] = "deleted" \/ (age[b] = "old" /\ capture[b] = "none")
    /\ sweep.found = "reaped" => capture[b] = "deleted"

SettledInv == \A b \in Builds : SettledTrue(b)

\* No step drops the only record of a snapshot.
LEMMA ArtifactStays ==
  ASSUME TypeOK, SourceInv, ArtifactInv, AskInv, SettledInv, [Next]_vars
  PROVE  ArtifactInv'
<1> SUFFICES ASSUME NEW c \in Builds PROVE SnapshotNamed(c)'
  BY DEF ArtifactInv
<1>00. SourceOwed(c)
  BY DEF SourceInv
<1>0. SnapshotNamed(c)
  BY DEF ArtifactInv
<1>1. ASSUME NEW b \in Builds, registerBuild(b) PROVE SnapshotNamed(c)'
  BY <1>1, <1>0, <1>00 DEF registerBuild, Named, ProviderTypes, Registered, RowTypes,
    SnapshotNamed, SourceOwed, TypeOK, history, provider
<1>2. ASSUME NEW b \in Builds, markSourceCreateIntent(b) PROVE SnapshotNamed(c)'
  BY <1>2, <1>0, <1>00 DEF markSourceCreateIntent, Named, ProviderTypes, Registered, RowTypes,
    SnapshotNamed, SourceOwed, TypeOK, history, provider
<1>3. ASSUME NEW b \in Builds, startBuild(b) PROVE SnapshotNamed(c)'
  BY <1>3, <1>0, <1>00 DEF startBuild, Named, ProviderTypes, Registered, RowTypes, SnapshotNamed,
    SourceOwed, TypeOK, history, row
<1>4. ASSUME NEW b \in Builds, createAnswers(b) PROVE SnapshotNamed(c)'
  BY <1>4, <1>0, <1>00 DEF createAnswers, Named, ProviderTypes, Registered, RowTypes,
    SnapshotNamed, SourceOwed, TypeOK, history, provider, row
<1>5. ASSUME NEW b \in Builds, bindProviderSession(b) PROVE SnapshotNamed(c)'
  BY <1>5, <1>0, <1>00 DEF bindProviderSession, Named, ProviderTypes, Registered, RowTypes,
    SnapshotNamed, SourceOwed, TypeOK, history, provider
<1>6. ASSUME NEW b \in Builds, launched(b) PROVE SnapshotNamed(c)'
  BY <1>6, <1>0, <1>00 DEF launched, Named, ProviderTypes, Registered, RowTypes, SnapshotNamed,
    SourceOwed, TypeOK, history, provider, row
<1>7. ASSUME NEW b \in Builds, markBuildFailed(b) PROVE SnapshotNamed(c)'
  BY <1>7, <1>0, <1>00 DEF markBuildFailed, Named, ProviderTypes, Registered, RowTypes,
    SnapshotNamed, SourceOwed, TypeOK, history, provider
<1>8. ASSUME NEW b \in Builds, cleanupTrigger(b) PROVE SnapshotNamed(c)'
  BY <1>8, <1>0, <1>00 DEF cleanupTrigger, Named, ProviderTypes, Registered, RowTypes,
    SnapshotNamed, SourceOwed, TypeOK, history, row
<1>9. ASSUME NEW b \in Builds, triggerDies(b) PROVE SnapshotNamed(c)'
  BY <1>9, <1>0, <1>00 DEF triggerDies, Named, ProviderTypes, Registered, RowTypes,
    SnapshotNamed, SourceOwed, TypeOK, provider, row
<1>10. ASSUME NEW b \in Builds, acceptSuccessfulCompletion(b) PROVE SnapshotNamed(c)'
  BY <1>10, <1>0, <1>00 DEF acceptSuccessfulCompletion, Named, ProviderTypes, Registered,
    RowTypes, SnapshotNamed, SourceOwed, TypeOK, history, provider
<1>11. ASSUME NEW b \in Builds, acceptFailedCompletion(b) PROVE SnapshotNamed(c)'
  BY <1>11, <1>0, <1>00 DEF acceptFailedCompletion, Named, ProviderTypes, Registered, RowTypes,
    SnapshotNamed, SourceOwed, TypeOK, history, provider
<1>12. ASSUME NEW b \in Builds, replayCompletion(b) PROVE SnapshotNamed(c)'
  BY <1>12, <1>0, <1>00 DEF replayCompletion, Named, ProviderTypes, Registered, RowTypes,
    SnapshotNamed, SourceOwed, TypeOK, history, provider, row
<1>13. ASSUME NEW b \in Builds, republishRecoverableFinalizations(b) PROVE SnapshotNamed(c)'
  BY <1>13, <1>0, <1>00 DEF republishRecoverableFinalizations, Named, ProviderTypes, Registered,
    RowTypes, SnapshotNamed, SourceOwed, TypeOK, history, provider, row
<1>14. ASSUME NEW b \in Builds, markStaleBuildsAsFailed(b) PROVE SnapshotNamed(c)'
  BY <1>14, <1>0, <1>00 DEF markStaleBuildsAsFailed, Named, ProviderTypes, Registered, RowTypes,
    SnapshotNamed, SourceOwed, TypeOK, history, provider
<1>15. ASSUME NEW b \in Builds, recoverUnboundSource(b) PROVE SnapshotNamed(c)'
  BY <1>15, <1>0, <1>00 DEF recoverUnboundSource, Finds, Named, ProviderTypes, Registered,
    RowTypes, SnapshotNamed, SourceOwed, TypeOK, history, provider, row
<1>16. ASSUME NEW b \in Builds, sweepSession(b) PROVE SnapshotNamed(c)'
  BY <1>16, <1>0, <1>00 DEF sweepSession, Finds, Named, ProviderTypes, Registered, RowTypes,
    SnapshotNamed, SourceOwed, Terminal, TypeOK, history, row
<1>17. ASSUME NEW b \in Builds, reconcileUnresolvedOperation(b) PROVE SnapshotNamed(c)'
  BY <1>17, <1>0, <1>00 DEF reconcileUnresolvedOperation, Finds, Named, ProviderTypes,
    Registered, RowTypes, SnapshotNamed, SourceOwed, TypeOK, history, row
<1>18. ASSUME NEW b \in Builds, reapImage(b) PROVE SnapshotNamed(c)'
  BY <1>18, <1>0, <1>00 DEF reapImage, Finds, Named, NoSessionObligation, ProviderTypes,
    Registered, RowTypes, SnapshotNamed, SourceOwed, TypeOK, history, row
<1>19. ASSUME NEW b \in Builds, attachRecoveredProviderSession(b) PROVE SnapshotNamed(c)'
  BY <1>19, <1>0, <1>00 DEF attachRecoveredProviderSession, Found, Named, ProviderTypes,
    Registered, RowTypes, SnapshotNamed, SourceOwed, TypeOK, history, provider
<1>20. ASSUME NEW b \in Builds, clearUnboundSourceIntent(b) PROVE SnapshotNamed(c)'
  BY <1>20, <1>0, <1>00 DEF clearUnboundSourceIntent, Found, Named, ProviderTypes, Registered,
    RowTypes, SnapshotNamed, SourceOwed, TypeOK, history, provider
<1>21. ASSUME NEW b \in Builds, sweptSession(b) PROVE SnapshotNamed(c)'
  BY <1>21, <1>0, <1>00 DEF sweptSession, Found, Named, ProviderTypes, Registered, RowTypes,
    SnapshotNamed, SourceOwed, Terminal, TypeOK, clearSessionCleanup, history, provider
<1>22. ASSUME NEW b \in Builds, clearProviderOperation(b) PROVE SnapshotNamed(c)'
  BY <1>22, <1>0, <1>00 DEF clearProviderOperation, Found, Named, ProviderTypes, Registered,
    RowTypes, SettledInv, SettledTrue, SnapshotNamed, TypeOK, history, provider
<1>23. ASSUME NEW b \in Builds, clearReapedImage(b) PROVE SnapshotNamed(c)'
  <2>1. UNCHANGED <<capture, age, op>>
    BY <1>23 DEF clearReapedImage, provider, history
  <2>2. CASE c # b
    <3>1. status'[c] = status[c] /\ (c \in image => c \in image')
      BY <1>23, <2>2 DEF clearReapedImage, deleteSupersededImage, TypeOK, RowTypes
    <3> QED BY <1>0, <2>1, <3>1 DEF SnapshotNamed, Named, Registered
  <2>3. CASE c = b /\ Found("reaped", b)
    <3>1. capture[b] = "deleted"
      BY <2>3 DEF Found, SettledInv, SettledTrue
    <3> QED BY <2>1, <2>3, <3>1 DEF SnapshotNamed
  <2>4. CASE c = b /\ Found("bare", b)
    <3>1. UNCHANGED image /\ status'[b] \in {status[b], "deleted"}
          /\ (status'[b] # status[b] => b \notin image \cup op)
      BY <1>23, <2>4 DEF clearReapedImage, Found, TypeOK, RowTypes
    <3> QED BY <1>0, <2>1, <2>4, <3>1 DEF SnapshotNamed, Named, Registered
  <2> QED BY <1>23, <2>2, <2>3, <2>4 DEF clearReapedImage
<1>24. ASSUME NEW b \in Builds, deleteOldFailedBuilds(b) PROVE SnapshotNamed(c)'
  BY <1>24, <1>0, <1>00 DEF deleteOldFailedBuilds, Named, NoSessionObligation, ProviderTypes,
    Registered, RowTypes, SnapshotNamed, SourceOwed, TypeOK, history, provider
<1>25. ASSUME NEW b \in Builds, markRestoreFailed(b) PROVE SnapshotNamed(c)'
  BY <1>25, <1>0, <1>00 DEF markRestoreFailed, Named, ProviderTypes, Registered, RowTypes,
    SnapshotNamed, SourceOwed, TypeOK, history, provider
<1>26. ASSUME NEW b \in Builds, ProviderCreates(b) PROVE SnapshotNamed(c)'
  BY <1>26, <1>0, <1>00 DEF ProviderCreates, Named, ProviderTypes, Registered, RowTypes,
    SnapshotNamed, SourceOwed, TypeOK, history, row
<1>27. ASSUME NEW b \in Builds, ProviderCaptures(b) PROVE SnapshotNamed(c)'
  BY <1>27, <1>0, <1>00 DEF ProviderCaptures, Named, ProviderTypes, Registered, RowTypes,
    SnapshotNamed, SourceOwed, TypeOK, history, row
<1>28. ASSUME NEW b \in Builds, LeaseExpires(b) PROVE SnapshotNamed(c)'
  BY <1>28, <1>0, <1>00 DEF LeaseExpires, Named, ProviderTypes, Registered, RowTypes,
    SnapshotNamed, SourceOwed, TypeOK, history, provider
<1>29. ASSUME NEW b \in Builds, DeadlinePasses(b) PROVE SnapshotNamed(c)'
  BY <1>29, <1>0, <1>00 DEF DeadlinePasses, Named, ProviderTypes, Registered, RowTypes,
    SnapshotNamed, SourceOwed, TypeOK, provider, row
<1>30. ASSUME NEW b \in Builds, GrowsOld(b) PROVE SnapshotNamed(c)'
  BY <1>30, <1>0, <1>00 DEF GrowsOld, Named, ProviderTypes, Registered, RowTypes, SnapshotNamed,
    SourceOwed, TypeOK, row
<1>31. ASSUME NEW w \in Workers, NEW b \in Builds, getBuild(w, b) PROVE SnapshotNamed(c)'
  BY <1>31, <1>0, <1>00 DEF getBuild, At, Named, ProviderTypes, Registered, RowTypes,
    SnapshotNamed, SourceOwed, TypeOK, history, provider, row
<1>32. ASSUME NEW w \in Workers, NEW b \in Builds, work[w].build = b, claimLease(w) PROVE
  SnapshotNamed(c)'
  BY <1>32, <1>0, <1>00 DEF claimLease, At, Named, ProviderTypes, Registered, RowTypes,
    SnapshotNamed, SourceOwed, TypeOK, history, provider
<1>33. ASSUME NEW w \in Workers, NEW b \in Builds, work[w].build = b, reserveProviderOperation(w)
  PROVE SnapshotNamed(c)'
  BY <1>33, <1>0, <1>00 DEF reserveProviderOperation, At, HasLease, Named, ProviderTypes,
    Registered, RowTypes, SnapshotNamed, SourceOwed, TypeOK, history, provider
<1>34. ASSUME NEW w \in Workers, NEW b \in Builds, work[w].build = b, captureBuildSnapshot(w)
  PROVE SnapshotNamed(c)'
  BY <1>34, <1>0, <1>00 DEF captureBuildSnapshot, AskInv, AskNamed, At, Capturing, Named,
    ProviderTypes, Registered, RowTypes, SnapshotNamed, SourceOwed, TypeOK, history, row
<1>35. ASSUME NEW w \in Workers, NEW b \in Builds, work[w].build = b, awaitCapturedSnapshot(w)
  PROVE SnapshotNamed(c)'
  BY <1>35, <1>0, <1>00 DEF awaitCapturedSnapshot, At, Named, ProviderTypes, Registered,
    RowTypes, SnapshotNamed, SourceOwed, TypeOK, history, provider, row
<1>36. ASSUME NEW w \in Workers, NEW b \in Builds, work[w].build = b, recordArtifact(w) PROVE
  SnapshotNamed(c)'
  BY <1>36, <1>0, <1>00 DEF recordArtifact, At, HasLease, Named, ProviderTypes, Registered,
    RowTypes, SnapshotNamed, SourceOwed, TypeOK, history, provider
<1>37. ASSUME NEW w \in Workers, NEW b \in Builds, work[w].build = b,
  compensateUnrecordedArtifact(w) PROVE SnapshotNamed(c)'
  BY <1>37, <1>0, <1>00 DEF compensateUnrecordedArtifact, At, Named, ProviderTypes, Registered,
    RowTypes, SnapshotNamed, SourceOwed, TypeOK, history, row
<1>38. ASSUME NEW w \in Workers, NEW b \in Builds, work[w].build = b, quarantineArtifact(w) PROVE
  SnapshotNamed(c)'
  BY <1>38, <1>0, <1>00 DEF quarantineArtifact, At, Named, ProviderTypes, Registered, RowTypes,
    SnapshotNamed, SourceOwed, TypeOK, history, provider
<1>39. ASSUME NEW w \in Workers, NEW b \in Builds, work[w].build = b, clearLease(w) PROVE
  SnapshotNamed(c)'
  BY <1>39, <1>0, <1>00 DEF clearLease, At, HasLease, Named, ProviderTypes, Registered, RowTypes,
    SnapshotNamed, SourceOwed, TypeOK, history, provider
<1>40. ASSUME NEW w \in Workers, NEW b \in Builds, work[w].build = b, markFailed(w) PROVE
  SnapshotNamed(c)'
  BY <1>40, <1>0, <1>00 DEF markFailed, At, HasLease, Named, ProviderTypes, Registered, RowTypes,
    SnapshotNamed, SourceOwed, TypeOK, history, provider
<1>41. ASSUME NEW w \in Workers, NEW b \in Builds, work[w].build = b, tryMarkImageBuildReady(w)
  PROVE SnapshotNamed(c)'
  BY <1>41, <1>0, <1>00 DEF tryMarkImageBuildReady, At, HasLease, Named, NewerReady,
    ProviderTypes, Registered, RowTypes, SnapshotNamed, SourceOwed, TypeOK, history, provider
<1>42. ASSUME NEW w \in Workers, NEW b \in Builds, work[w].build = b, supersedeOlder(w) PROVE
  SnapshotNamed(c)'
  BY <1>42, <1>0, <1>00 DEF supersedeOlder, At, Named, ProviderTypes, Registered, RowTypes,
    SnapshotNamed, SourceOwed, TypeOK, history, provider
<1>43. ASSUME NEW w \in Workers, NEW b \in Builds, work[w].build = b, deleteReplacedImages(w)
  PROVE SnapshotNamed(c)'
  BY <1>43, <1>0, <1>00 DEF deleteReplacedImages, At, Named, NoSessionObligation, ProviderTypes,
    Registered, RowTypes, SnapshotNamed, SourceOwed, TypeOK, deleteSupersededImage, history
<1>44. ASSUME NEW w \in Workers, NEW b \in Builds, work[w].build = b, cleanupTerminalBuild(w)
  PROVE SnapshotNamed(c)'
  BY <1>44, <1>0, <1>00 DEF cleanupTerminalBuild, At, Named, ProviderTypes, Registered, RowTypes,
    SnapshotNamed, SourceOwed, Terminal, TypeOK, history, row
<1>45. ASSUME NEW w \in Workers, NEW b \in Builds, work[w].build = b, clearAfterCleanup(w) PROVE
  SnapshotNamed(c)'
  BY <1>45, <1>0, <1>00 DEF clearAfterCleanup, At, Named, ProviderTypes, Registered, RowTypes,
    SnapshotNamed, SourceOwed, Terminal, TypeOK, clearSessionCleanup, history, provider
<1>46. ASSUME NEW w \in Workers, NEW b \in Builds, work[w].build = b, finalizerFails(w) PROVE
  SnapshotNamed(c)'
  BY <1>46, <1>0, <1>00 DEF finalizerFails, At, Named, ProviderTypes, Registered, RowTypes,
    SnapshotNamed, SourceOwed, TypeOK, provider
<1>47. ASSUME sweepDies PROVE SnapshotNamed(c)'
  BY <1>47, <1>0, <1>00 DEF sweepDies, Named, ProviderTypes, Registered, RowTypes, SnapshotNamed,
    SourceOwed, TypeOK, provider, row
<1>48. ASSUME supersedeActiveImages PROVE SnapshotNamed(c)'
  BY <1>48, <1>0, <1>00 DEF supersedeActiveImages, Named, ProviderTypes, Registered, RowTypes,
    SnapshotNamed, SourceOwed, TypeOK, provider
<1>49. CASE UNCHANGED vars
  BY <1>49, <1>0 DEF vars, row, provider, history, TypeOK, RowTypes, ProviderTypes, Registered,
    Named, SnapshotNamed, SourceOwed
<1>50. ASSUME NEW w \in Workers, Finalize(w) \/ finalizerFails(w) PROVE SnapshotNamed(c)'
  BY <1>50, BusyBuild, <1>31, <1>32, <1>33, <1>34, <1>35, <1>36, <1>37, <1>38, <1>39, <1>40,
    <1>41, <1>42, <1>43, <1>44, <1>45, <1>46 DEF Finalize
<1>51. QED
  BY <1>1, <1>2, <1>3, <1>4, <1>5, <1>6, <1>7, <1>8, <1>9, <1>10, <1>11, <1>12, <1>13, <1>14,
    <1>15, <1>16, <1>17, <1>18, <1>19, <1>20, <1>21, <1>22, <1>23, <1>24, <1>25, <1>26, <1>27,
    <1>28, <1>29, <1>30, <1>47, <1>48, <1>49, <1>50 DEF Next, Trigger, Callback, SweepStarts,
    SweepEnds, Maintain, Environment

\* What a pass found of a snapshot still holds when it writes.
LEMMA SettledStays ==
  ASSUME TypeOK, SourceInv, ArtifactInv, SettledInv, [Next]_vars
  PROVE  SettledInv'
<1> SUFFICES ASSUME NEW c \in Builds PROVE SettledTrue(c)'
  BY DEF SettledInv
<1>00. SourceOwed(c) /\ SnapshotNamed(c)
  BY DEF SourceInv, ArtifactInv
<1>0. SettledTrue(c)
  BY DEF SettledInv
<1>1. ASSUME NEW b \in Builds, registerBuild(b) PROVE SettledTrue(c)'
  BY <1>1, <1>0, <1>00 DEF registerBuild, Existed, ProviderTypes, SettledTrue, SnapshotNamed,
    SourceOwed, TypeOK, history, provider
<1>2. ASSUME NEW b \in Builds, markSourceCreateIntent(b) PROVE SettledTrue(c)'
  BY <1>2, <1>0, <1>00 DEF markSourceCreateIntent, Existed, ProviderTypes, SettledTrue,
    SnapshotNamed, SourceOwed, TypeOK, history, provider
<1>3. ASSUME NEW b \in Builds, startBuild(b) PROVE SettledTrue(c)'
  BY <1>3, <1>0, <1>00 DEF startBuild, Existed, ProviderTypes, SettledTrue, SnapshotNamed,
    SourceOwed, TypeOK, history, row
<1>4. ASSUME NEW b \in Builds, createAnswers(b) PROVE SettledTrue(c)'
  BY <1>4, <1>0, <1>00 DEF createAnswers, Existed, ProviderTypes, SettledTrue, SnapshotNamed,
    SourceOwed, TypeOK, history, provider, row
<1>5. ASSUME NEW b \in Builds, bindProviderSession(b) PROVE SettledTrue(c)'
  BY <1>5, <1>0, <1>00 DEF bindProviderSession, Existed, ProviderTypes, SettledTrue,
    SnapshotNamed, SourceOwed, TypeOK, history, provider
<1>6. ASSUME NEW b \in Builds, launched(b) PROVE SettledTrue(c)'
  BY <1>6, <1>0, <1>00 DEF launched, Existed, ProviderTypes, SettledTrue, SnapshotNamed,
    SourceOwed, TypeOK, history, provider, row
<1>7. ASSUME NEW b \in Builds, markBuildFailed(b) PROVE SettledTrue(c)'
  BY <1>7, <1>0, <1>00 DEF markBuildFailed, Existed, ProviderTypes, SettledTrue, SnapshotNamed,
    SourceOwed, TypeOK, history, provider
<1>8. ASSUME NEW b \in Builds, cleanupTrigger(b) PROVE SettledTrue(c)'
  BY <1>8, <1>0, <1>00 DEF cleanupTrigger, Existed, ProviderTypes, SettledTrue, SnapshotNamed,
    SourceOwed, TypeOK, history, row
<1>9. ASSUME NEW b \in Builds, triggerDies(b) PROVE SettledTrue(c)'
  BY <1>9, <1>0, <1>00 DEF triggerDies, Existed, ProviderTypes, SettledTrue, SnapshotNamed,
    SourceOwed, TypeOK, provider, row
<1>10. ASSUME NEW b \in Builds, acceptSuccessfulCompletion(b) PROVE SettledTrue(c)'
  BY <1>10, <1>0, <1>00 DEF acceptSuccessfulCompletion, Existed, ProviderTypes, SettledTrue,
    SnapshotNamed, SourceOwed, TypeOK, history, provider
<1>11. ASSUME NEW b \in Builds, acceptFailedCompletion(b) PROVE SettledTrue(c)'
  BY <1>11, <1>0, <1>00 DEF acceptFailedCompletion, Existed, ProviderTypes, SettledTrue,
    SnapshotNamed, SourceOwed, TypeOK, history, provider
<1>12. ASSUME NEW b \in Builds, replayCompletion(b) PROVE SettledTrue(c)'
  BY <1>12, <1>0, <1>00 DEF replayCompletion, Existed, ProviderTypes, Registered, SettledTrue,
    SnapshotNamed, SourceOwed, TypeOK, history, provider, row
<1>13. ASSUME NEW b \in Builds, republishRecoverableFinalizations(b) PROVE SettledTrue(c)'
  BY <1>13, <1>0, <1>00 DEF republishRecoverableFinalizations, Existed, ProviderTypes,
    SettledTrue, SnapshotNamed, SourceOwed, TypeOK, history, provider, row
<1>14. ASSUME NEW b \in Builds, markStaleBuildsAsFailed(b) PROVE SettledTrue(c)'
  BY <1>14, <1>0, <1>00 DEF markStaleBuildsAsFailed, Existed, ProviderTypes, SettledTrue,
    SnapshotNamed, SourceOwed, TypeOK, history, provider
<1>15. ASSUME NEW b \in Builds, recoverUnboundSource(b) PROVE SettledTrue(c)'
  <2>1. sweep' = [found |-> "source", build |-> b] \/ sweep' = [found |-> "no source", build |-> b]
    BY <1>15 DEF recoverUnboundSource, Finds
  <2>2. CASE sweep' = [found |-> "source", build |-> b]
    <3>1. sweep'.found = "source"
      BY <2>2
    <3> QED BY <3>1 DEF SettledTrue
  <2>3. CASE sweep' = [found |-> "no source", build |-> b]
    <3>1. sweep'.found = "no source"
      BY <2>3
    <3> QED BY <3>1 DEF SettledTrue
  <2> QED BY <2>1, <2>2, <2>3
<1>16. ASSUME NEW b \in Builds, sweepSession(b) PROVE SettledTrue(c)'
  BY <1>16, <1>0, <1>00 DEF sweepSession, Existed, Finds, ProviderTypes, Resting, SettledTrue,
    SnapshotNamed, SourceOwed, Terminal, TypeOK, history, row
<1>17. ASSUME NEW b \in Builds, reconcileUnresolvedOperation(b) PROVE SettledTrue(c)'
  BY <1>17, <1>0, <1>00 DEF reconcileUnresolvedOperation, Existed, Finds, ProviderTypes, Resting,
    SettledTrue, SnapshotNamed, SourceOwed, TypeOK, history, row
<1>18. ASSUME NEW b \in Builds, reapImage(b) PROVE SettledTrue(c)'
  BY <1>18, <1>0, <1>00 DEF reapImage, Existed, Finds, NoSessionObligation, ProviderTypes,
    Resting, SettledTrue, SnapshotNamed, SourceOwed, TypeOK, history, row
<1>19. ASSUME NEW b \in Builds, attachRecoveredProviderSession(b) PROVE SettledTrue(c)'
  BY <1>19, <1>0, <1>00 DEF attachRecoveredProviderSession, Existed, Found, ProviderTypes,
    Resting, SettledTrue, SnapshotNamed, SourceOwed, TypeOK, history, provider
<1>20. ASSUME NEW b \in Builds, clearUnboundSourceIntent(b) PROVE SettledTrue(c)'
  BY <1>20, <1>0, <1>00 DEF clearUnboundSourceIntent, Existed, Found, ProviderTypes, Resting,
    SettledTrue, SnapshotNamed, SourceOwed, TypeOK, history, provider
<1>21. ASSUME NEW b \in Builds, sweptSession(b) PROVE SettledTrue(c)'
  BY <1>21, <1>0, <1>00 DEF sweptSession, Existed, Found, ProviderTypes, Resting, SettledTrue,
    SnapshotNamed, SourceOwed, Terminal, TypeOK, clearSessionCleanup, history, provider
<1>22. ASSUME NEW b \in Builds, clearProviderOperation(b) PROVE SettledTrue(c)'
  BY <1>22, <1>0, <1>00 DEF clearProviderOperation, Existed, Found, ProviderTypes, Resting,
    SettledTrue, SnapshotNamed, SourceOwed, TypeOK, history, provider
<1>23. ASSUME NEW b \in Builds, clearReapedImage(b) PROVE SettledTrue(c)'
  <2>1. sweep'.found = "nothing"
    BY <1>23 DEF clearReapedImage, Found, Resting
  <2> QED BY <2>1 DEF SettledTrue
<1>24. ASSUME NEW b \in Builds, deleteOldFailedBuilds(b) PROVE SettledTrue(c)'
  BY <1>24, <1>0, <1>00 DEF deleteOldFailedBuilds, Existed, NoSessionObligation, ProviderTypes,
    SettledTrue, SnapshotNamed, SourceOwed, TypeOK, history, provider
<1>25. ASSUME NEW b \in Builds, markRestoreFailed(b) PROVE SettledTrue(c)'
  BY <1>25, <1>0, <1>00 DEF markRestoreFailed, Existed, ProviderTypes, SettledTrue,
    SnapshotNamed, SourceOwed, TypeOK, history, provider
<1>26. ASSUME NEW b \in Builds, ProviderCreates(b) PROVE SettledTrue(c)'
  BY <1>26, <1>0, <1>00 DEF ProviderCreates, Existed, ProviderTypes, SettledTrue, SnapshotNamed,
    SourceOwed, TypeOK, history, row
<1>27. ASSUME NEW b \in Builds, ProviderCaptures(b) PROVE SettledTrue(c)'
  BY <1>27, <1>0, <1>00 DEF ProviderCaptures, Existed, ProviderTypes, SettledTrue, SnapshotNamed,
    SourceOwed, TypeOK, history, row
<1>28. ASSUME NEW b \in Builds, LeaseExpires(b) PROVE SettledTrue(c)'
  BY <1>28, <1>0, <1>00 DEF LeaseExpires, Existed, ProviderTypes, SettledTrue, SnapshotNamed,
    SourceOwed, TypeOK, history, provider
<1>29. ASSUME NEW b \in Builds, DeadlinePasses(b) PROVE SettledTrue(c)'
  BY <1>29, <1>0, <1>00 DEF DeadlinePasses, Existed, ProviderTypes, Registered, SettledTrue,
    SnapshotNamed, SourceOwed, TypeOK, provider, row
<1>30. ASSUME NEW b \in Builds, GrowsOld(b) PROVE SettledTrue(c)'
  BY <1>30, <1>0, <1>00 DEF GrowsOld, Existed, ProviderTypes, Registered, SettledTrue,
    SnapshotNamed, SourceOwed, TypeOK, row
<1>31. ASSUME NEW w \in Workers, NEW b \in Builds, getBuild(w, b) PROVE SettledTrue(c)'
  BY <1>31, <1>0, <1>00 DEF getBuild, At, Existed, ProviderTypes, SettledTrue, SnapshotNamed,
    SourceOwed, TypeOK, history, provider, row
<1>32. ASSUME NEW w \in Workers, NEW b \in Builds, work[w].build = b, claimLease(w) PROVE
  SettledTrue(c)'
  BY <1>32, <1>0, <1>00 DEF claimLease, At, Existed, ProviderTypes, SettledTrue, SnapshotNamed,
    SourceOwed, TypeOK, history, provider
<1>33. ASSUME NEW w \in Workers, NEW b \in Builds, work[w].build = b, reserveProviderOperation(w)
  PROVE SettledTrue(c)'
  BY <1>33, <1>0, <1>00 DEF reserveProviderOperation, At, Existed, HasLease, ProviderTypes,
    SettledTrue, SnapshotNamed, SourceOwed, TypeOK, history, provider
<1>34. ASSUME NEW w \in Workers, NEW b \in Builds, work[w].build = b, captureBuildSnapshot(w)
  PROVE SettledTrue(c)'
  BY <1>34, <1>0, <1>00 DEF captureBuildSnapshot, At, Existed, ProviderTypes, SettledTrue,
    SnapshotNamed, SourceOwed, TypeOK, history, row
<1>35. ASSUME NEW w \in Workers, NEW b \in Builds, work[w].build = b, awaitCapturedSnapshot(w)
  PROVE SettledTrue(c)'
  BY <1>35, <1>0, <1>00 DEF awaitCapturedSnapshot, At, Existed, ProviderTypes, SettledTrue,
    SnapshotNamed, SourceOwed, TypeOK, history, provider, row
<1>36. ASSUME NEW w \in Workers, NEW b \in Builds, work[w].build = b, recordArtifact(w) PROVE
  SettledTrue(c)'
  BY <1>36, <1>0, <1>00 DEF recordArtifact, At, Existed, HasLease, ProviderTypes, SettledTrue,
    SnapshotNamed, SourceOwed, TypeOK, history, provider
<1>37. ASSUME NEW w \in Workers, NEW b \in Builds, work[w].build = b,
  compensateUnrecordedArtifact(w) PROVE SettledTrue(c)'
  BY <1>37, <1>0, <1>00 DEF compensateUnrecordedArtifact, At, Existed, ProviderTypes,
    SettledTrue, SnapshotNamed, SourceOwed, TypeOK, history, row
<1>38. ASSUME NEW w \in Workers, NEW b \in Builds, work[w].build = b, quarantineArtifact(w) PROVE
  SettledTrue(c)'
  BY <1>38, <1>0, <1>00 DEF quarantineArtifact, At, Existed, ProviderTypes, SettledTrue,
    SnapshotNamed, SourceOwed, TypeOK, history, provider
<1>39. ASSUME NEW w \in Workers, NEW b \in Builds, work[w].build = b, clearLease(w) PROVE
  SettledTrue(c)'
  BY <1>39, <1>0, <1>00 DEF clearLease, At, Existed, HasLease, ProviderTypes, SettledTrue,
    SnapshotNamed, SourceOwed, TypeOK, history, provider
<1>40. ASSUME NEW w \in Workers, NEW b \in Builds, work[w].build = b, markFailed(w) PROVE
  SettledTrue(c)'
  BY <1>40, <1>0, <1>00 DEF markFailed, At, Existed, HasLease, ProviderTypes, SettledTrue,
    SnapshotNamed, SourceOwed, TypeOK, history, provider
<1>41. ASSUME NEW w \in Workers, NEW b \in Builds, work[w].build = b, tryMarkImageBuildReady(w)
  PROVE SettledTrue(c)'
  BY <1>41, <1>0, <1>00 DEF tryMarkImageBuildReady, At, Existed, HasLease, NewerReady,
    ProviderTypes, SettledTrue, SnapshotNamed, SourceOwed, TypeOK, history, provider
<1>42. ASSUME NEW w \in Workers, NEW b \in Builds, work[w].build = b, supersedeOlder(w) PROVE
  SettledTrue(c)'
  BY <1>42, <1>0, <1>00 DEF supersedeOlder, At, Existed, ProviderTypes, SettledTrue,
    SnapshotNamed, SourceOwed, TypeOK, history, provider
<1>43. ASSUME NEW w \in Workers, NEW b \in Builds, work[w].build = b, deleteReplacedImages(w)
  PROVE SettledTrue(c)'
  BY <1>43, <1>0, <1>00 DEF deleteReplacedImages, At, Existed, NoSessionObligation,
    ProviderTypes, SettledTrue, SnapshotNamed, SourceOwed, TypeOK, deleteSupersededImage, history
<1>44. ASSUME NEW w \in Workers, NEW b \in Builds, work[w].build = b, cleanupTerminalBuild(w)
  PROVE SettledTrue(c)'
  BY <1>44, <1>0, <1>00 DEF cleanupTerminalBuild, At, Existed, ProviderTypes, SettledTrue,
    SnapshotNamed, SourceOwed, Terminal, TypeOK, history, row
<1>45. ASSUME NEW w \in Workers, NEW b \in Builds, work[w].build = b, clearAfterCleanup(w) PROVE
  SettledTrue(c)'
  BY <1>45, <1>0, <1>00 DEF clearAfterCleanup, At, Existed, ProviderTypes, SettledTrue,
    SnapshotNamed, SourceOwed, Terminal, TypeOK, clearSessionCleanup, history, provider
<1>46. ASSUME NEW w \in Workers, NEW b \in Builds, work[w].build = b, finalizerFails(w) PROVE
  SettledTrue(c)'
  BY <1>46, <1>0, <1>00 DEF finalizerFails, At, Existed, ProviderTypes, SettledTrue,
    SnapshotNamed, SourceOwed, TypeOK, provider
<1>47. ASSUME sweepDies PROVE SettledTrue(c)'
  BY <1>47, <1>0, <1>00 DEF sweepDies, Existed, ProviderTypes, Resting, SettledTrue,
    SnapshotNamed, SourceOwed, TypeOK, provider, row
<1>48. ASSUME supersedeActiveImages PROVE SettledTrue(c)'
  BY <1>48, <1>0, <1>00 DEF supersedeActiveImages, Existed, ProviderTypes, SettledTrue,
    SnapshotNamed, SourceOwed, TypeOK, provider
<1>49. CASE UNCHANGED vars
  BY <1>49, <1>0 DEF vars, row, provider, history, SettledTrue, SnapshotNamed, SourceOwed,
    Existed, TypeOK, ProviderTypes
<1>50. ASSUME NEW w \in Workers, Finalize(w) \/ finalizerFails(w) PROVE SettledTrue(c)'
  BY <1>50, BusyBuild, <1>31, <1>32, <1>33, <1>34, <1>35, <1>36, <1>37, <1>38, <1>39, <1>40,
    <1>41, <1>42, <1>43, <1>44, <1>45, <1>46 DEF Finalize
<1>51. QED
  BY <1>1, <1>2, <1>3, <1>4, <1>5, <1>6, <1>7, <1>8, <1>9, <1>10, <1>11, <1>12, <1>13, <1>14,
    <1>15, <1>16, <1>17, <1>18, <1>19, <1>20, <1>21, <1>22, <1>23, <1>24, <1>25, <1>26, <1>27,
    <1>28, <1>29, <1>30, <1>47, <1>48, <1>49, <1>50 DEF Next, Trigger, Callback, SweepStarts,
    SweepEnds, Maintain, Environment

\* What a finalizer reserved is still the row's when it asks.
LEMMA AskStays ==
  ASSUME TypeOK, SourceInv, ArtifactInv, AskInv, SettledInv, [Next]_vars
  PROVE  AskInv'
<1> SUFFICES ASSUME NEW c \in Builds PROVE AskNamed(c)'
  BY DEF AskInv
<1>00. SourceOwed(c) /\ SnapshotNamed(c)
  BY DEF SourceInv, ArtifactInv
<1>0. AskNamed(c)
  BY DEF AskInv
<1>1. ASSUME NEW b \in Builds, registerBuild(b) PROVE AskNamed(c)'
  BY <1>1, <1>0, <1>00 DEF registerBuild, AskNamed, Capturing, Existed, Named, ProviderTypes,
    Registered, RowTypes, SnapshotNamed, SourceOwed, TypeOK, history, provider
<1>2. ASSUME NEW b \in Builds, markSourceCreateIntent(b) PROVE AskNamed(c)'
  BY <1>2, <1>0, <1>00 DEF markSourceCreateIntent, AskNamed, Capturing, Existed, Named,
    ProviderTypes, Registered, RowTypes, SnapshotNamed, SourceOwed, TypeOK, history, provider
<1>3. ASSUME NEW b \in Builds, startBuild(b) PROVE AskNamed(c)'
  BY <1>3, <1>0, <1>00 DEF startBuild, AskNamed, Capturing, Existed, Named, ProviderTypes,
    Registered, RowTypes, SnapshotNamed, SourceOwed, TypeOK, history, row
<1>4. ASSUME NEW b \in Builds, createAnswers(b) PROVE AskNamed(c)'
  BY <1>4, <1>0, <1>00 DEF createAnswers, AskNamed, Capturing, Existed, Named, ProviderTypes,
    Registered, RowTypes, SnapshotNamed, SourceOwed, TypeOK, history, provider, row
<1>5. ASSUME NEW b \in Builds, bindProviderSession(b) PROVE AskNamed(c)'
  BY <1>5, <1>0, <1>00 DEF bindProviderSession, AskNamed, Capturing, Existed, Named,
    ProviderTypes, Registered, RowTypes, SnapshotNamed, SourceOwed, TypeOK, history, provider
<1>6. ASSUME NEW b \in Builds, launched(b) PROVE AskNamed(c)'
  BY <1>6, <1>0, <1>00 DEF launched, AskNamed, Capturing, Existed, Named, ProviderTypes,
    Registered, RowTypes, SnapshotNamed, SourceOwed, TypeOK, history, provider, row
<1>7. ASSUME NEW b \in Builds, markBuildFailed(b) PROVE AskNamed(c)'
  BY <1>7, <1>0, <1>00 DEF markBuildFailed, AskNamed, Capturing, Existed, Named, ProviderTypes,
    Registered, RowTypes, SnapshotNamed, SourceOwed, TypeOK, history, provider
<1>8. ASSUME NEW b \in Builds, cleanupTrigger(b) PROVE AskNamed(c)'
  BY <1>8, <1>0, <1>00 DEF cleanupTrigger, AskNamed, Capturing, Existed, Named, ProviderTypes,
    Registered, RowTypes, SnapshotNamed, SourceOwed, TypeOK, history, row
<1>9. ASSUME NEW b \in Builds, triggerDies(b) PROVE AskNamed(c)'
  BY <1>9, <1>0, <1>00 DEF triggerDies, AskNamed, Capturing, Existed, Named, ProviderTypes,
    Registered, RowTypes, SnapshotNamed, SourceOwed, TypeOK, provider, row
<1>10. ASSUME NEW b \in Builds, acceptSuccessfulCompletion(b) PROVE AskNamed(c)'
  BY <1>10, <1>0, <1>00 DEF acceptSuccessfulCompletion, AskNamed, Capturing, Existed, Named,
    ProviderTypes, Registered, RowTypes, SnapshotNamed, SourceOwed, TypeOK, history, provider
<1>11. ASSUME NEW b \in Builds, acceptFailedCompletion(b) PROVE AskNamed(c)'
  BY <1>11, <1>0, <1>00 DEF acceptFailedCompletion, AskNamed, Capturing, Existed, Named,
    ProviderTypes, Registered, RowTypes, SnapshotNamed, SourceOwed, TypeOK, history, provider
<1>12. ASSUME NEW b \in Builds, replayCompletion(b) PROVE AskNamed(c)'
  BY <1>12, <1>0, <1>00 DEF replayCompletion, AskNamed, Capturing, Existed, Named, ProviderTypes,
    Registered, RowTypes, SnapshotNamed, SourceOwed, TypeOK, history, provider, row
<1>13. ASSUME NEW b \in Builds, republishRecoverableFinalizations(b) PROVE AskNamed(c)'
  BY <1>13, <1>0, <1>00 DEF republishRecoverableFinalizations, AskNamed, Capturing, Existed,
    Named, ProviderTypes, Registered, RowTypes, SnapshotNamed, SourceOwed, TypeOK, history,
    provider, row
<1>14. ASSUME NEW b \in Builds, markStaleBuildsAsFailed(b) PROVE AskNamed(c)'
  BY <1>14, <1>0, <1>00 DEF markStaleBuildsAsFailed, AskNamed, Capturing, Existed, Named,
    ProviderTypes, Registered, RowTypes, SnapshotNamed, SourceOwed, TypeOK, history, provider
<1>15. ASSUME NEW b \in Builds, recoverUnboundSource(b) PROVE AskNamed(c)'
  BY <1>15, <1>0, <1>00 DEF recoverUnboundSource, AskNamed, Capturing, Existed, Finds, Named,
    ProviderTypes, Registered, RowTypes, SnapshotNamed, SourceOwed, TypeOK, history, provider,
    row
<1>16. ASSUME NEW b \in Builds, sweepSession(b) PROVE AskNamed(c)'
  BY <1>16, <1>0, <1>00 DEF sweepSession, AskNamed, Capturing, Existed, Finds, Named,
    ProviderTypes, Registered, RowTypes, SnapshotNamed, SourceOwed, Terminal, TypeOK, history,
    row
<1>17. ASSUME NEW b \in Builds, reconcileUnresolvedOperation(b) PROVE AskNamed(c)'
  BY <1>17, <1>0, <1>00 DEF reconcileUnresolvedOperation, AskNamed, Capturing, Existed, Finds,
    Named, ProviderTypes, Registered, RowTypes, SnapshotNamed, SourceOwed, TypeOK, history, row
<1>18. ASSUME NEW b \in Builds, reapImage(b) PROVE AskNamed(c)'
  BY <1>18, <1>0, <1>00 DEF reapImage, AskNamed, Capturing, Existed, Finds, Named,
    NoSessionObligation, ProviderTypes, Registered, RowTypes, SnapshotNamed, SourceOwed, TypeOK,
    history, row
<1>19. ASSUME NEW b \in Builds, attachRecoveredProviderSession(b) PROVE AskNamed(c)'
  BY <1>19, <1>0, <1>00 DEF attachRecoveredProviderSession, AskNamed, Capturing, Existed, Found,
    Named, ProviderTypes, Registered, RowTypes, SnapshotNamed, SourceOwed, TypeOK, history,
    provider
<1>20. ASSUME NEW b \in Builds, clearUnboundSourceIntent(b) PROVE AskNamed(c)'
  BY <1>20, <1>0, <1>00 DEF clearUnboundSourceIntent, AskNamed, Capturing, Existed, Found, Named,
    ProviderTypes, Registered, RowTypes, SnapshotNamed, SourceOwed, TypeOK, history, provider
<1>21. ASSUME NEW b \in Builds, sweptSession(b) PROVE AskNamed(c)'
  BY <1>21, <1>0, <1>00 DEF sweptSession, AskNamed, Capturing, Existed, Found, Named,
    ProviderTypes, Registered, RowTypes, SnapshotNamed, SourceOwed, Terminal, TypeOK,
    clearSessionCleanup, history, provider
<1>22. ASSUME NEW b \in Builds, clearProviderOperation(b) PROVE AskNamed(c)'
  <2>1. UNCHANGED <<capture, age, source, work, status, image>>
    BY <1>22 DEF clearProviderOperation, provider, history
  <2>2. capture[b] = "deleted" \/ age[b] = "old"
    BY <1>22 DEF clearProviderOperation, Found, SettledInv, SettledTrue
  <2>3. c # b => (c \in op => c \in op')
    BY <1>22 DEF clearProviderOperation
  <2>4. CASE c # b
    BY <1>0, <2>1, <2>3, <2>4 DEF AskNamed, Capturing, Existed, Named, Registered
  <2>5. CASE c = b
    BY <1>0, <1>00, <2>1, <2>2, <2>5 DEF AskNamed, Capturing, Existed, SourceOwed
  <2> QED BY <2>4, <2>5
<1>23. ASSUME NEW b \in Builds, clearReapedImage(b) PROVE AskNamed(c)'
  BY <1>23, <1>0, <1>00 DEF clearReapedImage, AskNamed, Capturing, Existed, Found, Named,
    NoSessionObligation, ProviderTypes, Registered, RowTypes, SnapshotNamed, SourceOwed, TypeOK,
    deleteSupersededImage, history, provider
<1>24. ASSUME NEW b \in Builds, deleteOldFailedBuilds(b) PROVE AskNamed(c)'
  BY <1>24, <1>0, <1>00 DEF deleteOldFailedBuilds, AskNamed, Capturing, Existed, Named,
    NoSessionObligation, ProviderTypes, Registered, RowTypes, SnapshotNamed, SourceOwed, TypeOK,
    history, provider
<1>25. ASSUME NEW b \in Builds, markRestoreFailed(b) PROVE AskNamed(c)'
  BY <1>25, <1>0, <1>00 DEF markRestoreFailed, AskNamed, Capturing, Existed, Named,
    ProviderTypes, Registered, RowTypes, SnapshotNamed, SourceOwed, TypeOK, history, provider
<1>26. ASSUME NEW b \in Builds, ProviderCreates(b) PROVE AskNamed(c)'
  BY <1>26, <1>0, <1>00 DEF ProviderCreates, AskNamed, Capturing, Existed, Named, ProviderTypes,
    Registered, RowTypes, SnapshotNamed, SourceOwed, TypeOK, history, row
<1>27. ASSUME NEW b \in Builds, ProviderCaptures(b) PROVE AskNamed(c)'
  BY <1>27, <1>0, <1>00 DEF ProviderCaptures, AskNamed, Capturing, Existed, Named, ProviderTypes,
    Registered, RowTypes, SnapshotNamed, SourceOwed, TypeOK, history, row
<1>28. ASSUME NEW b \in Builds, LeaseExpires(b) PROVE AskNamed(c)'
  BY <1>28, <1>0, <1>00 DEF LeaseExpires, AskNamed, Capturing, Existed, Named, ProviderTypes,
    Registered, RowTypes, SnapshotNamed, SourceOwed, TypeOK, history, provider
<1>29. ASSUME NEW b \in Builds, DeadlinePasses(b) PROVE AskNamed(c)'
  BY <1>29, <1>0, <1>00 DEF DeadlinePasses, AskNamed, Capturing, Existed, Named, ProviderTypes,
    Registered, RowTypes, SnapshotNamed, SourceOwed, TypeOK, provider, row
<1>30. ASSUME NEW b \in Builds, GrowsOld(b) PROVE AskNamed(c)'
  BY <1>30, <1>0, <1>00 DEF GrowsOld, AskNamed, Capturing, Existed, Named, ProviderTypes,
    Registered, RowTypes, SnapshotNamed, SourceOwed, TypeOK, row
<1>31. ASSUME NEW w \in Workers, NEW b \in Builds, getBuild(w, b) PROVE AskNamed(c)'
  <2>1. \A v \in Workers : work'[v] = work[v] \/ work'[v].at # "capture"
    BY <1>31, DeliveryGoes DEF Went
  <2>2. source' = source /\ (capture'[c] = "none" => capture[c] = "none") /\ (Named(c) => Named(c)')
    BY <1>31 DEF getBuild, At, Named, ProviderTypes, Registered, RowTypes, TypeOK, history,
      provider, row
  <2> QED BY <1>0, <2>1, <2>2 DEF AskNamed, Capturing, Existed
<1>32. ASSUME NEW w \in Workers, NEW b \in Builds, work[w].build = b, claimLease(w) PROVE
  AskNamed(c)'
  BY <1>32, <1>0, <1>00, TypeOK, ClaimGoes DEF claimLease, AskNamed, At, Capturing, Existed,
    Named, ProviderTypes, Registered, RowTypes, SnapshotNamed, SourceOwed, TypeOK, Went, history,
    provider
<1>33. ASSUME NEW w \in Workers, NEW b \in Builds, work[w].build = b, reserveProviderOperation(w)
  PROVE AskNamed(c)'
  BY <1>33, <1>0, <1>00, TypeOK, ReserveGoes DEF reserveProviderOperation, AskNamed, At,
    Capturing, Existed, HasLease, Named, ProviderTypes, Registered, RowTypes, SnapshotNamed,
    SourceOwed, TypeOK, Went, history, provider
<1>34. ASSUME NEW w \in Workers, NEW b \in Builds, work[w].build = b, captureBuildSnapshot(w)
  PROVE AskNamed(c)'
  <2>1. \A v \in Workers : work'[v] = work[v] \/ work'[v].at # "capture"
    BY <1>34, CaptureGoes DEF Went
  <2>2. source' = source /\ (capture'[c] = "none" => capture[c] = "none") /\ (Named(c) => Named(c)')
    BY <1>34 DEF captureBuildSnapshot, At, Named, ProviderTypes, Registered, RowTypes, TypeOK,
      history, row
  <2> QED BY <1>0, <2>1, <2>2 DEF AskNamed, Capturing, Existed
<1>35. ASSUME NEW w \in Workers, NEW b \in Builds, work[w].build = b, awaitCapturedSnapshot(w)
  PROVE AskNamed(c)'
  BY <1>35, <1>0, <1>00, TypeOK, AwaitGoes DEF awaitCapturedSnapshot, AskNamed, At, Capturing,
    Existed, Named, ProviderTypes, Registered, RowTypes, SnapshotNamed, SourceOwed, TypeOK, Went,
    history, provider, row
<1>36. ASSUME NEW w \in Workers, NEW b \in Builds, work[w].build = b, recordArtifact(w) PROVE
  AskNamed(c)'
  BY <1>36, <1>0, <1>00, TypeOK, RecordGoes DEF recordArtifact, AskNamed, At, Capturing, Existed,
    HasLease, Named, ProviderTypes, Registered, RowTypes, SnapshotNamed, SourceOwed, TypeOK,
    Went, history, provider
<1>37. ASSUME NEW w \in Workers, NEW b \in Builds, work[w].build = b,
  compensateUnrecordedArtifact(w) PROVE AskNamed(c)'
  BY <1>37, <1>0, <1>00, TypeOK, CompensateGoes DEF compensateUnrecordedArtifact, AskNamed, At,
    Capturing, Existed, Named, ProviderTypes, Registered, RowTypes, SnapshotNamed, SourceOwed,
    TypeOK, Went, history, row
<1>38. ASSUME NEW w \in Workers, NEW b \in Builds, work[w].build = b, quarantineArtifact(w) PROVE
  AskNamed(c)'
  BY <1>38, <1>0, <1>00, TypeOK, QuarantineGoes DEF quarantineArtifact, AskNamed, At, Capturing,
    Existed, Named, ProviderTypes, Registered, RowTypes, SnapshotNamed, SourceOwed, TypeOK, Went,
    history, provider
<1>39. ASSUME NEW w \in Workers, NEW b \in Builds, work[w].build = b, clearLease(w) PROVE
  AskNamed(c)'
  BY <1>39, <1>0, <1>00, TypeOK, ReleaseGoes DEF clearLease, AskNamed, At, Capturing, Existed,
    HasLease, Named, ProviderTypes, Registered, RowTypes, SnapshotNamed, SourceOwed, TypeOK,
    Went, history, provider
<1>40. ASSUME NEW w \in Workers, NEW b \in Builds, work[w].build = b, markFailed(w) PROVE
  AskNamed(c)'
  BY <1>40, <1>0, <1>00, TypeOK, FailGoes DEF markFailed, AskNamed, At, Capturing, Existed,
    HasLease, Named, ProviderTypes, Registered, RowTypes, SnapshotNamed, SourceOwed, TypeOK,
    Went, history, provider
<1>41. ASSUME NEW w \in Workers, NEW b \in Builds, work[w].build = b, tryMarkImageBuildReady(w)
  PROVE AskNamed(c)'
  BY <1>41, <1>0, <1>00, TypeOK, PublishGoes DEF tryMarkImageBuildReady, AskNamed, At, Capturing,
    Existed, HasLease, Named, NewerReady, ProviderTypes, Registered, RowTypes, SnapshotNamed,
    SourceOwed, TypeOK, Went, history, provider
<1>42. ASSUME NEW w \in Workers, NEW b \in Builds, work[w].build = b, supersedeOlder(w) PROVE
  AskNamed(c)'
  <2>1. \A v \in Workers : work'[v] = work[v] \/ work'[v].at # "capture"
    BY <1>42, SupersedeGoes DEF Went
  <2>2. source' = source /\ (capture'[c] = "none" => capture[c] = "none") /\ (Named(c) => Named(c)')
    BY <1>42 DEF supersedeOlder, At, Named, ProviderTypes, Registered, RowTypes, TypeOK, history,
      provider
  <2> QED BY <1>0, <2>1, <2>2 DEF AskNamed, Capturing, Existed
<1>43. ASSUME NEW w \in Workers, NEW b \in Builds, work[w].build = b, deleteReplacedImages(w)
  PROVE AskNamed(c)'
  BY <1>43, <1>0, <1>00, TypeOK, DeleteGoes DEF deleteReplacedImages, AskNamed, At, Capturing,
    Existed, Named, NoSessionObligation, ProviderTypes, Registered, RowTypes, SnapshotNamed,
    SourceOwed, TypeOK, Went, deleteSupersededImage, history
<1>44. ASSUME NEW w \in Workers, NEW b \in Builds, work[w].build = b, cleanupTerminalBuild(w)
  PROVE AskNamed(c)'
  BY <1>44, <1>0, <1>00, TypeOK, CleanupGoes DEF cleanupTerminalBuild, AskNamed, At, Capturing,
    Existed, Named, ProviderTypes, Registered, RowTypes, SnapshotNamed, SourceOwed, Terminal,
    TypeOK, Went, history, row
<1>45. ASSUME NEW w \in Workers, NEW b \in Builds, work[w].build = b, clearAfterCleanup(w) PROVE
  AskNamed(c)'
  BY <1>45, <1>0, <1>00, TypeOK, ClearGoes DEF clearAfterCleanup, AskNamed, At, Capturing,
    Existed, Named, ProviderTypes, Registered, RowTypes, SnapshotNamed, SourceOwed, Terminal,
    TypeOK, Went, clearSessionCleanup, history, provider
<1>46. ASSUME NEW w \in Workers, NEW b \in Builds, work[w].build = b, finalizerFails(w) PROVE
  AskNamed(c)'
  <2>1. \A v \in Workers : work'[v] = work[v] \/ work'[v].at # "capture"
    BY <1>46, FailureGoes DEF Went
  <2>2. source' = source /\ (capture'[c] = "none" => capture[c] = "none") /\ (Named(c) => Named(c)')
    BY <1>46 DEF finalizerFails, At, Named, ProviderTypes, Registered, RowTypes, TypeOK, provider
  <2> QED BY <1>0, <2>1, <2>2 DEF AskNamed, Capturing, Existed
<1>47. ASSUME sweepDies PROVE AskNamed(c)'
  BY <1>47, <1>0, <1>00 DEF sweepDies, AskNamed, Capturing, Existed, Named, ProviderTypes,
    Registered, RowTypes, SnapshotNamed, SourceOwed, TypeOK, provider, row
<1>48. ASSUME supersedeActiveImages PROVE AskNamed(c)'
  BY <1>48, <1>0, <1>00 DEF supersedeActiveImages, AskNamed, Capturing, Existed, Named,
    ProviderTypes, Registered, RowTypes, SnapshotNamed, SourceOwed, TypeOK, provider
<1>49. CASE UNCHANGED vars
  BY <1>49, <1>0 DEF vars, row, provider, history, AskNamed, Named, Registered, Capturing,
    Existed, TypeOK, RowTypes, ProviderTypes, SourceOwed, SnapshotNamed
<1>50. ASSUME NEW w \in Workers, Finalize(w) \/ finalizerFails(w) PROVE AskNamed(c)'
  BY <1>50, BusyBuild, <1>31, <1>32, <1>33, <1>34, <1>35, <1>36, <1>37, <1>38, <1>39, <1>40,
    <1>41, <1>42, <1>43, <1>44, <1>45, <1>46 DEF Finalize
<1>51. QED
  BY <1>1, <1>2, <1>3, <1>4, <1>5, <1>6, <1>7, <1>8, <1>9, <1>10, <1>11, <1>12, <1>13, <1>14,
    <1>15, <1>16, <1>17, <1>18, <1>19, <1>20, <1>21, <1>22, <1>23, <1>24, <1>25, <1>26, <1>27,
    <1>28, <1>29, <1>30, <1>47, <1>48, <1>49, <1>50 DEF Next, Trigger, Callback, SweepStarts,
    SweepEnds, Maintain, Environment

\* A snapshot that exists, or that the provider still makes, is named by its row
\* as its image or its operation: no attempt, fault, revocation or sweep drops
\* the only record of it.
THEOREM ArtifactsAreNamed == Spec => []NoArtifactLost
<1> DEFINE Inv == /\ SourceInv /\ FoundInv /\ CleaningInv
                  /\ ArtifactInv /\ AskInv /\ SettledInv
<1>1. Init => Inv
  BY BuildsAssumption DEF Init, SourceInv, FoundInv, CleaningInv, SourceOwed, FoundTrue, Deleted,
    ArtifactInv, AskInv, SettledInv, SnapshotNamed, AskNamed, SettledTrue, Capturing,
    Existed, Idle, Resting, Builds
<1>2. TypeOK /\ Inv /\ [Next]_vars => Inv'
  BY SourceStays, FoundStays, CleaningStays, ArtifactStays, AskStays, SettledStays
<1>3. Inv => NoArtifactLost
  BY DEF ArtifactInv, SnapshotNamed, Named, NoArtifactLost
<1> QED BY <1>1, <1>2, <1>3, TypeCorrect, PTL DEF Spec

-----------------------------------------------------------------------------
(* Ready images.                                                           *)

\* Where a finalizer goes under the lease it claimed.
UnderLease == {"submit", "capture", "await", "record", "compensate", "quarantine", "release",
               "poll", "fail", "publish"}

\* Of a build that is still building, the finalizer under the lease is its
\* holder, and knows what became of the artifact.
LeaseHeld(b) ==
  /\ lease[b] \in Workers => b \notin lapsed
  /\ \A w \in Workers : work[w].build = b /\ work[w].at \in UnderLease =>
       /\ status[b] \notin {"none", "ready"}
       /\ status[b] = "building" =>
            /\ HasLease(w, b)
            /\ work[w].at = "record" => capture[b] = "done"
            /\ work[w].at \in {"compensate", "quarantine"} => b \notin image
            /\ work[w].at = "publish" => b \in image

LeaseInv == \A b \in Builds : LeaseHeld(b)

\* The builds whose images a finalizer deletes cannot become ready.
ReplacedOver(b) ==
  \A w \in Workers : b \in work[w].replaced => status[b] \in {"superseded", "deleted"}

ReplacedInv == \A b \in Builds : ReplacedOver(b)

ImageKept(b) ==
  /\ status[b] = "none" => b \notin image
  /\ status[b] = "building" /\ b \in image => capture[b] = "done"
  /\ status[b] = "ready" => b \in image /\ capture[b] = "done"

ImageInv == \A b \in Builds : ImageKept(b)

\* A lease is claimed when nobody holds it, and given up with the work under it.
LEMMA LeaseStays ==
  ASSUME LeaseCovers, TypeOK, LeaseInv, ReplacedInv, ImageInv, [Next]_vars
  PROVE  LeaseInv'
<1> SUFFICES ASSUME NEW c \in Builds PROVE LeaseHeld(c)'
  BY DEF LeaseInv
<1>00. ImageKept(c)
  BY DEF ImageInv
<1>0. LeaseHeld(c)
  BY DEF LeaseInv
<1>1. ASSUME NEW b \in Builds, registerBuild(b) PROVE LeaseHeld(c)'
  BY <1>1, <1>0, <1>00 DEF registerBuild, HasLease, ImageKept, LeaseHeld, ProviderTypes,
    RowTypes, TypeOK, UnderLease, history, provider
<1>2. ASSUME NEW b \in Builds, markSourceCreateIntent(b) PROVE LeaseHeld(c)'
  BY <1>2, <1>0, <1>00 DEF markSourceCreateIntent, HasLease, ImageKept, LeaseHeld, ProviderTypes,
    RowTypes, TypeOK, UnderLease, history, provider
<1>3. ASSUME NEW b \in Builds, startBuild(b) PROVE LeaseHeld(c)'
  BY <1>3, <1>0, <1>00 DEF startBuild, HasLease, ImageKept, LeaseHeld, ProviderTypes, RowTypes,
    TypeOK, UnderLease, history, row
<1>4. ASSUME NEW b \in Builds, createAnswers(b) PROVE LeaseHeld(c)'
  BY <1>4, <1>0, <1>00 DEF createAnswers, HasLease, ImageKept, LeaseHeld, ProviderTypes,
    RowTypes, TypeOK, UnderLease, history, provider, row
<1>5. ASSUME NEW b \in Builds, bindProviderSession(b) PROVE LeaseHeld(c)'
  BY <1>5, <1>0, <1>00 DEF bindProviderSession, HasLease, ImageKept, LeaseHeld, ProviderTypes,
    RowTypes, TypeOK, UnderLease, history, provider
<1>6. ASSUME NEW b \in Builds, launched(b) PROVE LeaseHeld(c)'
  BY <1>6, <1>0, <1>00 DEF launched, HasLease, ImageKept, LeaseHeld, ProviderTypes, RowTypes,
    TypeOK, UnderLease, history, provider, row
<1>7. ASSUME NEW b \in Builds, markBuildFailed(b) PROVE LeaseHeld(c)'
  BY <1>7, <1>0, <1>00 DEF markBuildFailed, HasLease, ImageKept, LeaseHeld, ProviderTypes,
    RowTypes, TypeOK, UnderLease, history, provider
<1>8. ASSUME NEW b \in Builds, cleanupTrigger(b) PROVE LeaseHeld(c)'
  BY <1>8, <1>0, <1>00 DEF cleanupTrigger, HasLease, ImageKept, LeaseHeld, ProviderTypes,
    RowTypes, TypeOK, UnderLease, history, row
<1>9. ASSUME NEW b \in Builds, triggerDies(b) PROVE LeaseHeld(c)'
  BY <1>9, <1>0, <1>00 DEF triggerDies, HasLease, ImageKept, LeaseHeld, ProviderTypes, RowTypes,
    TypeOK, UnderLease, provider, row
<1>10. ASSUME NEW b \in Builds, acceptSuccessfulCompletion(b) PROVE LeaseHeld(c)'
  BY <1>10, <1>0, <1>00 DEF acceptSuccessfulCompletion, HasLease, ImageKept, LeaseHeld,
    ProviderTypes, RowTypes, TypeOK, UnderLease, history, provider
<1>11. ASSUME NEW b \in Builds, acceptFailedCompletion(b) PROVE LeaseHeld(c)'
  BY <1>11, <1>0, <1>00 DEF acceptFailedCompletion, HasLease, ImageKept, LeaseHeld,
    ProviderTypes, RowTypes, TypeOK, UnderLease, history, provider
<1>12. ASSUME NEW b \in Builds, replayCompletion(b) PROVE LeaseHeld(c)'
  BY <1>12, <1>0, <1>00 DEF replayCompletion, HasLease, ImageKept, LeaseHeld, ProviderTypes,
    Registered, RowTypes, TypeOK, UnderLease, history, provider, row
<1>13. ASSUME NEW b \in Builds, republishRecoverableFinalizations(b) PROVE LeaseHeld(c)'
  BY <1>13, <1>0, <1>00 DEF republishRecoverableFinalizations, HasLease, ImageKept, LeaseHeld,
    ProviderTypes, RowTypes, TypeOK, UnderLease, history, provider, row
<1>14. ASSUME NEW b \in Builds, markStaleBuildsAsFailed(b) PROVE LeaseHeld(c)'
  BY <1>14, <1>0, <1>00 DEF markStaleBuildsAsFailed, HasLease, ImageKept, LeaseHeld,
    ProviderTypes, RowTypes, TypeOK, UnderLease, history, provider
<1>15. ASSUME NEW b \in Builds, recoverUnboundSource(b) PROVE LeaseHeld(c)'
  BY <1>15, <1>0, <1>00 DEF recoverUnboundSource, Finds, HasLease, ImageKept, LeaseHeld,
    ProviderTypes, RowTypes, TypeOK, UnderLease, history, provider, row
<1>16. ASSUME NEW b \in Builds, sweepSession(b) PROVE LeaseHeld(c)'
  BY <1>16, <1>0, <1>00 DEF sweepSession, Finds, HasLease, ImageKept, LeaseHeld, ProviderTypes,
    RowTypes, Terminal, TypeOK, UnderLease, history, row
<1>17. ASSUME NEW b \in Builds, reconcileUnresolvedOperation(b) PROVE LeaseHeld(c)'
  BY <1>17, <1>0, <1>00 DEF reconcileUnresolvedOperation, Finds, HasLease, ImageKept, LeaseHeld,
    ProviderTypes, RowTypes, TypeOK, UnderLease, history, row
<1>18. ASSUME NEW b \in Builds, reapImage(b) PROVE LeaseHeld(c)'
  BY <1>18, <1>0, <1>00 DEF reapImage, Finds, HasLease, ImageKept, LeaseHeld,
    NoSessionObligation, ProviderTypes, RowTypes, TypeOK, UnderLease, history, row
<1>19. ASSUME NEW b \in Builds, attachRecoveredProviderSession(b) PROVE LeaseHeld(c)'
  BY <1>19, <1>0, <1>00 DEF attachRecoveredProviderSession, Found, HasLease, ImageKept,
    LeaseHeld, ProviderTypes, RowTypes, TypeOK, UnderLease, history, provider
<1>20. ASSUME NEW b \in Builds, clearUnboundSourceIntent(b) PROVE LeaseHeld(c)'
  BY <1>20, <1>0, <1>00 DEF clearUnboundSourceIntent, Found, HasLease, ImageKept, LeaseHeld,
    ProviderTypes, RowTypes, TypeOK, UnderLease, history, provider
<1>21. ASSUME NEW b \in Builds, sweptSession(b) PROVE LeaseHeld(c)'
  BY <1>21, <1>0, <1>00 DEF sweptSession, Found, HasLease, ImageKept, LeaseHeld, ProviderTypes,
    RowTypes, Terminal, TypeOK, UnderLease, clearSessionCleanup, history, provider
<1>22. ASSUME NEW b \in Builds, clearProviderOperation(b) PROVE LeaseHeld(c)'
  BY <1>22, <1>0, <1>00 DEF clearProviderOperation, Found, HasLease, ImageKept, LeaseHeld,
    ProviderTypes, RowTypes, TypeOK, UnderLease, history, provider
<1>23. ASSUME NEW b \in Builds, clearReapedImage(b) PROVE LeaseHeld(c)'
  BY <1>23, <1>0, <1>00 DEF clearReapedImage, Found, HasLease, ImageKept, LeaseHeld,
    NoSessionObligation, ProviderTypes, RowTypes, TypeOK, UnderLease, deleteSupersededImage,
    history, provider
<1>24. ASSUME NEW b \in Builds, deleteOldFailedBuilds(b) PROVE LeaseHeld(c)'
  BY <1>24, <1>0, <1>00 DEF deleteOldFailedBuilds, HasLease, ImageKept, LeaseHeld,
    NoSessionObligation, ProviderTypes, RowTypes, TypeOK, UnderLease, history, provider
<1>25. ASSUME NEW b \in Builds, markRestoreFailed(b) PROVE LeaseHeld(c)'
  BY <1>25, <1>0, <1>00 DEF markRestoreFailed, HasLease, ImageKept, LeaseHeld, ProviderTypes,
    RowTypes, TypeOK, UnderLease, history, provider
<1>26. ASSUME NEW b \in Builds, ProviderCreates(b) PROVE LeaseHeld(c)'
  BY <1>26, <1>0, <1>00 DEF ProviderCreates, HasLease, ImageKept, LeaseHeld, ProviderTypes,
    RowTypes, TypeOK, UnderLease, history, row
<1>27. ASSUME NEW b \in Builds, ProviderCaptures(b) PROVE LeaseHeld(c)'
  BY <1>27, <1>0, <1>00 DEF ProviderCaptures, HasLease, ImageKept, LeaseHeld, ProviderTypes,
    RowTypes, TypeOK, UnderLease, history, row
<1>28. ASSUME NEW b \in Builds, LeaseExpires(b) PROVE LeaseHeld(c)'
  BY <1>28, <1>0, BuildsAssumption DEF LeaseExpires, HasLease, LeaseHeld, ProviderTypes, RowTypes,
    TypeOK, UnderLease, history, provider
<1>29. ASSUME NEW b \in Builds, DeadlinePasses(b) PROVE LeaseHeld(c)'
  BY <1>29, <1>0, <1>00 DEF DeadlinePasses, HasLease, ImageKept, LeaseHeld, ProviderTypes,
    Registered, RowTypes, TypeOK, UnderLease, provider, row
<1>30. ASSUME NEW b \in Builds, GrowsOld(b) PROVE LeaseHeld(c)'
  BY <1>30, <1>0, <1>00 DEF GrowsOld, HasLease, ImageKept, LeaseHeld, ProviderTypes, Registered,
    RowTypes, TypeOK, UnderLease, row
<1>31. ASSUME NEW w \in Workers, NEW b \in Builds, getBuild(w, b) PROVE LeaseHeld(c)'
  <2>1. \A v \in Workers : work'[v] = work[v] \/ work'[v].at \notin UnderLease
    BY <1>31, DeliveryGoes DEF Went, UnderLease
  <2>2. UNCHANGED <<status, lease, lapsed, image, capture>>
    BY <1>31 DEF getBuild, At, RowTypes, TypeOK, history, provider, row
  <2> QED BY <1>0, <2>1, <2>2, BuildsAssumption DEF LeaseHeld, HasLease
<1>32. ASSUME NEW w \in Workers, NEW b \in Builds, work[w].build = b, claimLease(w) PROVE
  LeaseHeld(c)'
  <2>1. /\ \A v \in Workers \ {w} : work'[v] = work[v]
        /\ work'[w].at # "idle" =>
             /\ work'[w].build = b /\ work'[w].at \in {"submit", "fail", "await", "publish"}
             /\ status[b] = "building" /\ (lease[b] = "none" \/ b \in lapsed)
             /\ lease' = [lease EXCEPT ![b] = w] /\ lapsed' = lapsed \ {b}
        /\ work'[w].at = "publish" => b \in image
        /\ work'[w].at = "idle" => UNCHANGED <<lease, lapsed>>
    BY <1>32, ClaimGoes DEF Went
  <2>2. UNCHANGED <<status, image, capture>>
    BY <1>32 DEF claimLease, provider
  <2>3. CASE work'[w].at = "idle"
    BY <1>0, <2>1, <2>2, <2>3 DEF LeaseHeld, HasLease, UnderLease
  <2>4. CASE work'[w].at # "idle" /\ c # b
    <3>1. lease'[c] = lease[c] /\ (c \in lapsed' <=> c \in lapsed)
      BY <2>1, <2>4 DEF TypeOK, RowTypes
    <3> QED BY <1>0, <2>1, <2>2, <2>4, <3>1 DEF LeaseHeld, HasLease
  <2>5. CASE work'[w].at # "idle" /\ c = b
    <3>1. lease'[b] = w /\ b \notin lapsed'
      BY <2>1, <2>5 DEF TypeOK, RowTypes
    <3>2. \A v \in Workers : work[v].build = b => work[v].at \notin UnderLease
      BY <1>0, <2>1, <2>5, BuildsAssumption DEF LeaseHeld, HasLease
    <3> QED BY <2>1, <2>2, <2>5, <3>1, <3>2 DEF LeaseHeld, HasLease
  <2> QED BY <2>3, <2>4, <2>5
<1>33. ASSUME NEW w \in Workers, NEW b \in Builds, work[w].build = b, reserveProviderOperation(w)
  PROVE LeaseHeld(c)'
  BY <1>33, <1>0, <1>00, TypeOK, ReserveGoes DEF reserveProviderOperation, At, HasLease,
    ImageKept, LeaseHeld, ProviderTypes, RowTypes, TypeOK, UnderLease, Went, history, provider
<1>34. ASSUME NEW w \in Workers, NEW b \in Builds, work[w].build = b, captureBuildSnapshot(w)
  PROVE LeaseHeld(c)'
  <2>1. \A v \in Workers :
          \/ work'[v] = work[v]
          \/ /\ work'[v].at \in {"await", "fail"} /\ work'[v].build = work[v].build
             /\ work[v].at \in UnderLease
    BY <1>34, CaptureGoes DEF Went, At, UnderLease
  <2>2. UNCHANGED <<status, lease, lapsed, image>> /\ (capture[c] = "done" => capture'[c] = "done")
    BY <1>34 DEF captureBuildSnapshot, row, TypeOK, ProviderTypes
  <2> QED BY <1>0, <2>1, <2>2 DEF LeaseHeld, HasLease
<1>35. ASSUME NEW w \in Workers, NEW b \in Builds, work[w].build = b, awaitCapturedSnapshot(w)
  PROVE LeaseHeld(c)'
  BY <1>35, <1>0, <1>00, TypeOK, AwaitGoes DEF awaitCapturedSnapshot, At, HasLease, ImageKept,
    LeaseHeld, ProviderTypes, RowTypes, TypeOK, UnderLease, Went, history, provider, row
<1>36. ASSUME NEW w \in Workers, NEW b \in Builds, work[w].build = b, recordArtifact(w) PROVE
  LeaseHeld(c)'
  BY <1>36, <1>0, <1>00, TypeOK, RecordGoes DEF recordArtifact, At, HasLease, ImageKept,
    LeaseHeld, ProviderTypes, RowTypes, TypeOK, UnderLease, Went, history, provider
<1>37. ASSUME NEW w \in Workers, NEW b \in Builds, work[w].build = b,
  compensateUnrecordedArtifact(w) PROVE LeaseHeld(c)'
  BY <1>37, <1>0, <1>00, TypeOK, CompensateGoes DEF compensateUnrecordedArtifact, At, HasLease,
    ImageKept, LeaseHeld, ProviderTypes, RowTypes, TypeOK, UnderLease, Went, history, row
<1>38. ASSUME NEW w \in Workers, NEW b \in Builds, work[w].build = b, quarantineArtifact(w) PROVE
  LeaseHeld(c)'
  BY <1>38, <1>0, <1>00, TypeOK, QuarantineGoes DEF quarantineArtifact, At, HasLease, ImageKept,
    LeaseHeld, ProviderTypes, RowTypes, TypeOK, UnderLease, Went, history, provider
<1>39. ASSUME NEW w \in Workers, NEW b \in Builds, work[w].build = b, clearLease(w) PROVE
  LeaseHeld(c)'
  BY <1>39, <1>0, <1>00, TypeOK, ReleaseGoes DEF clearLease, At, HasLease, ImageKept, LeaseHeld,
    ProviderTypes, RowTypes, TypeOK, UnderLease, Went, history, provider
<1>40. ASSUME NEW w \in Workers, NEW b \in Builds, work[w].build = b, markFailed(w) PROVE
  LeaseHeld(c)'
  BY <1>40, <1>0, <1>00, TypeOK, FailGoes DEF markFailed, At, HasLease, ImageKept, LeaseHeld,
    ProviderTypes, RowTypes, TypeOK, UnderLease, Went, history, provider
<1>41. ASSUME NEW w \in Workers, NEW b \in Builds, work[w].build = b, tryMarkImageBuildReady(w)
  PROVE LeaseHeld(c)'
  BY <1>41, <1>0, <1>00, TypeOK, PublishGoes DEF tryMarkImageBuildReady, At, HasLease, ImageKept,
    LeaseHeld, NewerReady, ProviderTypes, RowTypes, TypeOK, UnderLease, Went, history, provider
<1>42. ASSUME NEW w \in Workers, NEW b \in Builds, work[w].build = b, supersedeOlder(w) PROVE
  LeaseHeld(c)'
  <2>1. \A v \in Workers : work'[v] = work[v] \/ work'[v].at \notin UnderLease
    BY <1>42, SupersedeGoes DEF Went, UnderLease
  <2>2. /\ UNCHANGED <<lease, lapsed, image, capture>>
        /\ status'[c] = status[c] \/ (status[c] = "ready" /\ status'[c] = "superseded")
    BY <1>42 DEF supersedeOlder, At, RowTypes, TypeOK, history, provider
  <2> QED BY <1>0, <2>1, <2>2, BuildsAssumption DEF LeaseHeld, HasLease
<1>43. ASSUME NEW w \in Workers, NEW b \in Builds, work[w].build = b, deleteReplacedImages(w)
  PROVE LeaseHeld(c)'
  <2>1. \A v \in Workers : work'[v] = work[v] \/ work'[v].at \notin UnderLease
    BY <1>43, DeleteGoes DEF Went, UnderLease
  <2>2. CASE UNCHANGED <<status, image, capture>>
    BY <1>43, <1>0, <2>1, <2>2 DEF deleteReplacedImages, LeaseHeld, HasLease
  <2>3. CASE c \in work[w].replaced
    <3>1. status[c] \in {"superseded", "deleted"}
      BY <2>3 DEF ReplacedInv, ReplacedOver
    <3>2. status'[c] \in {"superseded", "deleted"}
      BY <1>43, <3>1 DEF deleteReplacedImages, deleteSupersededImage, TypeOK, RowTypes
    <3> QED BY <1>43, <1>0, <2>1, <3>2 DEF deleteReplacedImages, LeaseHeld
  <2>4. CASE c \notin work[w].replaced
    <3>1. /\ UNCHANGED <<lease, lapsed>> /\ status'[c] = status[c] /\ capture'[c] = capture[c]
          /\ (c \in image <=> c \in image')
      BY <1>43, <2>4 DEF deleteReplacedImages, deleteSupersededImage, TypeOK, RowTypes,
        ProviderTypes
    <3> QED BY <1>0, <2>1, <3>1 DEF LeaseHeld, HasLease
  <2> QED BY <2>3, <2>4
<1>44. ASSUME NEW w \in Workers, NEW b \in Builds, work[w].build = b, cleanupTerminalBuild(w)
  PROVE LeaseHeld(c)'
  BY <1>44, <1>0, <1>00, TypeOK, CleanupGoes DEF cleanupTerminalBuild, At, HasLease, ImageKept,
    LeaseHeld, ProviderTypes, RowTypes, Terminal, TypeOK, UnderLease, Went, history, row
<1>45. ASSUME NEW w \in Workers, NEW b \in Builds, work[w].build = b, clearAfterCleanup(w) PROVE
  LeaseHeld(c)'
  BY <1>45, <1>0, <1>00, TypeOK, ClearGoes DEF clearAfterCleanup, At, HasLease, ImageKept,
    LeaseHeld, ProviderTypes, RowTypes, Terminal, TypeOK, UnderLease, Went, clearSessionCleanup,
    history, provider
<1>46. ASSUME NEW w \in Workers, NEW b \in Builds, work[w].build = b, finalizerFails(w) PROVE
  LeaseHeld(c)'
  <2>1. \A v \in Workers : IF v = w THEN work'[v].at \notin UnderLease ELSE work'[v] = work[v]
    BY <1>46, FailureGoes DEF Went, UnderLease
  <2>2. UNCHANGED <<status, lapsed, image, capture>>
    BY <1>46 DEF finalizerFails, provider
  <2>3. lease'[c] = lease[c] \/ (lease[c] = w /\ lease'[c] = "lost")
    BY <1>46 DEF finalizerFails, TypeOK, RowTypes
  <2>4. CASE lease'[c] = lease[c]
    BY <1>0, <2>1, <2>2, <2>4 DEF LeaseHeld, HasLease
  <2>5. CASE lease[c] = w /\ lease'[c] = "lost"
    <3>1. lease'[c] \notin Workers
      BY <2>5, BuildsAssumption
    <3>2. ASSUME NEW v \in Workers, work'[v].build = c, work'[v].at \in UnderLease
          PROVE  status[c] \notin {"none", "ready", "building"}
      <4>1. v # w /\ work'[v] = work[v]
        BY <2>1, <3>2
      <4> QED BY <1>0, <2>5, <3>2, <4>1 DEF LeaseHeld, HasLease
    <3> QED BY <2>2, <3>1, <3>2 DEF LeaseHeld
  <2> QED BY <2>3, <2>4, <2>5
<1>47. ASSUME sweepDies PROVE LeaseHeld(c)'
  BY <1>47, <1>0, <1>00 DEF sweepDies, HasLease, ImageKept, LeaseHeld, ProviderTypes, RowTypes,
    TypeOK, UnderLease, provider, row
<1>48. ASSUME supersedeActiveImages PROVE LeaseHeld(c)'
  BY <1>48, <1>0, <1>00 DEF supersedeActiveImages, HasLease, ImageKept, LeaseHeld, ProviderTypes,
    RowTypes, TypeOK, UnderLease, provider
<1>49. CASE UNCHANGED vars
  BY <1>49, <1>0 DEF vars, row, provider, history, TypeOK, RowTypes, ProviderTypes, LeaseHeld,
    UnderLease, HasLease, ImageKept
<1>50. ASSUME NEW w \in Workers, Finalize(w) \/ finalizerFails(w) PROVE LeaseHeld(c)'
  BY <1>50, BusyBuild, <1>31, <1>32, <1>33, <1>34, <1>35, <1>36, <1>37, <1>38, <1>39, <1>40,
    <1>41, <1>42, <1>43, <1>44, <1>45, <1>46 DEF Finalize
<1>51. QED
  BY <1>1, <1>2, <1>3, <1>4, <1>5, <1>6, <1>7, <1>8, <1>9, <1>10, <1>11, <1>12, <1>13, <1>14,
    <1>15, <1>16, <1>17, <1>18, <1>19, <1>20, <1>21, <1>22, <1>23, <1>24, <1>25, <1>26, <1>27,
    <1>28, <1>29, <1>30, <1>47, <1>48, <1>49, <1>50 DEF Next, Trigger, Callback, SweepStarts,
    SweepEnds, Maintain, Environment

\* A finalizer replaces only what it superseded.
LEMMA ReplacedStays ==
  ASSUME TypeOK, ReplacedInv, [Next]_vars
  PROVE  ReplacedInv'
<1> SUFFICES ASSUME NEW c \in Builds PROVE ReplacedOver(c)'
  BY DEF ReplacedInv
<1>0. ReplacedOver(c)
  BY DEF ReplacedInv
<1>1. ASSUME NEW b \in Builds, registerBuild(b) PROVE ReplacedOver(c)'
  BY <1>1, <1>0 DEF registerBuild, ReplacedOver, RowTypes, TypeOK, history, provider
<1>2. ASSUME NEW b \in Builds, markSourceCreateIntent(b) PROVE ReplacedOver(c)'
  BY <1>2, <1>0 DEF markSourceCreateIntent, ReplacedOver, RowTypes, TypeOK, history, provider
<1>3. ASSUME NEW b \in Builds, startBuild(b) PROVE ReplacedOver(c)'
  BY <1>3, <1>0 DEF startBuild, ReplacedOver, RowTypes, TypeOK, history, row
<1>4. ASSUME NEW b \in Builds, createAnswers(b) PROVE ReplacedOver(c)'
  BY <1>4, <1>0 DEF createAnswers, ReplacedOver, RowTypes, TypeOK, history, provider, row
<1>5. ASSUME NEW b \in Builds, bindProviderSession(b) PROVE ReplacedOver(c)'
  BY <1>5, <1>0 DEF bindProviderSession, ReplacedOver, RowTypes, TypeOK, history, provider
<1>6. ASSUME NEW b \in Builds, launched(b) PROVE ReplacedOver(c)'
  BY <1>6, <1>0 DEF launched, ReplacedOver, RowTypes, TypeOK, history, provider, row
<1>7. ASSUME NEW b \in Builds, markBuildFailed(b) PROVE ReplacedOver(c)'
  BY <1>7, <1>0 DEF markBuildFailed, ReplacedOver, RowTypes, TypeOK, history, provider
<1>8. ASSUME NEW b \in Builds, cleanupTrigger(b) PROVE ReplacedOver(c)'
  BY <1>8, <1>0 DEF cleanupTrigger, ReplacedOver, RowTypes, TypeOK, history, row
<1>9. ASSUME NEW b \in Builds, triggerDies(b) PROVE ReplacedOver(c)'
  BY <1>9, <1>0 DEF triggerDies, ReplacedOver, RowTypes, TypeOK, provider, row
<1>10. ASSUME NEW b \in Builds, acceptSuccessfulCompletion(b) PROVE ReplacedOver(c)'
  BY <1>10, <1>0 DEF acceptSuccessfulCompletion, ReplacedOver, RowTypes, TypeOK, history,
    provider
<1>11. ASSUME NEW b \in Builds, acceptFailedCompletion(b) PROVE ReplacedOver(c)'
  BY <1>11, <1>0 DEF acceptFailedCompletion, ReplacedOver, RowTypes, TypeOK, history, provider
<1>12. ASSUME NEW b \in Builds, replayCompletion(b) PROVE ReplacedOver(c)'
  BY <1>12, <1>0 DEF replayCompletion, Registered, ReplacedOver, RowTypes, TypeOK, history,
    provider, row
<1>13. ASSUME NEW b \in Builds, republishRecoverableFinalizations(b) PROVE ReplacedOver(c)'
  BY <1>13, <1>0 DEF republishRecoverableFinalizations, ReplacedOver, RowTypes, TypeOK, history,
    provider, row
<1>14. ASSUME NEW b \in Builds, markStaleBuildsAsFailed(b) PROVE ReplacedOver(c)'
  BY <1>14, <1>0 DEF markStaleBuildsAsFailed, ReplacedOver, RowTypes, TypeOK, history, provider
<1>15. ASSUME NEW b \in Builds, recoverUnboundSource(b) PROVE ReplacedOver(c)'
  BY <1>15, <1>0 DEF recoverUnboundSource, Finds, ReplacedOver, RowTypes, TypeOK, history,
    provider, row
<1>16. ASSUME NEW b \in Builds, sweepSession(b) PROVE ReplacedOver(c)'
  BY <1>16, <1>0 DEF sweepSession, Finds, ReplacedOver, RowTypes, Terminal, TypeOK, history, row
<1>17. ASSUME NEW b \in Builds, reconcileUnresolvedOperation(b) PROVE ReplacedOver(c)'
  BY <1>17, <1>0 DEF reconcileUnresolvedOperation, Finds, ReplacedOver, RowTypes, TypeOK,
    history, row
<1>18. ASSUME NEW b \in Builds, reapImage(b) PROVE ReplacedOver(c)'
  BY <1>18, <1>0 DEF reapImage, Finds, NoSessionObligation, ReplacedOver, RowTypes, TypeOK,
    history, row
<1>19. ASSUME NEW b \in Builds, attachRecoveredProviderSession(b) PROVE ReplacedOver(c)'
  BY <1>19, <1>0 DEF attachRecoveredProviderSession, Found, ReplacedOver, RowTypes, TypeOK,
    history, provider
<1>20. ASSUME NEW b \in Builds, clearUnboundSourceIntent(b) PROVE ReplacedOver(c)'
  BY <1>20, <1>0 DEF clearUnboundSourceIntent, Found, ReplacedOver, RowTypes, TypeOK, history,
    provider
<1>21. ASSUME NEW b \in Builds, sweptSession(b) PROVE ReplacedOver(c)'
  BY <1>21, <1>0 DEF sweptSession, Found, ReplacedOver, RowTypes, Terminal, TypeOK,
    clearSessionCleanup, history, provider
<1>22. ASSUME NEW b \in Builds, clearProviderOperation(b) PROVE ReplacedOver(c)'
  BY <1>22, <1>0 DEF clearProviderOperation, Found, ReplacedOver, RowTypes, TypeOK, history,
    provider
<1>23. ASSUME NEW b \in Builds, clearReapedImage(b) PROVE ReplacedOver(c)'
  BY <1>23, <1>0 DEF clearReapedImage, Found, NoSessionObligation, ReplacedOver, RowTypes,
    TypeOK, deleteSupersededImage, history, provider
<1>24. ASSUME NEW b \in Builds, deleteOldFailedBuilds(b) PROVE ReplacedOver(c)'
  BY <1>24, <1>0 DEF deleteOldFailedBuilds, NoSessionObligation, ReplacedOver, RowTypes, TypeOK,
    history, provider
<1>25. ASSUME NEW b \in Builds, markRestoreFailed(b) PROVE ReplacedOver(c)'
  BY <1>25, <1>0 DEF markRestoreFailed, ReplacedOver, RowTypes, TypeOK, history, provider
<1>26. ASSUME NEW b \in Builds, ProviderCreates(b) PROVE ReplacedOver(c)'
  BY <1>26, <1>0 DEF ProviderCreates, ReplacedOver, RowTypes, TypeOK, history, row
<1>27. ASSUME NEW b \in Builds, ProviderCaptures(b) PROVE ReplacedOver(c)'
  BY <1>27, <1>0 DEF ProviderCaptures, ReplacedOver, RowTypes, TypeOK, history, row
<1>28. ASSUME NEW b \in Builds, LeaseExpires(b) PROVE ReplacedOver(c)'
  BY <1>28, <1>0 DEF LeaseExpires, ReplacedOver, RowTypes, TypeOK, history, provider
<1>29. ASSUME NEW b \in Builds, DeadlinePasses(b) PROVE ReplacedOver(c)'
  BY <1>29, <1>0 DEF DeadlinePasses, Registered, ReplacedOver, RowTypes, TypeOK, provider, row
<1>30. ASSUME NEW b \in Builds, GrowsOld(b) PROVE ReplacedOver(c)'
  BY <1>30, <1>0 DEF GrowsOld, Registered, ReplacedOver, RowTypes, TypeOK, row
<1>31. ASSUME NEW w \in Workers, NEW b \in Builds, getBuild(w, b) PROVE ReplacedOver(c)'
  BY <1>31, <1>0, TypeOK, DeliveryGoes DEF getBuild, At, ReplacedOver, RowTypes, TypeOK, Went,
    history, provider, row
<1>32. ASSUME NEW w \in Workers, NEW b \in Builds, work[w].build = b, claimLease(w) PROVE
  ReplacedOver(c)'
  <2>1. \A v \in Workers : c \in work'[v].replaced => c \in work[v].replaced
    BY <1>32, ClaimGoes DEF Went, Keeps
  <2>2. status[c] \in {"superseded", "deleted"} => status'[c] = status[c]
    BY <1>32 DEF claimLease, RowTypes, TypeOK
  <2> QED BY <1>0, <2>1, <2>2 DEF ReplacedOver
<1>33. ASSUME NEW w \in Workers, NEW b \in Builds, work[w].build = b, reserveProviderOperation(w)
  PROVE ReplacedOver(c)'
  <2>1. \A v \in Workers : c \in work'[v].replaced => c \in work[v].replaced
    BY <1>33, ReserveGoes DEF Went, Keeps
  <2>2. status[c] \in {"superseded", "deleted"} => status'[c] = status[c]
    BY <1>33 DEF reserveProviderOperation, HasLease, RowTypes, TypeOK
  <2> QED BY <1>0, <2>1, <2>2 DEF ReplacedOver
<1>34. ASSUME NEW w \in Workers, NEW b \in Builds, work[w].build = b, captureBuildSnapshot(w)
  PROVE ReplacedOver(c)'
  <2>1. \A v \in Workers : c \in work'[v].replaced => c \in work[v].replaced
    BY <1>34, CaptureGoes DEF Went, Keeps
  <2>2. status[c] \in {"superseded", "deleted"} => status'[c] = status[c]
    BY <1>34 DEF captureBuildSnapshot, RowTypes, TypeOK, row
  <2> QED BY <1>0, <2>1, <2>2 DEF ReplacedOver
<1>35. ASSUME NEW w \in Workers, NEW b \in Builds, work[w].build = b, awaitCapturedSnapshot(w)
  PROVE ReplacedOver(c)'
  <2>1. \A v \in Workers : c \in work'[v].replaced => c \in work[v].replaced
    BY <1>35, AwaitGoes DEF Went, Keeps
  <2>2. status[c] \in {"superseded", "deleted"} => status'[c] = status[c]
    BY <1>35 DEF awaitCapturedSnapshot, RowTypes, TypeOK, row
  <2> QED BY <1>0, <2>1, <2>2 DEF ReplacedOver
<1>36. ASSUME NEW w \in Workers, NEW b \in Builds, work[w].build = b, recordArtifact(w) PROVE
  ReplacedOver(c)'
  <2>1. \A v \in Workers : c \in work'[v].replaced => c \in work[v].replaced
    BY <1>36, RecordGoes DEF Went, Keeps
  <2>2. status[c] \in {"superseded", "deleted"} => status'[c] = status[c]
    BY <1>36 DEF recordArtifact, HasLease, RowTypes, TypeOK
  <2> QED BY <1>0, <2>1, <2>2 DEF ReplacedOver
<1>37. ASSUME NEW w \in Workers, NEW b \in Builds, work[w].build = b,
  compensateUnrecordedArtifact(w) PROVE ReplacedOver(c)'
  <2>1. \A v \in Workers : c \in work'[v].replaced => c \in work[v].replaced
    BY <1>37, CompensateGoes DEF Went, Keeps
  <2>2. status[c] \in {"superseded", "deleted"} => status'[c] = status[c]
    BY <1>37 DEF compensateUnrecordedArtifact, RowTypes, TypeOK, row
  <2> QED BY <1>0, <2>1, <2>2 DEF ReplacedOver
<1>38. ASSUME NEW w \in Workers, NEW b \in Builds, work[w].build = b, quarantineArtifact(w) PROVE
  ReplacedOver(c)'
  <2>1. \A v \in Workers : c \in work'[v].replaced => c \in work[v].replaced
    BY <1>38, QuarantineGoes DEF Went, Keeps
  <2>2. status[c] \in {"superseded", "deleted"} => status'[c] = status[c]
    BY <1>38 DEF quarantineArtifact, RowTypes, TypeOK
  <2> QED BY <1>0, <2>1, <2>2 DEF ReplacedOver
<1>39. ASSUME NEW w \in Workers, NEW b \in Builds, work[w].build = b, clearLease(w) PROVE
  ReplacedOver(c)'
  <2>1. \A v \in Workers : c \in work'[v].replaced => c \in work[v].replaced
    BY <1>39, ReleaseGoes DEF Went, Keeps
  <2>2. status[c] \in {"superseded", "deleted"} => status'[c] = status[c]
    BY <1>39 DEF clearLease, HasLease, RowTypes, TypeOK
  <2> QED BY <1>0, <2>1, <2>2 DEF ReplacedOver
<1>40. ASSUME NEW w \in Workers, NEW b \in Builds, work[w].build = b, markFailed(w) PROVE
  ReplacedOver(c)'
  <2>1. \A v \in Workers : c \in work'[v].replaced => c \in work[v].replaced
    BY <1>40, FailGoes DEF Went, Keeps
  <2>2. status[c] \in {"superseded", "deleted"} => status'[c] = status[c]
    BY <1>40 DEF markFailed, HasLease, RowTypes, TypeOK
  <2> QED BY <1>0, <2>1, <2>2 DEF ReplacedOver
<1>41. ASSUME NEW w \in Workers, NEW b \in Builds, work[w].build = b, tryMarkImageBuildReady(w)
  PROVE ReplacedOver(c)'
  <2>1. /\ \A v \in Workers \ {w} : work'[v] = work[v]
        /\ work'[w].at \in {"delete", "supersede", "release", "cleanup"}
        /\ work'[w].at \in {"delete", "supersede"} => status[b] = "building"
        /\ work'[w].at \in {"release", "cleanup"} =>
             UNCHANGED status /\ work'[w].replaced = work[w].replaced
        /\ work'[w].at = "delete" =>
             status' = [status EXCEPT ![b] = "superseded"] /\ work'[w].replaced = {b}
        /\ work'[w].at = "supersede" =>
             status' = [status EXCEPT ![b] = "ready"] /\ work'[w].replaced = {}
    BY <1>41, PublishGoes DEF Went
  <2> QED BY <1>0, <2>1 DEF ReplacedOver, TypeOK, RowTypes
<1>42. ASSUME NEW w \in Workers, NEW b \in Builds, work[w].build = b, supersedeOlder(w) PROVE
  ReplacedOver(c)'
  <2>1. /\ \A v \in Workers \ {w} : work'[v] = work[v]
        /\ work'[w].replaced = {d \in Builds : d < b /\ status[d] = "ready"}
    BY <1>42, SupersedeGoes DEF Went
  <2>2. status'[c] = IF c < b /\ status[c] = "ready" THEN "superseded" ELSE status[c]
    BY <1>42 DEF supersedeOlder
  <2> QED BY <1>0, <2>1, <2>2 DEF ReplacedOver
<1>43. ASSUME NEW w \in Workers, NEW b \in Builds, work[w].build = b, deleteReplacedImages(w)
  PROVE ReplacedOver(c)'
  BY <1>43, <1>0, TypeOK, DeleteGoes DEF deleteReplacedImages, At, NoSessionObligation,
    ReplacedOver, RowTypes, TypeOK, Went, deleteSupersededImage, history
<1>44. ASSUME NEW w \in Workers, NEW b \in Builds, work[w].build = b, cleanupTerminalBuild(w)
  PROVE ReplacedOver(c)'
  <2>1. \A v \in Workers : c \in work'[v].replaced => c \in work[v].replaced
    BY <1>44, CleanupGoes DEF Went, Keeps
  <2>2. status[c] \in {"superseded", "deleted"} => status'[c] = status[c]
    BY <1>44 DEF cleanupTerminalBuild, RowTypes, Terminal, TypeOK, row
  <2> QED BY <1>0, <2>1, <2>2 DEF ReplacedOver
<1>45. ASSUME NEW w \in Workers, NEW b \in Builds, work[w].build = b, clearAfterCleanup(w) PROVE
  ReplacedOver(c)'
  <2>1. \A v \in Workers : c \in work'[v].replaced => c \in work[v].replaced
    BY <1>45, ClearGoes DEF Went, Keeps
  <2>2. status[c] \in {"superseded", "deleted"} => status'[c] = status[c]
    BY <1>45 DEF clearAfterCleanup, RowTypes, Terminal, TypeOK, clearSessionCleanup
  <2> QED BY <1>0, <2>1, <2>2 DEF ReplacedOver
<1>46. ASSUME NEW w \in Workers, NEW b \in Builds, work[w].build = b, finalizerFails(w) PROVE
  ReplacedOver(c)'
  <2>1. \A v \in Workers : c \in work'[v].replaced => c \in work[v].replaced
    BY <1>46, FailureGoes DEF Went, Keeps
  <2>2. status[c] \in {"superseded", "deleted"} => status'[c] = status[c]
    BY <1>46 DEF finalizerFails, RowTypes, TypeOK
  <2> QED BY <1>0, <2>1, <2>2 DEF ReplacedOver
<1>47. ASSUME sweepDies PROVE ReplacedOver(c)'
  BY <1>47, <1>0 DEF sweepDies, ReplacedOver, RowTypes, TypeOK, provider, row
<1>48. ASSUME supersedeActiveImages PROVE ReplacedOver(c)'
  BY <1>48, <1>0 DEF supersedeActiveImages, ReplacedOver, RowTypes, TypeOK, provider
<1>49. CASE UNCHANGED vars
  BY <1>49, <1>0 DEF vars, row, provider, history, ReplacedOver, TypeOK, RowTypes
<1>50. ASSUME NEW w \in Workers, Finalize(w) \/ finalizerFails(w) PROVE ReplacedOver(c)'
  BY <1>50, BusyBuild, <1>31, <1>32, <1>33, <1>34, <1>35, <1>36, <1>37, <1>38, <1>39, <1>40,
    <1>41, <1>42, <1>43, <1>44, <1>45, <1>46 DEF Finalize
<1>51. QED
  BY <1>1, <1>2, <1>3, <1>4, <1>5, <1>6, <1>7, <1>8, <1>9, <1>10, <1>11, <1>12, <1>13, <1>14,
    <1>15, <1>16, <1>17, <1>18, <1>19, <1>20, <1>21, <1>22, <1>23, <1>24, <1>25, <1>26, <1>27,
    <1>28, <1>29, <1>30, <1>47, <1>48, <1>49, <1>50 DEF Next, Trigger, Callback, SweepStarts,
    SweepEnds, Maintain, Environment

\* A ready image is deleted by nobody.
LEMMA ImageStays ==
  ASSUME TypeOK, LeaseInv, ReplacedInv, ImageInv, [Next]_vars
  PROVE  ImageInv'
<1> SUFFICES ASSUME NEW c \in Builds PROVE ImageKept(c)'
  BY DEF ImageInv
<1>0. ImageKept(c)
  BY DEF ImageInv
<1>1. ASSUME NEW b \in Builds, registerBuild(b) PROVE ImageKept(c)'
  BY <1>1, <1>0 DEF registerBuild, HasLease, ImageKept, ProviderTypes, RowTypes, TypeOK, history,
    provider
<1>2. ASSUME NEW b \in Builds, markSourceCreateIntent(b) PROVE ImageKept(c)'
  BY <1>2, <1>0 DEF markSourceCreateIntent, HasLease, ImageKept, ProviderTypes, RowTypes, TypeOK,
    history, provider
<1>3. ASSUME NEW b \in Builds, startBuild(b) PROVE ImageKept(c)'
  BY <1>3, <1>0 DEF startBuild, HasLease, ImageKept, ProviderTypes, RowTypes, TypeOK, history,
    row
<1>4. ASSUME NEW b \in Builds, createAnswers(b) PROVE ImageKept(c)'
  BY <1>4, <1>0 DEF createAnswers, HasLease, ImageKept, ProviderTypes, RowTypes, TypeOK, history,
    provider, row
<1>5. ASSUME NEW b \in Builds, bindProviderSession(b) PROVE ImageKept(c)'
  BY <1>5, <1>0 DEF bindProviderSession, HasLease, ImageKept, ProviderTypes, RowTypes, TypeOK,
    history, provider
<1>6. ASSUME NEW b \in Builds, launched(b) PROVE ImageKept(c)'
  BY <1>6, <1>0 DEF launched, HasLease, ImageKept, ProviderTypes, RowTypes, TypeOK, history,
    provider, row
<1>7. ASSUME NEW b \in Builds, markBuildFailed(b) PROVE ImageKept(c)'
  BY <1>7, <1>0 DEF markBuildFailed, HasLease, ImageKept, ProviderTypes, RowTypes, TypeOK,
    history, provider
<1>8. ASSUME NEW b \in Builds, cleanupTrigger(b) PROVE ImageKept(c)'
  BY <1>8, <1>0 DEF cleanupTrigger, HasLease, ImageKept, ProviderTypes, RowTypes, TypeOK,
    history, row
<1>9. ASSUME NEW b \in Builds, triggerDies(b) PROVE ImageKept(c)'
  BY <1>9, <1>0 DEF triggerDies, HasLease, ImageKept, ProviderTypes, RowTypes, TypeOK, provider,
    row
<1>10. ASSUME NEW b \in Builds, acceptSuccessfulCompletion(b) PROVE ImageKept(c)'
  BY <1>10, <1>0 DEF acceptSuccessfulCompletion, HasLease, ImageKept, ProviderTypes, RowTypes,
    TypeOK, history, provider
<1>11. ASSUME NEW b \in Builds, acceptFailedCompletion(b) PROVE ImageKept(c)'
  BY <1>11, <1>0 DEF acceptFailedCompletion, HasLease, ImageKept, ProviderTypes, RowTypes,
    TypeOK, history, provider
<1>12. ASSUME NEW b \in Builds, replayCompletion(b) PROVE ImageKept(c)'
  BY <1>12, <1>0 DEF replayCompletion, HasLease, ImageKept, ProviderTypes, Registered, RowTypes,
    TypeOK, history, provider, row
<1>13. ASSUME NEW b \in Builds, republishRecoverableFinalizations(b) PROVE ImageKept(c)'
  BY <1>13, <1>0 DEF republishRecoverableFinalizations, HasLease, ImageKept, ProviderTypes,
    RowTypes, TypeOK, history, provider, row
<1>14. ASSUME NEW b \in Builds, markStaleBuildsAsFailed(b) PROVE ImageKept(c)'
  BY <1>14, <1>0 DEF markStaleBuildsAsFailed, HasLease, ImageKept, ProviderTypes, RowTypes,
    TypeOK, history, provider
<1>15. ASSUME NEW b \in Builds, recoverUnboundSource(b) PROVE ImageKept(c)'
  BY <1>15, <1>0 DEF recoverUnboundSource, Finds, HasLease, ImageKept, ProviderTypes, RowTypes,
    TypeOK, history, provider, row
<1>16. ASSUME NEW b \in Builds, sweepSession(b) PROVE ImageKept(c)'
  BY <1>16, <1>0 DEF sweepSession, Finds, HasLease, ImageKept, ProviderTypes, RowTypes, Terminal,
    TypeOK, history, row
<1>17. ASSUME NEW b \in Builds, reconcileUnresolvedOperation(b) PROVE ImageKept(c)'
  BY <1>17, <1>0 DEF reconcileUnresolvedOperation, Finds, HasLease, ImageKept, ProviderTypes,
    RowTypes, TypeOK, history, row
<1>18. ASSUME NEW b \in Builds, reapImage(b) PROVE ImageKept(c)'
  BY <1>18, <1>0 DEF reapImage, Finds, HasLease, ImageKept, NoSessionObligation, ProviderTypes,
    RowTypes, TypeOK, history, row
<1>19. ASSUME NEW b \in Builds, attachRecoveredProviderSession(b) PROVE ImageKept(c)'
  BY <1>19, <1>0 DEF attachRecoveredProviderSession, Found, HasLease, ImageKept, ProviderTypes,
    RowTypes, TypeOK, history, provider
<1>20. ASSUME NEW b \in Builds, clearUnboundSourceIntent(b) PROVE ImageKept(c)'
  BY <1>20, <1>0 DEF clearUnboundSourceIntent, Found, HasLease, ImageKept, ProviderTypes,
    RowTypes, TypeOK, history, provider
<1>21. ASSUME NEW b \in Builds, sweptSession(b) PROVE ImageKept(c)'
  BY <1>21, <1>0 DEF sweptSession, Found, HasLease, ImageKept, ProviderTypes, RowTypes, Terminal,
    TypeOK, clearSessionCleanup, history, provider
<1>22. ASSUME NEW b \in Builds, clearProviderOperation(b) PROVE ImageKept(c)'
  BY <1>22, <1>0 DEF clearProviderOperation, Found, HasLease, ImageKept, ProviderTypes, RowTypes,
    TypeOK, history, provider
<1>23. ASSUME NEW b \in Builds, clearReapedImage(b) PROVE ImageKept(c)'
  BY <1>23, <1>0 DEF clearReapedImage, Found, HasLease, ImageKept, NoSessionObligation,
    ProviderTypes, RowTypes, TypeOK, deleteSupersededImage, history, provider
<1>24. ASSUME NEW b \in Builds, deleteOldFailedBuilds(b) PROVE ImageKept(c)'
  BY <1>24, <1>0 DEF deleteOldFailedBuilds, HasLease, ImageKept, NoSessionObligation,
    ProviderTypes, RowTypes, TypeOK, history, provider
<1>25. ASSUME NEW b \in Builds, markRestoreFailed(b) PROVE ImageKept(c)'
  BY <1>25, <1>0 DEF markRestoreFailed, HasLease, ImageKept, ProviderTypes, RowTypes, TypeOK,
    history, provider
<1>26. ASSUME NEW b \in Builds, ProviderCreates(b) PROVE ImageKept(c)'
  BY <1>26, <1>0 DEF ProviderCreates, HasLease, ImageKept, ProviderTypes, RowTypes, TypeOK,
    history, row
<1>27. ASSUME NEW b \in Builds, ProviderCaptures(b) PROVE ImageKept(c)'
  BY <1>27, <1>0 DEF ProviderCaptures, HasLease, ImageKept, ProviderTypes, RowTypes, TypeOK,
    history, row
<1>28. ASSUME NEW b \in Builds, LeaseExpires(b) PROVE ImageKept(c)'
  BY <1>28, <1>0 DEF LeaseExpires, HasLease, ImageKept, ProviderTypes, RowTypes, TypeOK, history,
    provider
<1>29. ASSUME NEW b \in Builds, DeadlinePasses(b) PROVE ImageKept(c)'
  BY <1>29, <1>0 DEF DeadlinePasses, HasLease, ImageKept, ProviderTypes, Registered, RowTypes,
    TypeOK, provider, row
<1>30. ASSUME NEW b \in Builds, GrowsOld(b) PROVE ImageKept(c)'
  BY <1>30, <1>0 DEF GrowsOld, HasLease, ImageKept, ProviderTypes, Registered, RowTypes, TypeOK,
    row
<1>31. ASSUME NEW w \in Workers, NEW b \in Builds, getBuild(w, b) PROVE ImageKept(c)'
  BY <1>31, <1>0 DEF getBuild, At, HasLease, ImageKept, ProviderTypes, RowTypes, TypeOK, history,
    provider, row
<1>32. ASSUME NEW w \in Workers, NEW b \in Builds, work[w].build = b, claimLease(w) PROVE
  ImageKept(c)'
  <2>1. LeaseHeld(b) /\ At(w, "claim")
    BY <1>32, ClaimGoes DEF LeaseInv
  <2> QED BY <1>32, <1>0, <2>1 DEF claimLease, At, HasLease, ImageKept, LeaseHeld, ProviderTypes,
    RowTypes, TypeOK, UnderLease, history, provider
<1>33. ASSUME NEW w \in Workers, NEW b \in Builds, work[w].build = b, reserveProviderOperation(w)
  PROVE ImageKept(c)'
  <2>1. LeaseHeld(b) /\ At(w, "submit")
    BY <1>33, ReserveGoes DEF LeaseInv
  <2> QED BY <1>33, <1>0, <2>1 DEF reserveProviderOperation, At, HasLease, ImageKept, LeaseHeld,
    ProviderTypes, RowTypes, TypeOK, UnderLease, history, provider
<1>34. ASSUME NEW w \in Workers, NEW b \in Builds, work[w].build = b, captureBuildSnapshot(w)
  PROVE ImageKept(c)'
  <2>1. LeaseHeld(b) /\ At(w, "capture")
    BY <1>34, CaptureGoes DEF LeaseInv
  <2> QED BY <1>34, <1>0, <2>1 DEF captureBuildSnapshot, At, HasLease, ImageKept, LeaseHeld,
    ProviderTypes, RowTypes, TypeOK, UnderLease, history, row
<1>35. ASSUME NEW w \in Workers, NEW b \in Builds, work[w].build = b, awaitCapturedSnapshot(w)
  PROVE ImageKept(c)'
  <2>1. LeaseHeld(b) /\ At(w, "await")
    BY <1>35, AwaitGoes DEF LeaseInv
  <2> QED BY <1>35, <1>0, <2>1 DEF awaitCapturedSnapshot, At, HasLease, ImageKept, LeaseHeld,
    ProviderTypes, RowTypes, TypeOK, UnderLease, history, provider, row
<1>36. ASSUME NEW w \in Workers, NEW b \in Builds, work[w].build = b, recordArtifact(w) PROVE
  ImageKept(c)'
  <2>1. LeaseHeld(b) /\ At(w, "record")
    BY <1>36, RecordGoes DEF LeaseInv
  <2> QED BY <1>36, <1>0, <2>1 DEF recordArtifact, At, HasLease, ImageKept, LeaseHeld,
    ProviderTypes, RowTypes, TypeOK, UnderLease, history, provider
<1>37. ASSUME NEW w \in Workers, NEW b \in Builds, work[w].build = b,
  compensateUnrecordedArtifact(w) PROVE ImageKept(c)'
  <2>1. LeaseHeld(b) /\ At(w, "compensate")
    BY <1>37, CompensateGoes DEF LeaseInv
  <2> QED BY <1>37, <1>0, <2>1 DEF compensateUnrecordedArtifact, At, HasLease, ImageKept,
    LeaseHeld, ProviderTypes, RowTypes, TypeOK, UnderLease, history, row
<1>38. ASSUME NEW w \in Workers, NEW b \in Builds, work[w].build = b, quarantineArtifact(w) PROVE
  ImageKept(c)'
  <2>1. LeaseHeld(b) /\ At(w, "quarantine")
    BY <1>38, QuarantineGoes DEF LeaseInv
  <2> QED BY <1>38, <1>0, <2>1 DEF quarantineArtifact, At, HasLease, ImageKept, LeaseHeld,
    ProviderTypes, RowTypes, TypeOK, UnderLease, history, provider
<1>39. ASSUME NEW w \in Workers, NEW b \in Builds, work[w].build = b, clearLease(w) PROVE
  ImageKept(c)'
  <2>1. LeaseHeld(b) /\ (At(w, "release") \/ At(w, "poll"))
    BY <1>39, ReleaseGoes DEF LeaseInv
  <2> QED BY <1>39, <1>0, <2>1 DEF clearLease, At, HasLease, ImageKept, LeaseHeld, ProviderTypes,
    RowTypes, TypeOK, UnderLease, history, provider
<1>40. ASSUME NEW w \in Workers, NEW b \in Builds, work[w].build = b, markFailed(w) PROVE
  ImageKept(c)'
  <2>1. LeaseHeld(b) /\ At(w, "fail")
    BY <1>40, FailGoes DEF LeaseInv
  <2> QED BY <1>40, <1>0, <2>1 DEF markFailed, At, HasLease, ImageKept, LeaseHeld, ProviderTypes,
    RowTypes, TypeOK, UnderLease, history, provider
<1>41. ASSUME NEW w \in Workers, NEW b \in Builds, work[w].build = b, tryMarkImageBuildReady(w)
  PROVE ImageKept(c)'
  <2>1. LeaseHeld(b) /\ At(w, "publish")
    BY <1>41, PublishGoes DEF LeaseInv
  <2> QED BY <1>41, <1>0, <2>1 DEF tryMarkImageBuildReady, At, HasLease, ImageKept, LeaseHeld,
    NewerReady, ProviderTypes, RowTypes, TypeOK, UnderLease, history, provider
<1>42. ASSUME NEW w \in Workers, NEW b \in Builds, work[w].build = b, supersedeOlder(w) PROVE
  ImageKept(c)'
  <2>1. LeaseHeld(b) /\ At(w, "supersede")
    BY <1>42, SupersedeGoes DEF LeaseInv
  <2> QED BY <1>42, <1>0, <2>1 DEF supersedeOlder, At, HasLease, ImageKept, LeaseHeld,
    ProviderTypes, RowTypes, TypeOK, UnderLease, history, provider
<1>43. ASSUME NEW w \in Workers, NEW b \in Builds, work[w].build = b, deleteReplacedImages(w)
  PROVE ImageKept(c)'
  <2>1. CASE c \in work[w].replaced
    <3>1. status[c] \in {"superseded", "deleted"}
      BY <2>1 DEF ReplacedInv, ReplacedOver
    <3>2. status'[c] \in {"superseded", "deleted"}
      BY <1>43, <3>1 DEF deleteReplacedImages, deleteSupersededImage, TypeOK, RowTypes
    <3> QED BY <3>2 DEF ImageKept
  <2>2. CASE c \notin work[w].replaced
    <3>1. /\ status'[c] = status[c] /\ capture'[c] = capture[c] /\ (c \in image <=> c \in image')
      BY <1>43, <2>2 DEF deleteReplacedImages, deleteSupersededImage, TypeOK, RowTypes,
        ProviderTypes
    <3> QED BY <1>0, <3>1 DEF ImageKept
  <2> QED BY <2>1, <2>2
<1>44. ASSUME NEW w \in Workers, NEW b \in Builds, work[w].build = b, cleanupTerminalBuild(w)
  PROVE ImageKept(c)'
  <2>1. LeaseHeld(b) /\ At(w, "cleanup")
    BY <1>44, CleanupGoes DEF LeaseInv
  <2> QED BY <1>44, <1>0, <2>1 DEF cleanupTerminalBuild, At, HasLease, ImageKept, LeaseHeld,
    ProviderTypes, RowTypes, Terminal, TypeOK, UnderLease, history, row
<1>45. ASSUME NEW w \in Workers, NEW b \in Builds, work[w].build = b, clearAfterCleanup(w) PROVE
  ImageKept(c)'
  <2>1. LeaseHeld(b) /\ At(w, "clear")
    BY <1>45, ClearGoes DEF LeaseInv
  <2> QED BY <1>45, <1>0, <2>1 DEF clearAfterCleanup, At, HasLease, ImageKept, LeaseHeld,
    ProviderTypes, RowTypes, Terminal, TypeOK, UnderLease, clearSessionCleanup, history, provider
<1>46. ASSUME NEW w \in Workers, NEW b \in Builds, work[w].build = b, finalizerFails(w) PROVE
  ImageKept(c)'
  BY <1>46, <1>0 DEF finalizerFails, At, HasLease, ImageKept, ProviderTypes, RowTypes, TypeOK,
    provider
<1>47. ASSUME sweepDies PROVE ImageKept(c)'
  BY <1>47, <1>0 DEF sweepDies, HasLease, ImageKept, ProviderTypes, RowTypes, TypeOK, provider,
    row
<1>48. ASSUME supersedeActiveImages PROVE ImageKept(c)'
  BY <1>48, <1>0 DEF supersedeActiveImages, HasLease, ImageKept, ProviderTypes, RowTypes, TypeOK,
    provider
<1>49. CASE UNCHANGED vars
  BY <1>49, <1>0 DEF vars, row, provider, history, TypeOK, RowTypes, ProviderTypes, ImageKept,
    HasLease
<1>50. ASSUME NEW w \in Workers, Finalize(w) \/ finalizerFails(w) PROVE ImageKept(c)'
  BY <1>50, BusyBuild, <1>31, <1>32, <1>33, <1>34, <1>35, <1>36, <1>37, <1>38, <1>39, <1>40,
    <1>41, <1>42, <1>43, <1>44, <1>45, <1>46 DEF Finalize
<1>51. QED
  BY <1>1, <1>2, <1>3, <1>4, <1>5, <1>6, <1>7, <1>8, <1>9, <1>10, <1>11, <1>12, <1>13, <1>14,
    <1>15, <1>16, <1>17, <1>18, <1>19, <1>20, <1>21, <1>22, <1>23, <1>24, <1>25, <1>26, <1>27,
    <1>28, <1>29, <1>30, <1>47, <1>48, <1>49, <1>50 DEF Next, Trigger, Callback, SweepStarts,
    SweepEnds, Maintain, Environment

\* Sessions start only from images that have not been deleted, as long as the
\* lease covers the attempt made under it.
THEOREM ReadyImagesExist == ASSUME LeaseCovers PROVE Spec => []ReadyImageExists
<1> DEFINE Inv == LeaseInv /\ ReplacedInv /\ ImageInv
<1>1. Init => Inv
  BY BuildsAssumption DEF Init, LeaseInv, ReplacedInv, ImageInv, LeaseHeld, ReplacedOver,
    ImageKept, Idle, UnderLease, Builds
<1>2. TypeOK /\ Inv /\ [Next]_vars => Inv'
  BY LeaseStays, ReplacedStays, ImageStays
<1>3. Inv => ReadyImageExists
  BY DEF ImageInv, ImageKept, ReadyImageExists
<1> QED BY <1>1, <1>2, <1>3, TypeCorrect, PTL DEF Spec
=============================================================================
