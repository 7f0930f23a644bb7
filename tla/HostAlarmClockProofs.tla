------------------------ MODULE HostAlarmClockProofs ------------------------
(***************************************************************************)
(* Theorems about HostAlarmClock, for every set of sessions and every      *)
(* bound: a session has one handler at a time, no more deliveries count    *)
(* than the bound allows, and a clock below it has a timer for whatever is *)
(* armed.  The first two follow from what an entry in inFlight means       *)
(* (EntryInv): it is there exactly while a handler runs.                   *)
(***************************************************************************)
EXTENDS HostAlarmClock, FiniteSetTheorems, TLAPS

EntryInv ==
  /\ delivery \in [Sessions -> {"none", "live", "abandoned"}]
  /\ handlers = [s \in Sessions |-> IF delivery[s] = "none" THEN 0 ELSE 1]

\* What abandoning expired deliveries leaves of inFlight.
LEMMA Abandoning ==
  ASSUME EntryInv
  PROVE  /\ abandonExpiredDeliveries \in [Sessions -> {"none", "live", "abandoned"}]
         /\ \A s \in Sessions : abandonExpiredDeliveries[s] = "none" <=> delivery[s] = "none"
BY DEF EntryInv, abandonExpiredDeliveries

\* Delivering to sessions without an entry gives each of them its one handler,
\* and counts no more deliveries than there is capacity for.
LEMMA Delivering ==
  ASSUME EntryInv, NEW entries \in [Sessions -> {"none", "live", "abandoned"}],
         \A s \in Sessions : entries[s] = "none" <=> delivery[s] = "none",
         NEW claimed \in SUBSET Ready(entries),
         claimAndDeliver(entries, claimed)
  PROVE  EntryInv' /\ DeliveriesWithinBound'
<1>1. claimed \subseteq Sessions /\ \A s \in claimed : delivery[s] = "none"
  BY DEF Ready
<1>2. EntryInv'
  BY <1>1 DEF EntryInv, claimAndDeliver
<1>3. DeliveriesWithinBound'
  <2> DEFINE counted == {s \in Sessions : entries[s] = "live"}
  <2>1. Live' = counted \cup claimed
    BY <1>1 DEF Live, claimAndDeliver
  <2>2. IsFiniteSet(counted) /\ IsFiniteSet(claimed) /\ IsFiniteSet(counted \cup claimed)
    BY <1>1, ClockAssumption, FS_Subset
  <2>3. Cardinality(counted \cup claimed) <= Cardinality(counted) + Cardinality(claimed)
    <3>1. Cardinality(counted \cup claimed)
            = Cardinality(counted) + Cardinality(claimed) - Cardinality(counted \cap claimed)
      BY <2>2, FS_Union
    <3>2. Cardinality(counted \cap claimed) \in Nat
      BY <2>2, FS_Intersection, FS_CardinalityType
    <3> QED BY <2>2, <3>1, <3>2, FS_CardinalityType
  <2>4. Cardinality(claimed) <= MaxConcurrent - Cardinality(counted)
    BY DEF claimAndDeliver, Capacity
  <2>5. /\ Cardinality(counted) \in Nat /\ Cardinality(claimed) \in Nat
        /\ Cardinality(counted \cup claimed) \in Nat
    BY <2>2, FS_CardinalityType
  <2> QED BY <2>1, <2>3, <2>4, <2>5, ClockAssumption DEF DeliveriesWithinBound
<1> QED BY <1>2, <1>3

\* Fewer counted deliveries stay within the bound.
LEMMA FewerLive ==
  ASSUME DeliveriesWithinBound, Live' \subseteq Live
  PROVE  DeliveriesWithinBound'
<1>1. IsFiniteSet(Live)
  BY ClockAssumption, FS_Subset DEF Live
<1>2. /\ Cardinality(Live') <= Cardinality(Live)
      /\ Cardinality(Live) \in Nat /\ Cardinality(Live') \in Nat
  BY <1>1, FS_Subset, FS_CardinalityType
<1>3. Cardinality(Live)' <= MaxConcurrent
  BY <1>2, ClockAssumption DEF DeliveriesWithinBound
<1> QED BY <1>3 DEF DeliveriesWithinBound

\* Settling a delivery ends its handler.
LEMMA Settling ==
  ASSUME EntryInv, DeliveriesWithinBound, NEW s \in Sessions, Settled(s)
  PROVE  EntryInv' /\ DeliveriesWithinBound'
<1>1. /\ delivery[s] # "none" /\ delivery' = [delivery EXCEPT ![s] = "none"]
      /\ handlers' = [handlers EXCEPT ![s] = @ - 1]
  BY DEF Settled
<1>2. EntryInv'
  BY <1>1 DEF EntryInv
<1>3. Live' \subseteq Live
  BY <1>1 DEF EntryInv, Live
<1> QED BY <1>2, <1>3, FewerLive

\* The steps that neither claim nor settle keep the entries or drop them all.
LEMMA Dropping ==
  ASSUME EntryInv, DeliveriesWithinBound,
         \/ UNCHANGED <<delivery, handlers>>
         \/ /\ delivery' = [s \in Sessions |-> "none"]
            /\ handlers' = [s \in Sessions |-> 0]
  PROVE  EntryInv' /\ DeliveriesWithinBound'
<1>1. EntryInv'
  BY DEF EntryInv
<1>2. Live' \subseteq Live
  BY DEF Live
<1> QED BY <1>1, <1>2, FewerLive

\* Every step keeps one handler to an entry, within the bound.
LEMMA EntryStep ==
  ASSUME EntryInv, DeliveriesWithinBound, [Next]_vars
  PROVE  EntryInv' /\ DeliveriesWithinBound'
<1>1. CASE UNCHANGED vars
  BY <1>1, Dropping DEF vars
<1>2. ASSUME NEW s \in Sessions, setAlarm(s) \/ DeadlineElapses(s) \/ LeaseRunsOut(s)
      PROVE  EntryInv' /\ DeliveriesWithinBound'
  BY <1>2, Dropping DEF setAlarm, DeadlineElapses, LeaseRunsOut
<1>3. ASSUME NEW s \in Sessions, Settle(s)
      PROVE  EntryInv' /\ DeliveriesWithinBound'
  BY <1>3, Settling DEF Settle, complete, retry, settleFails
<1>4. CASE tick \/ tickFails
  <2>1. PICK claimed \in SUBSET Ready(abandonExpiredDeliveries) :
          claimAndDeliver(abandonExpiredDeliveries, claimed)
    BY <1>4 DEF tick, tickFails
  <2> QED BY <2>1, Abandoning, Delivering
<1>5. CASE start \/ stop \/ ProcessEnds
  BY <1>5, Dropping DEF start, stop, ProcessEnds
<1> QED BY <1>1, <1>2, <1>3, <1>4, <1>5 DEF Next

\* At the start nothing is delivered.
LEMMA EntryInit == Init => EntryInv /\ DeliveriesWithinBound
<1> SUFFICES ASSUME Init PROVE EntryInv /\ DeliveriesWithinBound
  OBVIOUS
<1>1. EntryInv
  BY DEF Init, EntryInv
<1>2. Live = {}
  BY DEF Init, Live
<1> QED BY <1>1, <1>2, FS_EmptySet, ClockAssumption DEF DeliveriesWithinBound

\* The two facts, together.
LEMMA Entries == Spec => [](EntryInv /\ DeliveriesWithinBound)
<1>1. EntryInv /\ DeliveriesWithinBound /\ [Next]_vars => (EntryInv /\ DeliveriesWithinBound)'
  BY EntryStep
<1> QED BY <1>1, EntryInit, PTL DEF Spec

\* A session never has two handlers of its alarm at once: an abandoned delivery
\* keeps excluding its session.
THEOREM HandlersExclude == Spec => []OneHandlerPerSession
<1>1. EntryInv => OneHandlerPerSession
  BY DEF EntryInv, OneHandlerPerSession
<1> QED BY <1>1, Entries, PTL

\* No more deliveries count than the bound allows.
THEOREM BoundHolds == Spec => []DeliveriesWithinBound
BY Entries, PTL

-----------------------------------------------------------------------------
(***************************************************************************)
(* The type invariant: an index row has at most one armed deadline, and    *)
(* the rows that are due are in a strict order.                            *)
(***************************************************************************)
RowsOK ==
  /\ later \subseteq Sessions /\ due \subseteq Sessions
  /\ later \cap due = {} /\ IsOrder(sooner, due)
  /\ claim \in [Sessions -> {"none", "leased", "expired"}]

ClockOK ==
  /\ timer \subseteq {"deadline", "lease", "blind"}
  /\ mode \in {"stopped", "running", "draining"}

\* What stays due stays in order.
LEMMA FewerInOrder ==
  ASSUME IsOrder(sooner, due), NEW S \in SUBSET due
  PROVE  IsOrder(Among(S), S)
BY DEF IsOrder, Among

\* What falls due comes last.
LEMMA LastInOrder ==
  ASSUME IsOrder(sooner, due), NEW s, s \notin due
  PROVE  IsOrder(sooner \cup (due \X {s}), due \cup {s})
<1> DEFINE R == sooner \cup (due \X {s})
           S == due \cup {s}
<1>1. R \subseteq S \X S
  BY DEF IsOrder
<1>2. \A t \in S : <<t, t>> \notin R
  BY DEF IsOrder
<1>3. \A t, u \in S : t # u => <<t, u>> \in R \/ <<u, t>> \in R
  BY DEF IsOrder
<1>4. ASSUME NEW t \in S, NEW u \in S, NEW v \in S, <<t, u>> \in R, <<u, v>> \in R
      PROVE  <<t, v>> \in R
  <2>1. t \in due /\ u \in due /\ <<t, u>> \in sooner
    BY <1>4 DEF IsOrder
  <2>2. CASE v = s
    BY <2>1, <2>2
  <2>3. CASE v # s
    BY <1>4, <2>1, <2>3 DEF IsOrder
  <2> QED BY <2>2, <2>3
<1> QED BY <1>1, <1>2, <1>3, <1>4 DEF IsOrder

\* What is recovered comes first.
LEMMA FirstInOrder ==
  ASSUME IsOrder(sooner, due), NEW left, Recovered(left)
  PROVE  due' = left \cup due /\ IsOrder(sooner', due')
<1>1. PICK order \in SUBSET (left \X left) :
        /\ IsOrder(order, left)
        /\ sooner' = order \cup (left \X (due \ left)) \cup Among(due \ left)
  BY DEF Recovered
<1>2. due' = left \cup due
  BY DEF Recovered
<1> DEFINE rest == due \ left
           kept == Among(rest)
<1>3. IsOrder(kept, rest)
  BY FewerInOrder
<1>4. due' = left \cup rest /\ left \cap rest = {}
  BY <1>2
<1>5. sooner' = order \cup (left \X rest) \cup kept
  BY <1>1
<1> HIDE DEF rest, kept
<1>6. order \subseteq left \X left /\ kept \subseteq rest \X rest
  BY <1>1, <1>3 DEF IsOrder
<1>7. sooner' \subseteq due' \X due'
  BY <1>4, <1>5, <1>6
<1>8. \A t \in due' : <<t, t>> \notin sooner'
  BY <1>1, <1>3, <1>4, <1>5, <1>6 DEF IsOrder
<1>9. \A t, u \in due' : t # u => <<t, u>> \in sooner' \/ <<u, t>> \in sooner'
  BY <1>1, <1>3, <1>4, <1>5 DEF IsOrder
<1>10. ASSUME NEW t \in due', NEW u \in due', NEW v \in due',
              <<t, u>> \in sooner', <<u, v>> \in sooner'
       PROVE  <<t, v>> \in sooner'
  <2>1. CASE v \in left
    <3>1. <<u, v>> \in order /\ u \in left
      BY <1>4, <1>5, <1>6, <1>10, <2>1
    <3>2. <<t, u>> \in order /\ t \in left
      BY <1>4, <1>5, <1>6, <1>10, <3>1
    <3> QED BY <1>1, <1>5, <2>1, <3>1, <3>2 DEF IsOrder
  <2>2. CASE v \in rest /\ t \in left
    BY <1>5, <2>2
  <2>3. CASE v \in rest /\ t \in rest
    <3>1. <<t, u>> \in kept /\ u \in rest
      BY <1>4, <1>5, <1>6, <1>10, <2>3
    <3>2. <<u, v>> \in kept
      BY <1>4, <1>5, <1>6, <1>10, <3>1
    <3> QED BY <1>3, <1>5, <2>3, <3>1, <3>2 DEF IsOrder
  <2> QED BY <1>4, <2>1, <2>2, <2>3
<1> QED BY <1>2, <1>7, <1>8, <1>9, <1>10 DEF IsOrder

\* Delivering takes deadlines out of the rows and leases them.
LEMMA DeliveringRows ==
  ASSUME RowsOK, NEW entries, NEW claimed \in SUBSET Ready(entries),
         claimAndDeliver(entries, claimed), later' = later
  PROVE  RowsOK'
<1>1. IsOrder(sooner, due)' 
  BY FewerInOrder DEF RowsOK, claimAndDeliver
<1> QED BY <1>1 DEF RowsOK, claimAndDeliver, Ready

\* Every step keeps the rows.
LEMMA RowsStep ==
  ASSUME RowsOK, [Next]_vars
  PROVE  RowsOK'
<1>1. CASE UNCHANGED vars
  BY <1>1 DEF vars, rows, RowsOK
<1>2. ASSUME NEW s \in Sessions, setAlarm(s) PROVE RowsOK'
  BY <1>2 DEF setAlarm, RowsOK
<1>3. ASSUME NEW s \in Sessions, DeadlineElapses(s) PROVE RowsOK'
  <2>1. s \notin due
    BY <1>3 DEF DeadlineElapses, RowsOK
  <2>2. IsOrder(sooner', due')
    BY <1>3, <2>1, LastInOrder DEF DeadlineElapses, RowsOK
  <2> QED BY <1>3, <2>2 DEF DeadlineElapses, RowsOK
<1>4. ASSUME NEW s \in Sessions, LeaseRunsOut(s) PROVE RowsOK'
  BY <1>4 DEF LeaseRunsOut, RowsOK
<1>5. ASSUME NEW s \in Sessions, Settle(s) PROVE RowsOK'
  <2>1. UNCHANGED <<due, sooner>>
    BY <1>5 DEF Settle, complete, retry, settleFails, Settled
  <2>2. later' \subseteq Sessions /\ later' \cap due = {}
    BY <1>5 DEF Settle, complete, retry, settleFails, RowsOK
  <2>3. claim' \in [Sessions -> {"none", "leased", "expired"}]
    BY <1>5 DEF Settle, complete, retry, settleFails, RowsOK
  <2> QED BY <2>1, <2>2, <2>3 DEF RowsOK
<1>6. CASE tick \/ tickFails
  <2>1. PICK claimed \in SUBSET Ready(abandonExpiredDeliveries) :
          claimAndDeliver(abandonExpiredDeliveries, claimed)
    BY <1>6 DEF tick, tickFails
  <2>2. later' = later
    BY <1>6 DEF tick, tickFails
  <2> QED BY <2>1, <2>2, DeliveringRows
<1>7. CASE start
  <2> DEFINE left == {s \in Sessions : claim[s] # "none"}
  <2>1. Recovered(left) /\ later' = later \ left /\ claim' = [s \in Sessions |-> "none"]
    BY <1>7 DEF start
  <2>2. due' = left \cup due /\ IsOrder(sooner', due')
    BY <2>1, FirstInOrder DEF RowsOK
  <2> QED BY <2>1, <2>2 DEF RowsOK
<1>8. CASE stop \/ ProcessEnds
  BY <1>8 DEF stop, ProcessEnds, rows, RowsOK
<1> QED BY <1>1, <1>2, <1>3, <1>4, <1>5, <1>6, <1>7, <1>8 DEF Next

\* arm() sets a timer of the clock's kinds.
LEMMA ArmedTimer ==
  ASSUME arm \/ armNotBefore PROVE timer' \subseteq {"deadline", "lease", "blind"}
BY DEF arm, armNotBefore, Wakeups

\* Every step keeps the timer and the mode.
LEMMA ClockStep ==
  ASSUME ClockOK, [Next]_vars
  PROVE  ClockOK'
<1>1. CASE UNCHANGED vars
  BY <1>1 DEF vars, ClockOK
<1>2. ASSUME NEW s \in Sessions, setAlarm(s) \/ Settle(s) PROVE ClockOK'
  BY <1>2, ArmedTimer DEF setAlarm, Settle, complete, retry, settleFails, Settled, ClockOK
<1>3. ASSUME NEW s \in Sessions, DeadlineElapses(s) \/ LeaseRunsOut(s) PROVE ClockOK'
  BY <1>3 DEF DeadlineElapses, LeaseRunsOut, ClockOK
<1>4. CASE tick \/ tickFails
  BY <1>4, ArmedTimer DEF tick, tickFails, ClockOK
<1>5. CASE start
  BY <1>5, ArmedTimer DEF start, ClockOK
<1>6. CASE stop \/ ProcessEnds
  BY <1>6 DEF stop, ProcessEnds, ClockOK
<1> QED BY <1>1, <1>2, <1>3, <1>4, <1>5, <1>6 DEF Next

\* The type of every variable: no path arms a row twice, and recovering a claim
\* replaces what the row has armed.
THEOREM TypeCorrect == Spec => []TypeOK
<1>1. Init => RowsOK /\ ClockOK
  BY DEF Init, RowsOK, ClockOK, IsOrder
<1>2. RowsOK /\ ClockOK /\ [Next]_vars => (RowsOK /\ ClockOK)'
  BY RowsStep, ClockStep
<1>3. Spec => [](RowsOK /\ ClockOK)
  BY <1>1, <1>2, PTL DEF Spec
<1>4. RowsOK /\ ClockOK /\ EntryInv => TypeOK
  BY DEF RowsOK, ClockOK, EntryInv, TypeOK
<1> QED BY <1>3, <1>4, Entries, PTL

-----------------------------------------------------------------------------
\* After arm() the clock wakes for what is armed: a step that failed to arm leaves
\* the blind timer, and a wake-up that failed sets it in place of the deadline's.
LEMMA ArmingWakes ==
  ASSUME arm \/ armNotBefore PROVE WakesForArmedWork'
BY DEF arm, armNotBefore, Wakeups, WakesForArmedWork

\* A running clock below its bound has a wake-up for every armed session it is
\* not delivering to: whatever arms, settles, abandons, claims or recovers a row
\* ends in arm(), and time alone adds nothing that is armed.
THEOREM ArmedWorkWakes == Spec => []WakesForArmedWork
<1>1. Init => WakesForArmedWork
  BY DEF Init, WakesForArmedWork
<1>2. ASSUME WakesForArmedWork, [Next]_vars PROVE WakesForArmedWork'
  <2>1. CASE UNCHANGED vars
    BY <1>2, <2>1 DEF vars, rows, WakesForArmedWork, Live, Armed, InFlight
  <2>2. ASSUME NEW s \in Sessions, setAlarm(s) \/ Settle(s) PROVE WakesForArmedWork'
    BY <2>2, ArmingWakes DEF setAlarm, Settle, complete, retry, settleFails, Settled
  <2>3. ASSUME NEW s \in Sessions, DeadlineElapses(s) PROVE WakesForArmedWork'
    <3>1. UNCHANGED <<Armed, InFlight, Live, timer, mode>>
      BY <2>3 DEF DeadlineElapses, Armed, InFlight, Live
    <3> QED BY <1>2, <3>1 DEF WakesForArmedWork
  <2>4. ASSUME NEW s \in Sessions, LeaseRunsOut(s) PROVE WakesForArmedWork'
    <3>1. UNCHANGED <<Armed, InFlight, Live, timer, mode>>
      BY <2>4 DEF LeaseRunsOut, Armed, InFlight, Live
    <3> QED BY <1>2, <3>1 DEF WakesForArmedWork
  <2>5. CASE tick \/ tickFails \/ start
    BY <2>5, ArmingWakes DEF tick, tickFails, start
  <2>6. CASE stop \/ ProcessEnds
    BY <2>6 DEF stop, ProcessEnds, WakesForArmedWork
  <2> QED BY <1>2, <2>1, <2>2, <2>3, <2>4, <2>5, <2>6 DEF Next
<1> QED BY <1>1, <1>2, PTL DEF Spec
=============================================================================
