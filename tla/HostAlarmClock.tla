--------------------------- MODULE HostAlarmClock ---------------------------
(***************************************************************************)
(* The alarm clock of a Node host: one timer over the alarm index, claims  *)
(* held as leases, deliveries running concurrently up to a bound.  Here    *)
(* are the wake-ups of one process and what a handler that never returns,  *)
(* an index that fails or a restart does to them; SessionDeadlines has the *)
(* deadlines themselves.                                                   *)
(*                                                                         *)
(* Time is abstract: a deadline falls due, a lease runs out and a timer    *)
(* that is due fires at any moment.  Any failure may be a delivery's last. *)
(***************************************************************************)
EXTENDS Naturals, FiniteSets

CONSTANTS
  Sessions,
  MaxConcurrent      \* maxConcurrentDeliveries

ASSUME ClockAssumption == IsFiniteSet(Sessions) /\ MaxConcurrent \in Nat \ {0}

VARIABLES
  later,     \* sessions with an armed deadline that is not due
  due,       \* sessions with an armed deadline that is
  sooner,    \* of those that are due: whose deadline comes before whose
  claim,     \* the claim on a session's row: "none", leased, or past its lease
  delivery,  \* inFlight: "none", "live" or "abandoned"
  handlers,  \* history: handlers of a session running in this process
  timer,     \* what the timer wakes for; no timer if empty
  mode       \* "stopped", "running" or "draining"

rows == <<later, due, sooner, claim>>
vars == <<rows, delivery, handlers, timer, mode>>

Alive == mode # "stopped"
Armed == later \cup due
InFlight == {s \in Sessions : delivery[s] # "none"}
Live == {s \in Sessions : delivery[s] = "live"}
Among(S) == sooner \cap (S \X S)

-----------------------------------------------------------------------------
\* The soonest lease is watched only while it is still to come, the soonest
\* deadline only below the bound.
Wakeups ==
  {w \in {"lease", "deadline"} :
     /\ mode = "running"
     /\ w = "lease" => /\ \E s \in Sessions : claim[s] = "leased"
                      /\ \A s \in Sessions : claim[s] # "expired"
     /\ w = "deadline" => Cardinality(Live) < MaxConcurrent /\ Armed \ InFlight # {}}

\* arm(), after the step: an index that cannot be read is tried again blindly.
arm == timer' = Wakeups' \/ (mode' = "running" /\ timer' = {"blind"})

\* Mutant: a wake-up that failed is not tried again.
ArmLeaseOnly == timer' = Wakeups' \cap {"lease"}

\* arm(notBefore): a lease to come is waited for; a deadline waits its turn.
armNotBefore ==
  \/ timer' = IF Wakeups' = {"lease"} THEN {"lease"} ELSE (Wakeups' \ {"deadline"}) \cup {"blind"}
  \/ timer' = {"blind"}

TimerFires ==
  \/ "blind" \in timer
  \/ "deadline" \in timer /\ due \ InFlight # {}
  \/ "lease" \in timer /\ \E s \in Sessions : claim[s] = "expired"

-----------------------------------------------------------------------------
\* A session arms its alarm, or brings it forward.
setAlarm(s) ==
  /\ mode \in {"running", "draining"} /\ s \notin due
  /\ later' = later \cup {s}
  /\ UNCHANGED <<due, sooner, claim, delivery, handlers, mode>>
  /\ arm

\* Time passes.
DeadlineElapses(s) ==
  /\ s \in later
  /\ later' = later \ {s} /\ due' = due \cup {s}
  /\ sooner' = sooner \cup (due \X {s})
  /\ UNCHANGED <<claim, delivery, handlers, timer, mode>>

LeaseRunsOut(s) ==
  /\ claim[s] = "leased"
  /\ claim' = [claim EXCEPT ![s] = "expired"]
  /\ UNCHANGED <<later, due, sooner, delivery, handlers, timer, mode>>

\* Mutant: an abandoned delivery is forgotten.
ForgetExpiredDeliveries ==
  [s \in Sessions |-> IF delivery[s] = "live" /\ claim[s] = "expired"
                      THEN "none" ELSE delivery[s]]

\* A delivery past its lease stops counting, and keeps its session excluded.
abandonExpiredDeliveries ==
  [s \in Sessions |-> IF delivery[s] = "live" /\ claim[s] = "expired"
                      THEN "abandoned" ELSE delivery[s]]

\* Mutant: the bound is on one wake-up's claims.
CapacityPerTick(entries) == MaxConcurrent

Capacity(entries) == MaxConcurrent - Cardinality({s \in Sessions : entries[s] = "live"})

Ready(entries) == {s \in Sessions : s \in due /\ entries[s] = "none"}

\* The sessions delivered to: overdue, not in flight, soonest first, up to the
\* bound.
claimAndDeliver(entries, claimed) ==
  /\ Cardinality(claimed) <= Capacity(entries)
  /\ \A s \in claimed, t \in Ready(entries) \ claimed : <<s, t>> \in sooner
  /\ due' = due \ claimed /\ sooner' = Among(due \ claimed)
  /\ claim' = [s \in Sessions |-> IF s \in claimed THEN "leased" ELSE claim[s]]
  /\ delivery' = [s \in Sessions |-> IF s \in claimed THEN "live" ELSE entries[s]]
  /\ handlers' = [s \in Sessions |-> IF s \in claimed THEN handlers[s] + 1 ELSE handlers[s]]

\* One wake-up.
tick ==
  /\ TimerFires
  /\ \E claimed \in SUBSET Ready(abandonExpiredDeliveries) :
       /\ \/ claimed = Ready(abandonExpiredDeliveries)
          \/ Cardinality(claimed) = Capacity(abandonExpiredDeliveries)
       /\ claimAndDeliver(abandonExpiredDeliveries, claimed)
  /\ UNCHANGED <<later, mode>>
  /\ arm

\* The index fails in the middle of a wake-up; at capacity it is not read.
tickFails ==
  /\ TimerFires /\ Capacity(abandonExpiredDeliveries) > 0
  /\ \E claimed \in SUBSET Ready(abandonExpiredDeliveries) :
       /\ \/ claimed = {}
          \/ /\ claimed # Ready(abandonExpiredDeliveries)
             /\ Cardinality(claimed) < Capacity(abandonExpiredDeliveries)
       /\ claimAndDeliver(abandonExpiredDeliveries, claimed)
  /\ UNCHANGED <<later, mode>>
  /\ armNotBefore

\* Mutant: only a delivery that still counts arms the timer again.
SettledLive(s) ==
  /\ Alive /\ delivery[s] # "none"
  /\ delivery' = [delivery EXCEPT ![s] = "none"]
  /\ handlers' = [handlers EXCEPT ![s] = @ - 1]
  /\ UNCHANGED <<due, sooner, mode>>
  /\ IF delivery[s] = "live" THEN arm ELSE UNCHANGED timer

\* A delivery that has settled: its entry goes and the timer is armed.
Settled(s) ==
  /\ Alive /\ delivery[s] # "none"
  /\ delivery' = [delivery EXCEPT ![s] = "none"]
  /\ handlers' = [handlers EXCEPT ![s] = @ - 1]
  /\ UNCHANGED <<due, sooner, mode>>
  /\ arm

\* The handler succeeded, or failed for the last time.
complete(s) ==
  /\ claim' = [claim EXCEPT ![s] = "none"] /\ UNCHANGED later
  /\ Settled(s)

\* It is tried again later, sooner if something sooner is armed.
retry(s) ==
  /\ claim' = [claim EXCEPT ![s] = "none"]
  /\ later' = IF s \in due THEN later ELSE later \cup {s}
  /\ Settled(s)

\* The index cannot be written: the claim stays.
settleFails(s) ==
  /\ UNCHANGED <<later, claim>>
  /\ Settled(s)

-----------------------------------------------------------------------------
\* The strict orders of the sessions in S.
IsOrder(R, S) ==
  /\ R \subseteq S \X S
  /\ \A s \in S : <<s, s>> \notin R
  /\ \A s, t \in S : s # t => <<s, t>> \in R \/ <<t, s>> \in R
  /\ \A s, t, u \in S : <<s, t>> \in R /\ <<t, u>> \in R => <<s, u>> \in R

\* What was claimed is past due longest.
Recovered(left) ==
  /\ due' = left \cup due
  /\ \E order \in SUBSET (left \X left) :
       /\ IsOrder(order, left)
       /\ sooner' = order \cup (left \X (due \ left)) \cup Among(due \ left)

\* The process starts, and arms again what a process that is gone had claimed.
start ==
  /\ mode = "stopped" /\ mode' = "running"
  /\ LET left == {s \in Sessions : claim[s] # "none"}
     IN  Recovered(left) /\ later' = later \ left
  /\ claim' = [s \in Sessions |-> "none"]
  /\ UNCHANGED <<delivery, handlers>>
  /\ arm

\* The clock stops and its deliveries are waited for.
stop ==
  /\ mode = "running" /\ mode' = "draining"
  /\ timer' = {}
  /\ UNCHANGED <<rows, delivery, handlers>>

\* The process ends, by a crash or after its drain.
ProcessEnds ==
  /\ Alive /\ mode' = "stopped"
  /\ delivery' = [s \in Sessions |-> "none"]
  /\ handlers' = [s \in Sessions |-> 0]
  /\ timer' = {}
  /\ UNCHANGED rows

-----------------------------------------------------------------------------
Init ==
  /\ later = {} /\ due = {} /\ sooner = {}
  /\ claim = [s \in Sessions |-> "none"]
  /\ delivery = [s \in Sessions |-> "none"]
  /\ handlers = [s \in Sessions |-> 0]
  /\ timer = {} /\ mode = "stopped"

Settle(s) == complete(s) \/ retry(s) \/ settleFails(s)

Next ==
  \/ \E s \in Sessions : setAlarm(s) \/ DeadlineElapses(s) \/ LeaseRunsOut(s) \/ Settle(s)
  \/ tick \/ tickFails
  \/ start \/ stop \/ ProcessEnds

Spec == Init /\ [][Next]_vars

\* Time passes, timers fire, and the index does not fail for ever.
ClockFairness ==
  /\ SF_vars(tick)
  /\ \A s \in Sessions : WF_vars(DeadlineElapses(s)) /\ WF_vars(LeaseRunsOut(s))

\* Handlers may never return.
ClockSpec == Spec /\ ClockFairness

\* Every handler returns.
FairSpec == ClockSpec /\ \A s \in Sessions : WF_vars(Settle(s))

-----------------------------------------------------------------------------
\* The type of every variable; a row holds at most one armed deadline, and of two
\* that are due one comes first.
TypeOK ==
  /\ later \subseteq Sessions /\ due \subseteq Sessions
  /\ later \cap due = {} /\ IsOrder(sooner, due)
  /\ claim \in [Sessions -> {"none", "leased", "expired"}]
  /\ delivery \in [Sessions -> {"none", "live", "abandoned"}]
  /\ handlers \in [Sessions -> Nat]
  /\ timer \subseteq {"deadline", "lease", "blind"}
  /\ mode \in {"stopped", "running", "draining"}

\* A session never has two handlers of its alarm at once, though its delivery
\* outlives the lease, is abandoned and its next deadline falls due.
OneHandlerPerSession == \A s \in Sessions : handlers[s] <= 1

\* No more deliveries count than the bound allows, whatever the number of
\* handlers that never returned.
DeliveriesWithinBound == Cardinality(Live) <= MaxConcurrent

\* A running clock below its bound has a wake-up for every armed session it is
\* not delivering to, after every path that arms, settles, abandons or fails.
WakesForArmedWork ==
  mode = "running" /\ Cardinality(Live) < MaxConcurrent /\ Armed \ InFlight # {}
    => timer \cap {"deadline", "blind"} # {}

\* With handlers that return, a deadline that is due is claimed.
DueIsClaimed == \A s \in Sessions : s \in due ~> s \notin due \/ mode # "running"

\* host-alarm-clock.ts, on leases: one handler that never returns cannot narrow
\* the clock for every other session.
HungHandlerLeavesOthers ==
  \A s \in Sessions : s \in due \ InFlight ~> s \notin due \ InFlight \/ mode # "running"
=============================================================================
