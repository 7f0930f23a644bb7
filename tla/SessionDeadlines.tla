-------------------------- MODULE SessionDeadlines --------------------------
(***************************************************************************)
(* The scheduled deadlines of the sessions of a Node host.  A deadline is  *)
(* written twice: the session commits it to its own file and then arms a   *)
(* row of the host's alarm index.  The host clock claims rows and delivers *)
(* them; at boot a marker says whether the session files have to be        *)
(* scanned for deadlines that a crash kept from the index.                 *)
(*                                                                         *)
(* Time is abstract: a row may fall due at any moment.  Deadlines are      *)
(* numbers only so that they can be compared; None stands for NULL.        *)
(***************************************************************************)
EXTENDS Naturals

CONSTANTS
  Sessions,
  MaxDeadline     \* bound: deadlines told apart

ASSUME DeadlineAssumption == MaxDeadline \in Nat

VARIABLES
  file,      \* session_alarm_state of each session file
  row,       \* row of each session in the alarm index
  delivery,  \* stage of the delivery this process makes to a session
  arming,    \* operations on a session's alarm that have yet to reach the index
  resident,  \* sessions whose runtime is open
  host,      \* "down", "starting", "up" or "draining"
  marker,    \* host-state.json: a clean stop, or no time to scan from
  written,   \* sessions whose file was written since the marker's time
  unread,    \* sessions whose file this boot could not read
  forgone,   \* sessions the host stopped retrying, or could not arm
  owed,      \* history: soonest wake-up requested since the last attempt
  tried      \* history: soonest wake-up attempted and not yet served

stores  == <<file, row, marker, written>>
process == <<delivery, arming, resident, host, unread>>
history == <<forgone, owed, tried>>
vars == <<stores, process, history>>

None == 0
Deadlines == 1..MaxDeadline
MaybeDeadline == 0..MaxDeadline

Sooner(a, b) == IF a = None \/ (b # None /\ b < a) THEN b ELSE a

earliest(s) == Sooner(file[s].pending, file[s].inFlight)

\* Arming never postpones what the index holds.
ArmIfSooner(r, d) == [r EXCEPT !.deadline = Sooner(@, d)]

\* The host serves requests from the start of the clock to the end of a drain.
Serving == host \in {"up", "draining"}

Arm(s, d) ==
  /\ row' = [row EXCEPT ![s] = ArmIfSooner(@, d)]
  /\ forgone' = IF d = None THEN forgone ELSE forgone \ {s}

-----------------------------------------------------------------------------
(***************************************************************************)
(* The session.                                                            *)
(***************************************************************************)

\* A request opens the session, which rehydrates its alarm in a task.
Activate(s) ==
  /\ Serving /\ s \notin resident
  /\ resident' = resident \cup {s}
  /\ arming' = [arming EXCEPT ![s] = {"rehydrate"}]
  /\ UNCHANGED <<stores, delivery, host, unread, history>>

\* schedule() and a stop's prepare() persist the deadline first.
Persist(s, d) ==
  /\ Serving /\ s \in resident
  /\ file' = [file EXCEPT ![s].pending = Sooner(@, d)]
  /\ written' = written \cup {s}
  /\ owed' = [owed EXCEPT ![s] = Sooner(@, d)]
  /\ arming' = [arming EXCEPT ![s] = @ \cup {"schedule"}]
  /\ UNCHANGED <<row, marker, delivery, resident, host, unread, forgone, tried>>

\* Mutant: a claimed row is read as armed, so nothing is armed under a claim.
ScheduleUnlessClaimed(s) ==
  /\ "schedule" \in arming[s]
  /\ arming' = [arming EXCEPT ![s] = @ \ {"schedule"}]
  /\ IF row[s].inFlight # None THEN UNCHANGED <<row, forgone>> ELSE Arm(s, file[s].pending)
  /\ UNCHANGED <<file, marker, written, delivery, resident, host, unread, owed, tried>>

\* schedule(), once the deadline is persisted.
schedule(s) ==
  /\ "schedule" \in arming[s]
  /\ arming' = [arming EXCEPT ![s] = @ \ {"schedule"}]
  /\ Arm(s, file[s].pending)
  /\ UNCHANGED <<file, marker, written, delivery, resident, host, unread, owed, tried>>

rehydrate(s) ==
  /\ "rehydrate" \in arming[s]
  /\ arming' = [arming EXCEPT ![s] = @ \ {"rehydrate"}]
  /\ Arm(s, earliest(s))
  /\ unread' = unread \ {s}
  /\ UNCHANGED <<file, marker, written, delivery, resident, host, owed, tried>>

\* The index cannot be written: the operation rejects, the file keeps the
\* deadline.
ArmFails(s) ==
  /\ arming[s] # {}
  /\ \E op \in arming[s] : arming' = [arming EXCEPT ![s] = @ \ {op}]
  /\ forgone' = forgone \cup {s}
  /\ UNCHANGED <<stores, delivery, resident, host, unread, owed, tried>>

\* The idle sweep, and room made for another session.
retire(s) ==
  /\ Serving /\ s \in resident
  /\ arming[s] = {} /\ delivery[s] \in {"none", "claimed", "served"}
  /\ resident' = resident \ {s}
  /\ UNCHANGED <<stores, delivery, arming, host, unread, history>>

-----------------------------------------------------------------------------
(***************************************************************************)
(* A delivery.                                                             *)
(***************************************************************************)

claim(s) ==
  /\ host = "up" /\ delivery[s] = "none" /\ row[s].deadline # None
  /\ row' = [row EXCEPT ![s] = [deadline |-> None, inFlight |-> @.deadline]]
  /\ delivery' = [delivery EXCEPT ![s] = "claimed"]
  /\ tried' = [tried EXCEPT ![s] = Sooner(@, owed[s])]
  /\ owed' = [owed EXCEPT ![s] = None]
  /\ forgone' = forgone \ {s}
  /\ UNCHANGED <<file, marker, written, arming, resident, host, unread>>

\* Mutant: a retry takes the pending deadline over the one in flight.
BeginAfresh(s) ==
  /\ delivery[s] = "claimed"
  /\ resident' = resident \cup {s}
  /\ file' = [file EXCEPT ![s] = [pending |-> None, inFlight |-> @.pending]]
  /\ written' = written \cup {s}
  /\ delivery' = [delivery EXCEPT ![s] = "handling"]
  /\ tried' = [tried EXCEPT ![s] = Sooner(@, owed[s])]
  /\ owed' = [owed EXCEPT ![s] = None]
  /\ UNCHANGED <<row, marker, arming, host, unread, forgone>>

\* The delivery opens the session, without rehydrating, and takes the pending
\* deadline in flight unless a failed delivery left one there.
beginDelivery(s) ==
  /\ delivery[s] = "claimed"
  /\ resident' = resident \cup {s}
  /\ file' = [file EXCEPT ![s] =
       IF @.inFlight # None THEN @ ELSE [pending |-> None, inFlight |-> @.pending]]
  /\ written' = written \cup {s}
  /\ delivery' = [delivery EXCEPT ![s] = "handling"]
  /\ IF file[s].inFlight # None THEN UNCHANGED <<owed, tried>>
     ELSE /\ tried' = [tried EXCEPT ![s] = Sooner(@, owed[s])]
          /\ owed' = [owed EXCEPT ![s] = None]
  /\ UNCHANGED <<row, marker, arming, host, unread, forgone>>

\* The handler succeeded: what was armed under it is armed again, then the
\* deadline in flight is acknowledged.
completeDelivery(s) ==
  /\ delivery[s] = "handling"
  /\ IF file[s].inFlight = None THEN UNCHANGED <<file, row, forgone>>
     ELSE /\ Arm(s, file[s].pending)
          /\ file' = [file EXCEPT ![s].inFlight = None]
  /\ written' = written \cup {s}
  /\ delivery' = [delivery EXCEPT ![s] = "served"]
  /\ tried' = [tried EXCEPT ![s] = None]
  /\ UNCHANGED <<marker, arming, resident, host, unread, owed>>

complete(s) ==
  /\ delivery[s] = "served"
  /\ row' = [row EXCEPT ![s].inFlight = None]
  /\ delivery' = [delivery EXCEPT ![s] = "none"]
  /\ UNCHANGED <<file, marker, written, arming, resident, host, unread, history>>

\* Mutant: a retry replaces the deadline that the handler armed.
RetryLater(s) ==
  /\ delivery[s] # "none"
  /\ \E at \in Deadlines : row' = [row EXCEPT ![s] = [deadline |-> at, inFlight |-> None]]
  /\ delivery' = [delivery EXCEPT ![s] = "none"]
  /\ UNCHANGED <<file, marker, written, arming, resident, host, unread, history>>

\* Opening the session, its handler or the index's completion failed: armed
\* again after a backoff, sooner if the handler armed something sooner.
retry(s) ==
  /\ delivery[s] # "none"
  /\ \E at \in Deadlines :
       row' = [row EXCEPT ![s] = [deadline |-> Sooner(@.deadline, at), inFlight |-> None]]
  /\ delivery' = [delivery EXCEPT ![s] = "none"]
  /\ UNCHANGED <<file, marker, written, arming, resident, host, unread, history>>

\* The last attempt failed: the host stops retrying, the file keeps the deadline.
giveUp(s) ==
  /\ delivery[s] # "none"
  /\ row' = [row EXCEPT ![s].inFlight = None]
  /\ delivery' = [delivery EXCEPT ![s] = "none"]
  /\ forgone' = IF row[s].deadline = None THEN forgone \cup {s} ELSE forgone
  /\ UNCHANGED <<file, marker, written, arming, resident, host, unread, owed, tried>>

\* The index cannot be written: the claim stays until the next boot.
settleFails(s) ==
  /\ delivery[s] # "none"
  /\ delivery' = [delivery EXCEPT ![s] = "none"]
  /\ UNCHANGED <<stores, arming, resident, host, unread, history>>

-----------------------------------------------------------------------------
(***************************************************************************)
(* The host.                                                               *)
(***************************************************************************)

ProcessGone ==
  /\ host' = "down"
  /\ delivery' = [s \in Sessions |-> "none"]
  /\ arming' = [s \in Sessions |-> {}]
  /\ resident' = {} /\ unread' = {}

\* A crash, or a drain that abandoned work: no clean marker is written.
crash ==
  /\ host # "down"
  /\ ProcessGone
  /\ UNCHANGED <<stores, history>>

drain ==
  /\ host = "up" /\ host' = "draining"
  /\ UNCHANGED <<stores, delivery, arming, resident, unread, history>>

\* Mutant: a clean stop does not look at what the boot could not read.
MarkCleanAnyway ==
  /\ host = "draining"
  /\ \A s \in Sessions : delivery[s] = "none" /\ arming[s] = {}
  /\ ProcessGone
  /\ marker' = [clean |-> TRUE, scanAll |-> FALSE] /\ written' = {}
  /\ UNCHANGED <<file, row, history>>

\* A drain that abandoned nothing.
markCleanShutdown ==
  /\ host = "draining"
  /\ \A s \in Sessions : delivery[s] = "none" /\ arming[s] = {}
  /\ ProcessGone
  /\ IF marker.scanAll THEN UNCHANGED <<marker, written>>
     ELSE marker' = [marker EXCEPT !.clean = TRUE] /\ written' = {}
  /\ UNCHANGED <<file, row, history>>

Scanned == IF marker.clean THEN {} ELSE IF marker.scanAll THEN Sessions ELSE written

\* The files that are read have their soonest deadline armed.
ScanFiles(files) ==
  /\ row' = [s \in Sessions |-> IF s \in files THEN ArmIfSooner(row[s], earliest(s)) ELSE row[s]]
  /\ forgone' = forgone \ files

\* The process dies in its scan, before it writes the marker.
scanSessionFiles ==
  /\ host = "down"
  /\ \E files \in SUBSET Scanned : ScanFiles(files)
  /\ UNCHANGED <<file, marker, written, process, owed, tried>>

\* Read the marker, scan unless the stop was clean, then move the marker, but
\* back to the beginning if some file could not be read.
recoverSessionDeadlines ==
  /\ host = "down" /\ host' = "starting"
  /\ \E skipped \in SUBSET (IF marker.clean THEN {} ELSE Sessions) :
       /\ unread' = skipped /\ ScanFiles(Scanned \ skipped)
       /\ IF marker.clean THEN marker' = [marker EXCEPT !.clean = FALSE] /\ UNCHANGED written
          ELSE IF skipped = {} THEN marker' = [marker EXCEPT !.scanAll = FALSE] /\ written' = {}
          ELSE marker' = [marker EXCEPT !.scanAll = TRUE] /\ UNCHANGED written
  /\ UNCHANGED <<file, delivery, arming, resident, owed, tried>>

\* A claim left by a process that is gone is armed again.
recoverForeignClaims(r) ==
  IF r.inFlight = None THEN r
  ELSE [deadline |-> Sooner(r.deadline, r.inFlight), inFlight |-> None]

\* The clock starts.
start ==
  /\ host = "starting" /\ host' = "up"
  /\ row' = [s \in Sessions |-> recoverForeignClaims(row[s])]
  /\ UNCHANGED <<file, marker, written, delivery, arming, resident, unread, history>>

-----------------------------------------------------------------------------
\* A fresh volume: no marker, no files, an empty index.
Init ==
  /\ file = [s \in Sessions |-> [pending |-> None, inFlight |-> None]]
  /\ row = [s \in Sessions |-> [deadline |-> None, inFlight |-> None]]
  /\ delivery = [s \in Sessions |-> "none"]
  /\ arming = [s \in Sessions |-> {}]
  /\ resident = {} /\ host = "down" /\ unread = {}
  /\ marker = [clean |-> FALSE, scanAll |-> TRUE] /\ written = {}
  /\ forgone = {}
  /\ owed = [s \in Sessions |-> None] /\ tried = [s \in Sessions |-> None]

Session(s) ==
  \/ Activate(s) \/ (\E d \in Deadlines : Persist(s, d))
  \/ schedule(s) \/ rehydrate(s) \/ ArmFails(s) \/ retire(s)

Delivery(s) ==
  \/ claim(s) \/ beginDelivery(s) \/ completeDelivery(s) \/ complete(s)
  \/ retry(s) \/ giveUp(s) \/ settleFails(s)

Next ==
  \/ \E s \in Sessions : Session(s) \/ Delivery(s)
  \/ crash \/ drain \/ markCleanShutdown
  \/ scanSessionFiles \/ recoverSessionDeadlines \/ start

Spec == Init /\ [][Next]_vars

\* The clock claims what is armed, handlers return, tasks run on.
Fairness ==
  \A s \in Sessions :
    /\ WF_vars(claim(s)) /\ WF_vars(schedule(s) \/ ArmFails(s)) /\ WF_vars(rehydrate(s))
    /\ WF_vars(Delivery(s) /\ delivery[s] # "none")

FairSpec == Spec /\ Fairness

-----------------------------------------------------------------------------
\* The type of every variable.
TypeOK ==
  /\ file \in [Sessions -> [pending : MaybeDeadline, inFlight : MaybeDeadline]]
  /\ row \in [Sessions -> [deadline : MaybeDeadline, inFlight : MaybeDeadline]]
  /\ delivery \in [Sessions -> {"none", "claimed", "handling", "served"}]
  /\ arming \in [Sessions -> SUBSET {"schedule", "rehydrate"}]
  /\ resident \subseteq Sessions /\ host \in {"down", "starting", "up", "draining"}
  /\ marker \in [clean : BOOLEAN, scanAll : BOOLEAN]
  /\ written \subseteq Sessions /\ unread \subseteq Sessions /\ forgone \subseteq Sessions
  /\ owed \in [Sessions -> MaybeDeadline] /\ tried \in [Sessions -> MaybeDeadline]

\* d is covered by e: e is a wake-up no later than d.
Covers(e, d) == d # None => e # None /\ e <= d

\* A requested wake-up is in the session file until a handler that started
\* after the request has succeeded: retries, crashes and what a handler arms
\* while it runs lose nothing.
OwedIsPersisted ==
  \A s \in Sessions : Covers(file[s].pending, owed[s]) /\ Covers(earliest(s), tried[s])

Armed(s) == row[s].deadline # None \/ row[s].inFlight # None

\* The next boot reads the session's file.
InNextScan(s) == ~marker.clean /\ (marker.scanAll \/ s \in written)

\* A requested wake-up is in the index, or about to be written to it, or will
\* be found by the next boot's scan; whatever step of the two writes, of a
\* delivery, of a shutdown or of a boot a crash interrupts.
NothingOutOfReach ==
  \A s \in Sessions :
    (owed[s] # None \/ tried[s] # None) /\ s \notin forgone => Armed(s) \/ InNextScan(s)

\* In a host that is up, a requested wake-up is armed no later than requested,
\* but for files the boot could not read and writes the index refused.
ArmedInTime ==
  \A s \in Sessions :
    host = "up" /\ owed[s] # None /\ arming[s] = {} /\ s \notin unread \cup forgone
      => Covers(row[s].deadline, owed[s])

\* A host that stays up attempts every requested wake-up, but for files it
\* could not read at boot and writes the index refused.
WakeUpIsAttempted ==
  <>[](host = "up") =>
    \A s \in Sessions :
      [](owed[s] # None => <>(owed[s] = None \/ s \in unread \cup forgone))
=============================================================================
