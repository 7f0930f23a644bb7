----------------------- MODULE SessionDeadlinesProofs -----------------------
(***************************************************************************)
(* Theorems about SessionDeadlines, for every number of sessions and of    *)
(* deadlines.  SessionInv says which store vouches for a session's         *)
(* wake-ups at each stage of a delivery, of a shutdown and of a boot;      *)
(* HostInv adds what the marker means while the host is up.  A step of one *)
(* session leaves the others' stores alone, so each action is proved for   *)
(* its own session only.                                                   *)
(***************************************************************************)
EXTENDS SessionDeadlines, TLAPS

-----------------------------------------------------------------------------
(***************************************************************************)
(* The invariant.                                                          *)
(***************************************************************************)
Wanted(s) == (owed[s] # None \/ tried[s] # None) /\ s \notin forgone

\* OwedIsPersisted and NothingOutOfReach, of one session.
Persisted(s) == Covers(file[s].pending, owed[s]) /\ Covers(earliest(s), tried[s])
InReach(s) == Wanted(s) => Armed(s) \/ InNextScan(s)

\* While a delivery runs its claim stays in the index and its file has been
\* written; what is requested meanwhile is armed, or about to be.
DeliveryInv(s) ==
  /\ delivery[s] # "none" => row[s].inFlight # None
  /\ delivery[s] \in {"handling", "served"} => s \in written
  /\ delivery[s] = "served" => tried[s] = None
  /\ delivery[s] # "none" /\ owed[s] # None /\ s \notin forgone
       => row[s].deadline # None \/ arming[s] # {}

\* Between deliveries the index holds what the file does, unless an operation
\* is about to write it or the boot left files unread.
RestInv(s) ==
  host # "down" /\ delivery[s] = "none" /\ Wanted(s) =>
    \/ Armed(s) \/ marker.scanAll
    \/ owed[s] # None /\ arming[s] # {}

\* The index covers a request, or the operation that made it is about to write
\* the index, or the next boot reads the file.
Timely(s) ==
  owed[s] # None /\ s \notin unread \cup forgone =>
    \/ "schedule" \in arming[s] /\ s \in written
    \/ Covers(row[s].deadline, owed[s])
    \/ host = "down" /\ InNextScan(s)
    \/ ~Serving /\ Covers(row[s].inFlight, owed[s])

\* Only an open session arms.
ArmsWhileOpen(s) == arming[s] # {} => s \in resident

SessionInv(s) ==
  /\ Persisted(s) /\ InReach(s) /\ DeliveryInv(s) /\ RestInv(s) /\ Timely(s)
  /\ ArmsWhileOpen(s)

HostInv ==
  /\ host # "down" => ~marker.clean
  /\ unread # {} => host # "down" /\ marker.scanAll
  /\ ~Serving => \A s \in Sessions : delivery[s] = "none" /\ arming[s] = {}

IInv == TypeOK /\ HostInv /\ \A s \in Sessions : SessionInv(s)

-----------------------------------------------------------------------------
(***************************************************************************)
(* Deadlines.                                                              *)
(***************************************************************************)
\* The sooner of two deadlines is a deadline, and covers what either covers.
LEMMA SoonerCovers ==
  ASSUME NEW a \in MaybeDeadline, NEW b \in MaybeDeadline, NEW c \in MaybeDeadline
  PROVE  /\ Sooner(a, b) \in MaybeDeadline
         /\ Sooner(a, b) = None <=> a = None /\ b = None
         /\ Covers(a, c) \/ Covers(b, c) => Covers(Sooner(a, b), c)
         /\ c # None /\ Covers(Sooner(a, b), c) => Covers(a, c) \/ Covers(b, c)
BY DeadlineAssumption DEF MaybeDeadline, Sooner, Covers, None

\* What covers two deadlines covers the sooner of them.
LEMMA CoversSooner ==
  ASSUME NEW a \in MaybeDeadline, NEW b \in MaybeDeadline, NEW c \in MaybeDeadline,
         Covers(c, a), Covers(c, b)
  PROVE  Covers(c, Sooner(a, b))
BY DeadlineAssumption DEF MaybeDeadline, Sooner, Covers, None

\* The empty deadline covers only itself, and every deadline covers it.
LEMMA CoversNone ==
  ASSUME NEW a \in MaybeDeadline
  PROVE  Covers(a, None) /\ Covers(a, a) /\ (Covers(None, a) => a = None)
BY DeadlineAssumption DEF MaybeDeadline, Covers, None

\* Zero is a MaybeDeadline, and so is every deadline.
LEMMA DeadlineTypes ==
  None \in MaybeDeadline /\ Deadlines \subseteq MaybeDeadline /\ None \notin Deadlines
BY DeadlineAssumption DEF MaybeDeadline, Deadlines, None

-----------------------------------------------------------------------------
(***************************************************************************)
(* Types.                                                                  *)
(***************************************************************************)
\* A session's own types, with the records taken apart.
LEMMA SessionTypes ==
  ASSUME TypeOK, NEW s \in Sessions
  PROVE  /\ file[s].pending \in MaybeDeadline /\ file[s].inFlight \in MaybeDeadline
         /\ row[s].deadline \in MaybeDeadline /\ row[s].inFlight \in MaybeDeadline
         /\ owed[s] \in MaybeDeadline /\ tried[s] \in MaybeDeadline
         /\ earliest(s) \in MaybeDeadline
BY SoonerCovers DEF TypeOK, earliest

\* Arming a row keeps its type.
LEMMA ArmTypes ==
  ASSUME TypeOK, NEW s \in Sessions, NEW d \in MaybeDeadline, Arm(s, d)
  PROVE  /\ row' \in [Sessions -> [deadline : MaybeDeadline, inFlight : MaybeDeadline]]
         /\ forgone' \subseteq Sessions
<1>1. ArmIfSooner(row[s], d) \in [deadline : MaybeDeadline, inFlight : MaybeDeadline]
  BY SoonerCovers DEF TypeOK, ArmIfSooner
<1> QED BY <1>1 DEF TypeOK, Arm

\* The steps a session takes on its own account keep every type.
LEMMA SessionTypeStep ==
  ASSUME TypeOK, NEW s \in Sessions, Session(s)
  PROVE  TypeOK'
<1> USE DeadlineTypes
<1>1. CASE Activate(s)
  BY <1>1 DEF TypeOK, Activate, stores, history
<1>2. CASE \E d \in Deadlines : Persist(s, d)
  <2>1. PICK d \in Deadlines : Persist(s, d)
    BY <1>2
  <2>2. Sooner(file[s].pending, d) \in MaybeDeadline /\ Sooner(owed[s], d) \in MaybeDeadline
    BY SoonerCovers, SessionTypes
  <2> QED BY <2>1, <2>2 DEF TypeOK, Persist
<1>3. CASE schedule(s)
  BY <1>3, ArmTypes, SessionTypes DEF TypeOK, schedule
<1>4. CASE rehydrate(s)
  BY <1>4, ArmTypes, SessionTypes DEF TypeOK, rehydrate
<1>5. CASE ArmFails(s)
  BY <1>5 DEF TypeOK, ArmFails, stores
<1>6. CASE retire(s)
  BY <1>6 DEF TypeOK, retire, stores, history
<1> QED BY <1>1, <1>2, <1>3, <1>4, <1>5, <1>6 DEF Session

\* The steps of a delivery keep every type.
LEMMA DeliveryTypeStep ==
  ASSUME TypeOK, NEW s \in Sessions, Delivery(s)
  PROVE  TypeOK'
<1> USE DeadlineTypes
<1>a. Sooner(tried[s], owed[s]) \in MaybeDeadline
  BY SoonerCovers, SessionTypes
<1>1. CASE claim(s)
  BY <1>1, <1>a, SessionTypes DEF TypeOK, claim
<1>2. CASE beginDelivery(s)
  <2>1. CASE file[s].inFlight # None
    BY <1>2, <2>1 DEF TypeOK, beginDelivery
  <2>2. CASE file[s].inFlight = None
    <3>1. file' = [file EXCEPT ![s] = [pending |-> None, inFlight |-> file[s].pending]]
      BY <1>2, <2>2 DEF beginDelivery
    <3>2. file' \in [Sessions -> [pending : MaybeDeadline, inFlight : MaybeDeadline]]
      BY <3>1, SessionTypes DEF TypeOK
    <3>3. /\ owed' = [owed EXCEPT ![s] = None]
          /\ tried' = [tried EXCEPT ![s] = Sooner(tried[s], owed[s])]
          /\ delivery' = [delivery EXCEPT ![s] = "handling"]
      BY <1>2, <2>2 DEF beginDelivery
    <3>4. resident' \subseteq Sessions /\ written' \subseteq Sessions
      BY <1>2 DEF TypeOK, beginDelivery
    <3>5. UNCHANGED <<row, marker, arming, host, unread, forgone>>
      BY <1>2 DEF beginDelivery
    <3> QED BY <1>a, <3>2, <3>3, <3>4, <3>5 DEF TypeOK
  <2> QED BY <2>1, <2>2
<1>3. CASE completeDelivery(s)
  <2>1. CASE file[s].inFlight = None
    BY <1>3, <2>1 DEF TypeOK, completeDelivery
  <2>2. CASE file[s].inFlight # None
    <3>1. file' = [file EXCEPT ![s].inFlight = None] /\ Arm(s, file[s].pending)
      BY <1>3, <2>2 DEF completeDelivery
    <3>2. file' \in [Sessions -> [pending : MaybeDeadline, inFlight : MaybeDeadline]]
      BY <3>1 DEF TypeOK
    <3> QED BY <1>3, <3>1, <3>2, ArmTypes, SessionTypes DEF TypeOK, completeDelivery
  <2> QED BY <2>1, <2>2
<1>4. CASE complete(s)
  BY <1>4 DEF TypeOK, complete, history
<1>5. CASE retry(s)
  <2>1. PICK at \in Deadlines :
          row' = [row EXCEPT ![s] = [deadline |-> Sooner(@.deadline, at), inFlight |-> None]]
    BY <1>5 DEF retry
  <2>2. Sooner(row[s].deadline, at) \in MaybeDeadline
    BY SoonerCovers, SessionTypes
  <2> QED BY <1>5, <2>1, <2>2 DEF TypeOK, retry, history
<1>6. CASE giveUp(s)
  BY <1>6 DEF TypeOK, giveUp
<1>7. CASE settleFails(s)
  BY <1>7 DEF TypeOK, settleFails, stores, history
<1> QED BY <1>1, <1>2, <1>3, <1>4, <1>5, <1>6, <1>7 DEF Delivery

\* A scan keeps the type of every row.
LEMMA ScanTypes ==
  ASSUME TypeOK, NEW files, ScanFiles(files)
  PROVE  /\ row' \in [Sessions -> [deadline : MaybeDeadline, inFlight : MaybeDeadline]]
         /\ forgone' \subseteq Sessions
<1>1. ASSUME NEW s \in Sessions
      PROVE  ArmIfSooner(row[s], earliest(s)) \in [deadline : MaybeDeadline, inFlight : MaybeDeadline]
  BY SessionTypes, SoonerCovers DEF TypeOK, ArmIfSooner
<1> QED BY <1>1 DEF ScanFiles, TypeOK

\* The steps of the host keep every type.
LEMMA HostTypeStep ==
  ASSUME TypeOK,
         \/ crash \/ drain \/ markCleanShutdown
         \/ scanSessionFiles \/ recoverSessionDeadlines \/ start
  PROVE  TypeOK'
<1>1. CASE crash
  BY <1>1 DEF TypeOK, crash, ProcessGone, stores, history
<1>2. CASE drain
  BY <1>2 DEF TypeOK, drain, stores, history
<1>3. CASE markCleanShutdown
  BY <1>3 DEF TypeOK, markCleanShutdown, ProcessGone, history
<1>4. CASE scanSessionFiles
  <2>1. PICK files \in SUBSET Scanned : ScanFiles(files)
    BY <1>4 DEF scanSessionFiles
  <2> QED BY <1>4, <2>1, ScanTypes DEF TypeOK, scanSessionFiles, process
<1>5. CASE recoverSessionDeadlines
  <2>1. PICK skipped \in SUBSET Sessions :
          /\ unread' = skipped /\ ScanFiles(Scanned \ skipped)
          /\ marker' \in [clean : BOOLEAN, scanAll : BOOLEAN]
          /\ written' = {} \/ written' = written
    BY <1>5 DEF recoverSessionDeadlines, TypeOK
  <2>2. /\ row' \in [Sessions -> [deadline : MaybeDeadline, inFlight : MaybeDeadline]]
        /\ forgone' \subseteq Sessions
    BY <2>1, ScanTypes
  <2> QED BY <1>5, <2>1, <2>2 DEF TypeOK, recoverSessionDeadlines
<1>6. CASE start
  <2>1. ASSUME NEW s \in Sessions
        PROVE  recoverForeignClaims(row[s]) \in [deadline : MaybeDeadline, inFlight : MaybeDeadline]
    BY SessionTypes, SoonerCovers, DeadlineTypes DEF TypeOK, recoverForeignClaims
  <2> QED BY <1>6, <2>1 DEF TypeOK, start, history
<1> QED BY <1>1, <1>2, <1>3, <1>4, <1>5, <1>6

\* The initial state has the types.
LEMMA InitTypes == Init => TypeOK
BY DeadlineTypes DEF Init, TypeOK

\* The type of every variable.
THEOREM TypeCorrect == Spec => []TypeOK
<1>1. TypeOK /\ [Next]_vars => TypeOK'
  <2> SUFFICES ASSUME TypeOK, [Next]_vars PROVE TypeOK'
    OBVIOUS
  <2>1. CASE UNCHANGED vars
    BY <2>1 DEF TypeOK, vars, stores, process, history
  <2>2. CASE Next
    BY <2>2, SessionTypeStep, DeliveryTypeStep, HostTypeStep DEF Next
  <2> QED BY <2>1, <2>2
<1> QED BY <1>1, InitTypes, PTL DEF Spec

-----------------------------------------------------------------------------
(***************************************************************************)
(* The steps of one session.                                               *)
(***************************************************************************)
\* Serving only abbreviates two of the host's states.
USE DEF Serving

\* Everything SessionInv(s) reads, but what it may gain from the scan.
SameSession(s) ==
  /\ file'[s] = file[s] /\ row'[s] = row[s] /\ delivery'[s] = delivery[s]
  /\ arming'[s] = arming[s] /\ owed'[s] = owed[s] /\ tried'[s] = tried[s]
  /\ s \in written' <=> s \in written
  /\ s \in forgone' <=> s \in forgone
  /\ s \in unread' <=> s \in unread
  /\ s \in resident' <=> s \in resident
  /\ host' = host /\ marker' = marker

\* A session whose state does not change keeps its invariant.
LEMMA SameKeeps ==
  ASSUME NEW s \in Sessions, SessionInv(s), SameSession(s)
  PROVE  SessionInv(s)'
BY DEF SessionInv, SameSession, Persisted, InReach, Wanted, Armed, InNextScan, DeliveryInv,
       RestInv, Timely, ArmsWhileOpen, earliest

\* A step of one session is not a step of another.
LEMMA OthersAreSame ==
  ASSUME TypeOK, NEW s \in Sessions, NEW t \in Sessions, s # t, Session(t) \/ Delivery(t)
  PROVE  SameSession(s)
<1> USE DEF SameSession
<1>1. CASE Activate(t)
  BY <1>1 DEF TypeOK, Activate, stores, history
<1>2. CASE \E d \in Deadlines : Persist(t, d)
  BY <1>2 DEF TypeOK, Persist
<1>3. CASE schedule(t)
  BY <1>3 DEF TypeOK, schedule, Arm
<1>4. CASE rehydrate(t)
  BY <1>4 DEF TypeOK, rehydrate, Arm
<1>5. CASE ArmFails(t)
  BY <1>5 DEF TypeOK, ArmFails, stores
<1>6. CASE retire(t)
  BY <1>6 DEF TypeOK, retire, stores, history
<1>7. CASE claim(t)
  BY <1>7 DEF TypeOK, claim
<1>8. CASE beginDelivery(t)
  BY <1>8 DEF TypeOK, beginDelivery
<1>9. CASE completeDelivery(t)
  BY <1>9 DEF TypeOK, completeDelivery, Arm
<1>10. CASE complete(t)
  BY <1>10 DEF TypeOK, complete, history
<1>11. CASE retry(t)
  BY <1>11 DEF TypeOK, retry, history
<1>12. CASE giveUp(t)
  BY <1>12 DEF TypeOK, giveUp
<1>13. CASE settleFails(t)
  BY <1>13 DEF TypeOK, settleFails, stores, history
<1> QED BY <1>1, <1>2, <1>3, <1>4, <1>5, <1>6, <1>7, <1>8, <1>9, <1>10, <1>11, <1>12, <1>13
           DEF Session, Delivery

\* The initial invariant: nothing was ever requested.
LEMMA InitInv == Init => IInv
<1> SUFFICES ASSUME Init PROVE HostInv /\ \A s \in Sessions : SessionInv(s)
  BY InitTypes DEF IInv
<1>1. HostInv
  BY DEF Init, HostInv
<1>2. ASSUME NEW s \in Sessions PROVE SessionInv(s)
  BY DEF Init, SessionInv, Persisted, InReach, Wanted, DeliveryInv, RestInv, Timely, ArmsWhileOpen, Covers
<1> QED BY <1>1, <1>2

\* Arming a row makes it cover the deadline, and uncovers nothing.
LEMMA ArmCovers ==
  ASSUME TypeOK, NEW s \in Sessions, NEW d \in MaybeDeadline, Arm(s, d)
  PROVE  /\ row'[s].inFlight = row[s].inFlight
         /\ row'[s].deadline \in MaybeDeadline
         /\ d # None \/ row[s].deadline # None => row'[s].deadline # None
         /\ \A c \in MaybeDeadline :
              Covers(d, c) \/ Covers(row[s].deadline, c) => Covers(row'[s].deadline, c)
         /\ s \in forgone' => s \in forgone /\ d = None
         /\ s \in forgone /\ d = None => s \in forgone'
<1>1. row'[s] = ArmIfSooner(row[s], d)
  BY DEF TypeOK, Arm
<1>2. row'[s].deadline = Sooner(row[s].deadline, d) /\ row'[s].inFlight = row[s].inFlight
  BY <1>1 DEF ArmIfSooner, TypeOK
<1>3. s \in forgone' <=> s \in forgone /\ d = None
  BY DEF Arm
<1> QED BY <1>2, <1>3, SessionTypes, SoonerCovers

\* A session that opens, or whose runtime is retired, requests nothing.
LEMMA OpenStep ==
  ASSUME TypeOK, NEW s \in Sessions, SessionInv(s), Activate(s) \/ retire(s)
  PROVE  SessionInv(s)'
<1>1. CASE Activate(s)
  BY <1>1 DEF TypeOK, Activate, stores, history, SessionInv, Persisted, InReach, Wanted, Armed,
              InNextScan, DeliveryInv, RestInv, Timely, ArmsWhileOpen, earliest
<1>2. CASE retire(s)
  BY <1>2 DEF TypeOK, retire, stores, history, SessionInv, Persisted, InReach, Wanted, Armed,
              InNextScan, DeliveryInv, RestInv, Timely, ArmsWhileOpen, earliest
<1> QED BY <1>1, <1>2

\* Persisting a deadline requests it and leaves the arming to do.
LEMMA PersistStep ==
  ASSUME TypeOK, HostInv, NEW s \in Sessions, SessionInv(s), NEW d \in Deadlines, Persist(s, d)
  PROVE  SessionInv(s)'
<1>1. /\ file'[s].pending = Sooner(file[s].pending, d) /\ file'[s].inFlight = file[s].inFlight
      /\ owed'[s] = Sooner(owed[s], d) /\ s \in written' /\ "schedule" \in arming'[s]
  BY DEF TypeOK, Persist
<1>2. UNCHANGED <<row, marker, delivery, resident, host, unread, forgone, tried>>
  BY DEF Persist
<1>3. Persisted(s)'
  <2>1. /\ Covers(Sooner(file[s].pending, d), owed[s]) /\ Covers(Sooner(file[s].pending, d), d)
    BY SoonerCovers, SessionTypes, CoversNone, DeadlineTypes DEF SessionInv, Persisted
  <2>2. Covers(file'[s].pending, owed'[s])
    BY <1>1, <2>1, CoversSooner, SoonerCovers, SessionTypes, DeadlineTypes
  <2>3. \A c \in MaybeDeadline :
          Covers(file[s].pending, c) \/ Covers(file[s].inFlight, c) => Covers(earliest(s)', c)
    BY <1>1, SoonerCovers, SessionTypes, DeadlineTypes DEF earliest
  <2>4. Covers(earliest(s)', tried[s])
    BY <2>3, SoonerCovers, CoversNone, SessionTypes DEF SessionInv, Persisted, earliest
  <2> QED BY <1>2, <2>2, <2>4 DEF Persisted
<1>4. DeliveryInv(s)' /\ RestInv(s)' /\ Timely(s)'
  BY <1>1, <1>2, SoonerCovers, SessionTypes, DeadlineTypes
     DEF Persist, SessionInv, DeliveryInv, RestInv, Timely, Wanted, Armed
<1>5. InReach(s)'
  BY <1>1, <1>2 DEF Persist, HostInv, InReach, InNextScan
<1>6. ArmsWhileOpen(s)'
  BY <1>2 DEF Persist, ArmsWhileOpen
<1> QED BY <1>3, <1>4, <1>5, <1>6 DEF SessionInv

\* schedule arms the deadline in the file, which covers what is owed.
LEMMA ScheduleStep ==
  ASSUME TypeOK, HostInv, NEW s \in Sessions, SessionInv(s), schedule(s)
  PROVE  SessionInv(s)'
<1>1. Arm(s, file[s].pending) /\ host # "down"
  BY DEF schedule, HostInv
<1>2. UNCHANGED <<file, marker, written, delivery, resident, host, unread, owed, tried>>
  BY DEF schedule
<1>3. Persisted(s)'
  BY <1>2 DEF SessionInv, Persisted, earliest
<1>4. owed[s] # None => file[s].pending # None
  BY SessionTypes, CoversNone DEF SessionInv, Persisted, Covers
<1>5. InReach(s)' /\ DeliveryInv(s)' /\ RestInv(s)'
  BY <1>1, <1>2, <1>4, ArmCovers, SessionTypes
     DEF SessionInv, InReach, DeliveryInv, RestInv, Wanted, Armed, InNextScan
<1>6. Timely(s)'
  BY <1>1, <1>2, <1>4, ArmCovers, SessionTypes DEF SessionInv, Persisted, Timely
<1>7. ArmsWhileOpen(s)'
  BY <1>2 DEF schedule, SessionInv, ArmsWhileOpen
<1> QED BY <1>3, <1>5, <1>6, <1>7 DEF SessionInv

\* Rehydration arms whatever the file holds, which covers what is wanted.
LEMMA RehydrateStep ==
  ASSUME TypeOK, HostInv, NEW s \in Sessions, SessionInv(s), rehydrate(s)
  PROVE  SessionInv(s)'
<1>1. Arm(s, earliest(s)) /\ host # "down"
  BY DEF rehydrate, HostInv
<1>2. UNCHANGED <<file, marker, written, delivery, resident, host, owed, tried>>
  BY DEF rehydrate
<1>3. Persisted(s)'
  BY <1>2 DEF SessionInv, Persisted, earliest
<1>4. Covers(earliest(s), owed[s])
  BY SoonerCovers, SessionTypes DEF SessionInv, Persisted, earliest
<1>5. owed[s] # None \/ tried[s] # None => earliest(s) # None
  BY <1>4 DEF SessionInv, Persisted, Covers
<1>6. InReach(s)' /\ DeliveryInv(s)' /\ RestInv(s)'
  BY <1>1, <1>2, <1>5, ArmCovers, SessionTypes
     DEF SessionInv, InReach, DeliveryInv, RestInv, Wanted, Armed, InNextScan
<1>7. Timely(s)'
  BY <1>1, <1>2, <1>4, <1>5, ArmCovers, SessionTypes DEF Timely
<1>8. ArmsWhileOpen(s)'
  BY <1>2 DEF rehydrate, SessionInv, ArmsWhileOpen
<1> QED BY <1>3, <1>6, <1>7, <1>8 DEF SessionInv

\* A write the index refuses leaves the deadline to the file, and the session
\* forgone.
LEMMA ArmFailsStep ==
  ASSUME TypeOK, NEW s \in Sessions, SessionInv(s), ArmFails(s)
  PROVE  SessionInv(s)'
BY DEF TypeOK, ArmFails, stores, SessionInv, Persisted, InReach, Wanted, Armed, InNextScan,
       DeliveryInv, RestInv, Timely, ArmsWhileOpen, earliest

-----------------------------------------------------------------------------
(***************************************************************************)
(* The steps of a delivery.                                                *)
(***************************************************************************)
\* A claim keeps the row's deadline as its own; what was owed is being tried.
LEMMA ClaimStep ==
  ASSUME TypeOK, HostInv, NEW s \in Sessions, SessionInv(s), claim(s)
  PROVE  SessionInv(s)'
<1>1. /\ row'[s] = [deadline |-> None, inFlight |-> row[s].deadline]
      /\ row[s].deadline # None /\ host = "up"
      /\ tried'[s] = Sooner(tried[s], owed[s]) /\ owed'[s] = None
      /\ delivery'[s] = "claimed"
  BY DEF TypeOK, claim
<1>2. UNCHANGED <<file, marker, written, arming, resident, host, unread>>
  BY DEF claim
<1>3. Persisted(s)'
  <2>1. Covers(earliest(s), owed[s]) /\ Covers(earliest(s), tried[s])
    BY SoonerCovers, SessionTypes DEF SessionInv, Persisted, earliest
  <2>2. Covers(earliest(s), tried'[s]) /\ Covers(file[s].pending, owed'[s])
    BY <1>1, <2>1, CoversSooner, CoversNone, SessionTypes
  <2>3. earliest(s)' = earliest(s)
    BY <1>2 DEF earliest
  <2> QED BY <1>2, <2>2, <2>3 DEF Persisted
<1>4. InReach(s)' /\ DeliveryInv(s)' /\ RestInv(s)' /\ Timely(s)' /\ ArmsWhileOpen(s)'
  BY <1>1, <1>2 DEF SessionInv, InReach, Armed, DeliveryInv, RestInv, Timely, ArmsWhileOpen
<1> QED BY <1>3, <1>4 DEF SessionInv

\* Taking the pending deadline in flight keeps it in the file.
LEMMA BeginStep ==
  ASSUME TypeOK, HostInv, NEW s \in Sessions, SessionInv(s), beginDelivery(s)
  PROVE  SessionInv(s)'
<1>1. delivery[s] = "claimed" /\ delivery'[s] = "handling" /\ s \in written' /\ s \in resident'
  BY DEF TypeOK, beginDelivery
<1>2. UNCHANGED <<row, marker, arming, host, unread, forgone>>
  BY DEF beginDelivery
<1>3. row[s].inFlight # None /\ host # "down"
  BY <1>1 DEF SessionInv, DeliveryInv, HostInv
<1>4. CASE file[s].inFlight # None
  <2>1. file'[s] = file[s] /\ owed' = owed /\ tried' = tried
    BY <1>4 DEF TypeOK, beginDelivery
  <2> QED BY <1>1, <1>2, <1>3, <2>1 DEF SessionInv, Persisted, InReach, Armed, Wanted,
             DeliveryInv, RestInv, Timely, ArmsWhileOpen, earliest
<1>5. CASE file[s].inFlight = None
  <2>1. /\ file'[s] = [pending |-> None, inFlight |-> file[s].pending]
        /\ tried'[s] = Sooner(tried[s], owed[s]) /\ owed'[s] = None
    BY <1>5 DEF TypeOK, beginDelivery
  <2>2. Persisted(s)'
    <3>1. earliest(s) = file[s].pending /\ earliest(s)' = file[s].pending
      BY <1>5, <2>1, SessionTypes DEF earliest, Sooner
    <3>2. Covers(file[s].pending, tried'[s]) /\ Covers(file'[s].pending, owed'[s])
      BY <2>1, <3>1, CoversSooner, CoversNone, SessionTypes, DeadlineTypes
         DEF SessionInv, Persisted
    <3> QED BY <3>1, <3>2 DEF Persisted
  <2>3. InReach(s)' /\ DeliveryInv(s)' /\ RestInv(s)' /\ Timely(s)' /\ ArmsWhileOpen(s)'
    BY <1>1, <1>2, <1>3, <2>1
       DEF InReach, Armed, DeliveryInv, RestInv, Timely, ArmsWhileOpen
  <2> QED BY <2>2, <2>3 DEF SessionInv
<1> QED BY <1>4, <1>5

\* The deadline in flight is acknowledged once what is pending is armed.
LEMMA CompleteDeliveryStep ==
  ASSUME TypeOK, HostInv, NEW s \in Sessions, SessionInv(s), completeDelivery(s)
  PROVE  SessionInv(s)'
<1>1. /\ delivery[s] = "handling" /\ delivery'[s] = "served" /\ s \in written'
      /\ tried'[s] = None
  BY DEF TypeOK, completeDelivery
<1>2. UNCHANGED <<marker, arming, resident, host, unread, owed>>
  BY DEF completeDelivery
<1>3. row[s].inFlight # None /\ host # "down"
  BY <1>1 DEF SessionInv, DeliveryInv, HostInv
<1>4. file'[s].pending = file[s].pending
  BY DEF TypeOK, completeDelivery
<1>5. Persisted(s)'
  BY <1>1, <1>2, <1>4, CoversNone DEF SessionInv, Persisted, Covers
<1>6. CASE file[s].inFlight = None
  <2>1. UNCHANGED <<row, forgone>>
    BY <1>6 DEF completeDelivery
  <2> QED BY <1>1, <1>2, <1>3, <1>5, <2>1 DEF SessionInv, InReach, Armed, Wanted,
             DeliveryInv, RestInv, Timely, ArmsWhileOpen
<1>7. CASE file[s].inFlight # None
  <2>1. Arm(s, file[s].pending)
    BY <1>7 DEF completeDelivery
  <2>2. owed[s] # None => file[s].pending # None
    BY SessionTypes, CoversNone DEF SessionInv, Persisted, Covers
  <2>3. InReach(s)' /\ DeliveryInv(s)' /\ RestInv(s)' /\ ArmsWhileOpen(s)'
    BY <1>1, <1>2, <1>3, <2>1, <2>2, ArmCovers, SessionTypes
       DEF SessionInv, InReach, Armed, DeliveryInv, RestInv, ArmsWhileOpen
  <2>4. Timely(s)'
    BY <1>2, <2>1, <2>2, ArmCovers, SessionTypes DEF SessionInv, Persisted, Timely
  <2> QED BY <1>5, <2>3, <2>4 DEF SessionInv
<1> QED BY <1>6, <1>7

\* A claim is dropped once its wake-up was served.
LEMMA CompleteStep ==
  ASSUME TypeOK, HostInv, NEW s \in Sessions, SessionInv(s), complete(s)
  PROVE  SessionInv(s)'
<1>1. /\ delivery[s] = "served" /\ delivery'[s] = "none"
      /\ row'[s].deadline = row[s].deadline /\ row'[s].inFlight = None
  BY DEF TypeOK, complete
<1>2. UNCHANGED <<file, marker, written, arming, resident, host, unread, forgone, owed, tried>>
  BY DEF complete, history
<1>3. tried[s] = None /\ s \in written /\ Serving /\ ~marker.clean
  BY <1>1 DEF SessionInv, DeliveryInv, HostInv
<1>4. Persisted(s)' /\ DeliveryInv(s)' /\ RestInv(s)' /\ ArmsWhileOpen(s)'
  BY <1>1, <1>2, <1>3
     DEF SessionInv, Persisted, DeliveryInv, RestInv, ArmsWhileOpen, Wanted, Armed, earliest
<1>5. InReach(s)'
  BY <1>1, <1>2, <1>3 DEF SessionInv, InReach, InNextScan, Wanted, Armed, DeliveryInv
<1>6. Timely(s)'
  BY <1>1, <1>2, <1>3 DEF SessionInv, Timely
<1> QED BY <1>4, <1>5, <1>6 DEF SessionInv

\* A retry arms the row again, no later than what is armed already.
LEMMA RetryStep ==
  ASSUME TypeOK, HostInv, NEW s \in Sessions, SessionInv(s), retry(s)
  PROVE  SessionInv(s)'
<1>1. PICK at \in Deadlines :
        row' = [row EXCEPT ![s] = [deadline |-> Sooner(@.deadline, at), inFlight |-> None]]
  BY DEF retry
<1>2. /\ row'[s].deadline = Sooner(row[s].deadline, at) /\ row'[s].inFlight = None
      /\ delivery'[s] = "none"
  BY <1>1 DEF TypeOK, retry
<1>3. row'[s].deadline # None
  BY <1>2, SoonerCovers, SessionTypes, DeadlineTypes
<1>4. Covers(row[s].deadline, owed[s]) => Covers(row'[s].deadline, owed[s])
  BY <1>2, SoonerCovers, SessionTypes, DeadlineTypes
<1>5. delivery[s] # "none" /\ Serving
  BY DEF retry, HostInv
<1>6. UNCHANGED <<file, marker, written, arming, resident, host, unread, forgone, owed, tried>>
  BY DEF retry, history
<1> QED BY <1>2, <1>3, <1>4, <1>5, <1>6 DEF SessionInv, Persisted, InReach, Armed, DeliveryInv,
           RestInv, Timely, ArmsWhileOpen, earliest

\* A delivery given up leaves the session forgone unless it is armed.
LEMMA GiveUpStep ==
  ASSUME TypeOK, HostInv, NEW s \in Sessions, SessionInv(s), giveUp(s)
  PROVE  SessionInv(s)'
<1>1. /\ row'[s].deadline = row[s].deadline /\ row'[s].inFlight = None
      /\ delivery[s] # "none" /\ delivery'[s] = "none" /\ Serving
  BY DEF TypeOK, giveUp, HostInv
<1>2. UNCHANGED <<file, marker, written, arming, resident, host, unread, owed, tried>>
  BY DEF giveUp
<1>3. s \in forgone' <=> s \in forgone \/ row[s].deadline = None
  BY DEF giveUp
<1> QED BY <1>1, <1>2, <1>3 DEF SessionInv, Persisted, InReach, Wanted, Armed, DeliveryInv,
           RestInv, Timely, ArmsWhileOpen, earliest

\* A claim that cannot be settled stays in the index.
LEMMA SettleFailsStep ==
  ASSUME TypeOK, NEW s \in Sessions, SessionInv(s), settleFails(s)
  PROVE  SessionInv(s)'
<1>1. delivery[s] # "none" /\ delivery'[s] = "none"
  BY DEF TypeOK, settleFails
<1>2. UNCHANGED <<file, row, marker, written, arming, resident, host, unread, forgone, owed, tried>>
  BY DEF settleFails, stores, history
<1> QED BY <1>1, <1>2 DEF SessionInv, Persisted, InReach, Wanted, Armed, InNextScan,
           DeliveryInv, RestInv, Timely, ArmsWhileOpen, earliest

\* Every step of a session keeps its own invariant.
LEMMA OwnStep ==
  ASSUME TypeOK, HostInv, NEW s \in Sessions, SessionInv(s), Session(s) \/ Delivery(s)
  PROVE  SessionInv(s)'
BY OpenStep, PersistStep, ScheduleStep, RehydrateStep, ArmFailsStep, ClaimStep, BeginStep,
   CompleteDeliveryStep, CompleteStep, RetryStep, GiveUpStep, SettleFailsStep
   DEF Session, Delivery

-----------------------------------------------------------------------------
(***************************************************************************)
(* The steps of the host.                                                  *)
(***************************************************************************)
\* A process that goes without a clean marker leaves what it had to arm, and
\* what it could not read, to the next boot's scan.
LEMMA GoneUnclean ==
  ASSUME TypeOK, HostInv, NEW s \in Sessions, SessionInv(s),
         ProcessGone, host # "down", UNCHANGED <<stores, history>>
  PROVE  SessionInv(s)'
<1>1. /\ delivery'[s] = "none" /\ arming'[s] = {} /\ host' = "down" /\ unread' = {}
      /\ ~marker.clean
  BY DEF ProcessGone, HostInv
<1>2. UNCHANGED <<file, row, marker, written, forgone, owed, tried>>
  BY DEF stores, history
<1>3. s \in unread => marker.scanAll
  BY DEF HostInv
<1>4. Persisted(s)' /\ InReach(s)' /\ DeliveryInv(s)' /\ RestInv(s)' /\ ArmsWhileOpen(s)'
  BY <1>1, <1>2 DEF SessionInv, Persisted, InReach, Wanted, Armed, InNextScan, DeliveryInv,
                    RestInv, ArmsWhileOpen, earliest
<1>5. Timely(s)'
  BY <1>1, <1>2, <1>3 DEF SessionInv, Timely, InNextScan
<1> QED BY <1>4, <1>5 DEF SessionInv

\* A clean stop leaves everything wanted in the index, so the next boot need
\* not scan.
LEMMA CleanStep ==
  ASSUME TypeOK, HostInv, NEW s \in Sessions, SessionInv(s), markCleanShutdown
  PROVE  SessionInv(s)'
<1>1. CASE marker.scanAll
  BY <1>1, GoneUnclean DEF markCleanShutdown, stores, history
<1>2. CASE ~marker.scanAll
  <2>1. /\ delivery'[s] = "none" /\ arming'[s] = {} /\ host' = "down" /\ unread' = {}
        /\ UNCHANGED <<file, row, forgone, owed, tried>>
    BY DEF markCleanShutdown, ProcessGone, history
  <2>2. /\ Serving /\ delivery[s] = "none" /\ arming[s] = {} /\ s \notin unread
    BY <1>2 DEF markCleanShutdown, HostInv
  <2>3. (Wanted(s) => Armed(s))
        /\ (owed[s] # None /\ s \notin forgone => Covers(row[s].deadline, owed[s]))
    BY <1>2, <2>2 DEF SessionInv, RestInv, Timely, Wanted
  <2> QED BY <2>1, <2>3 DEF SessionInv, Persisted, InReach, Wanted, Armed, DeliveryInv,
             RestInv, Timely, ArmsWhileOpen, earliest
<1> QED BY <1>1, <1>2

\* A drain stops the clock and nothing else.
LEMMA DrainStep ==
  ASSUME TypeOK, NEW s \in Sessions, SessionInv(s), drain
  PROVE  SessionInv(s)'
<1>1. /\ host = "up" /\ host' = "draining"
      /\ UNCHANGED <<file, row, marker, written, delivery, arming, resident, unread, forgone,
                     owed, tried>>
  BY DEF drain, stores, history
<1> QED BY <1>1 DEF SessionInv, Persisted, InReach, Wanted, Armed, InNextScan, DeliveryInv,
           RestInv, Timely, ArmsWhileOpen, earliest

\* A file that is read has its row cover what the file holds; no row covers
\* less than it did.
LEMMA ScanCovers ==
  ASSUME TypeOK, NEW s \in Sessions, NEW files, ScanFiles(files)
  PROVE  /\ row'[s].inFlight = row[s].inFlight
         /\ row[s].deadline # None => row'[s].deadline # None
         /\ s \in files /\ earliest(s) # None => row'[s].deadline # None
         /\ \A c \in MaybeDeadline :
              Covers(row[s].deadline, c) => Covers(row'[s].deadline, c)
         /\ \A c \in MaybeDeadline :
              s \in files /\ Covers(earliest(s), c) => Covers(row'[s].deadline, c)
         /\ s \in forgone' <=> s \in forgone \ files
<1>1. row'[s] = IF s \in files THEN ArmIfSooner(row[s], earliest(s)) ELSE row[s]
  BY DEF ScanFiles
<1>2. s \in forgone' <=> s \in forgone \ files
  BY DEF ScanFiles
<1>3. CASE s \in files
  <2>1. row'[s].deadline = Sooner(row[s].deadline, earliest(s))
        /\ row'[s].inFlight = row[s].inFlight
    BY <1>1, <1>3 DEF ArmIfSooner, TypeOK
  <2> QED BY <1>2, <2>1, SessionTypes, SoonerCovers
<1>4. CASE s \notin files
  BY <1>1, <1>2, <1>4
<1> QED BY <1>3, <1>4

\* What the file holds covers what is wanted.
LEMMA FileCovers ==
  ASSUME TypeOK, NEW s \in Sessions, SessionInv(s)
  PROVE  /\ Covers(earliest(s), owed[s])
         /\ owed[s] # None \/ tried[s] # None => earliest(s) # None
<1>1. Covers(earliest(s), owed[s])
  BY SoonerCovers, SessionTypes DEF SessionInv, Persisted, earliest
<1> QED BY <1>1 DEF SessionInv, Persisted, Covers

\* A scan cut short has armed some files and moved no marker.
LEMMA ScanStep ==
  ASSUME TypeOK, HostInv, NEW s \in Sessions, SessionInv(s), scanSessionFiles
  PROVE  SessionInv(s)'
<1>1. PICK files : ScanFiles(files)
  BY DEF scanSessionFiles
<1>2. UNCHANGED <<file, marker, written, delivery, arming, resident, host, unread, owed, tried>>
  BY DEF scanSessionFiles, process
<1>3. host = "down" /\ delivery[s] = "none"
  BY DEF scanSessionFiles, HostInv
<1>4. Persisted(s)' /\ DeliveryInv(s)' /\ RestInv(s)' /\ ArmsWhileOpen(s)'
  BY <1>2, <1>3 DEF SessionInv, Persisted, DeliveryInv, RestInv, ArmsWhileOpen, earliest
<1>5. InReach(s)'
  BY <1>1, <1>2, ScanCovers, FileCovers DEF SessionInv, InReach, Wanted, Armed, InNextScan
<1>6. Timely(s)'
  <2>1. CASE s \in files
    BY <1>1, <2>1, <1>2, ScanCovers, FileCovers, SessionTypes DEF Timely
  <2>2. CASE s \notin files
    <3>1. Covers(row[s].deadline, owed[s]) => Covers(row'[s].deadline, owed[s])
      BY <1>1, ScanCovers, SessionTypes
    <3>2. row'[s].inFlight = row[s].inFlight /\ (s \in forgone' <=> s \in forgone)
      BY <1>1, <2>2, ScanCovers
    <3> QED BY <1>2, <3>1, <3>2 DEF SessionInv, Timely, InNextScan
  <2> QED BY <2>1, <2>2
<1> QED BY <1>4, <1>5, <1>6 DEF SessionInv

\* A boot arms what it can read, and remembers to scan again if it could not
\* read everything.
LEMMA BootStep ==
  ASSUME TypeOK, HostInv, NEW s \in Sessions, SessionInv(s), recoverSessionDeadlines
  PROVE  SessionInv(s)'
<1>1. PICK skipped \in SUBSET Sessions :
        /\ unread' = skipped /\ ScanFiles(Scanned \ skipped)
        /\ ~marker'.clean
        /\ skipped # {} => marker'.scanAll
  BY DEF recoverSessionDeadlines, TypeOK
<1>2. /\ host = "down" /\ host' = "starting"
      /\ UNCHANGED <<file, delivery, arming, resident, owed, tried>>
  BY DEF recoverSessionDeadlines
<1>3. delivery[s] = "none" /\ arming[s] = {} /\ s \notin unread
  BY <1>2 DEF HostInv
<1>4. InNextScan(s) => s \in Scanned
  BY DEF InNextScan, Scanned
<1>5. Persisted(s)' /\ DeliveryInv(s)' /\ ArmsWhileOpen(s)'
  BY <1>2, <1>3 DEF SessionInv, Persisted, DeliveryInv, ArmsWhileOpen, earliest
<1>a. /\ row'[s].inFlight = row[s].inFlight
      /\ row[s].deadline # None => row'[s].deadline # None
      /\ Covers(row[s].deadline, owed[s]) => Covers(row'[s].deadline, owed[s])
      /\ s \in forgone' <=> s \in forgone \ (Scanned \ skipped)
  BY <1>1, ScanCovers, SessionTypes
<1>6. InReach(s)' /\ RestInv(s)'
  <2>1. SUFFICES ASSUME Wanted(s)' PROVE Armed(s)' \/ marker'.scanAll
    BY <1>1 DEF InReach, RestInv, InNextScan
  <2>2. CASE s \in Scanned \ skipped
    BY <1>1, <1>2, <2>1, <2>2, ScanCovers, FileCovers DEF Wanted, Armed
  <2>3. CASE s \notin Scanned \ skipped
    <3>1. Armed(s) \/ InNextScan(s)
      BY <1>a, <1>2, <2>1, <2>3 DEF SessionInv, InReach, Wanted
    <3> QED BY <1>1, <1>a, <1>4, <2>3, <3>1 DEF Armed
  <2> QED BY <2>2, <2>3
<1>7. Timely(s)'
  <2>1. SUFFICES ASSUME owed[s] # None, s \notin skipped, s \notin forgone'
                 PROVE  Covers(row'[s].deadline, owed[s]) \/ Covers(row'[s].inFlight, owed[s])
    BY <1>1, <1>2 DEF Timely
  <2>2. CASE s \in Scanned
    BY <1>1, <2>1, <2>2, ScanCovers, FileCovers, SessionTypes
  <2>3. CASE s \notin Scanned
    <3>1. Covers(row[s].deadline, owed[s]) \/ Covers(row[s].inFlight, owed[s])
      BY <1>a, <1>3, <1>4, <2>1, <2>3 DEF SessionInv, Timely
    <3> QED BY <1>a, <3>1
  <2> QED BY <2>2, <2>3
<1> QED BY <1>5, <1>6, <1>7 DEF SessionInv

\* The clock takes back every claim at its own deadline, or sooner.
LEMMA StartStep ==
  ASSUME TypeOK, HostInv, NEW s \in Sessions, SessionInv(s), start
  PROVE  SessionInv(s)'
<1>1. /\ host = "starting" /\ host' = "up"
      /\ UNCHANGED <<file, marker, written, delivery, arming, resident, unread, forgone, owed, tried>>
  BY DEF start, history
<1>2. delivery[s] = "none" /\ arming[s] = {}
  BY <1>1 DEF HostInv
<1>3. /\ Armed(s) => row'[s].deadline # None
      /\ Covers(row[s].deadline, owed[s]) \/ Covers(row[s].inFlight, owed[s])
           => Covers(row'[s].deadline, owed[s])
  <2>1. row'[s] = recoverForeignClaims(row[s])
    BY DEF start
  <2>2. CASE row[s].inFlight = None
    BY <2>1, <2>2, SessionTypes, CoversNone DEF recoverForeignClaims, Armed, Covers
  <2>3. CASE row[s].inFlight # None
    <3>1. row'[s].deadline = Sooner(row[s].deadline, row[s].inFlight)
      BY <2>1, <2>3 DEF recoverForeignClaims
    <3> QED BY <3>1, SoonerCovers, SessionTypes DEF Armed
  <2> QED BY <2>2, <2>3
<1>4. Timely(s)'
  BY <1>1, <1>2, <1>3 DEF SessionInv, Timely
<1>5. InReach(s)' /\ RestInv(s)'
  BY <1>1, <1>2, <1>3 DEF SessionInv, InReach, RestInv, Wanted, Armed, InNextScan
<1>6. Persisted(s)' /\ DeliveryInv(s)' /\ ArmsWhileOpen(s)'
  BY <1>1, <1>2 DEF SessionInv, Persisted, DeliveryInv, ArmsWhileOpen, earliest
<1> QED BY <1>4, <1>5, <1>6 DEF SessionInv

\* Every step of the host keeps the invariant of every session.
LEMMA HostStep ==
  ASSUME TypeOK, HostInv, NEW s \in Sessions, SessionInv(s),
         \/ crash \/ drain \/ markCleanShutdown
         \/ scanSessionFiles \/ recoverSessionDeadlines \/ start
  PROVE  SessionInv(s)'
BY GoneUnclean, DrainStep, CleanStep, ScanStep, BootStep, StartStep DEF crash

-----------------------------------------------------------------------------
(***************************************************************************)
(* The invariant holds.                                                    *)
(***************************************************************************)
\* What the marker means while the host is up.
LEMMA HostInvStep ==
  ASSUME TypeOK, HostInv, \A s \in Sessions : SessionInv(s), Next
  PROVE  HostInv'
<1>1. ASSUME NEW s \in Sessions, Session(s) PROVE HostInv'
  <2>1. CASE Serving
    <3>1. UNCHANGED <<host, marker>> /\ unread' \subseteq unread
      BY <1>1 DEF Session, Activate, Persist, schedule, rehydrate, ArmFails, retire, stores, history
    <3> QED BY <2>1, <3>1 DEF HostInv
  <2>2. CASE ~Serving
    BY <1>1, <2>2 DEF HostInv, Session, Activate, Persist, schedule, rehydrate, ArmFails, retire
  <2> QED BY <2>1, <2>2
<1>2. ASSUME NEW s \in Sessions, Delivery(s) PROVE HostInv'
  <2>1. Serving /\ UNCHANGED <<host, marker, unread>>
    BY <1>2 DEF HostInv, Delivery, claim, beginDelivery, completeDelivery, complete, retry,
                giveUp, settleFails, stores, history
  <2> QED BY <2>1 DEF HostInv
<1>3. CASE crash
  BY <1>3 DEF HostInv, crash, ProcessGone
<1>4. CASE drain
  BY <1>4 DEF HostInv, drain, stores
<1>5. CASE markCleanShutdown
  BY <1>5 DEF HostInv, markCleanShutdown, ProcessGone
<1>6. CASE scanSessionFiles
  BY <1>6 DEF HostInv, scanSessionFiles, process
<1>7. CASE recoverSessionDeadlines
  <2>1. /\ host = "down" /\ host' = "starting" /\ ~marker'.clean
        /\ (unread' # {} => marker'.scanAll)
        /\ UNCHANGED <<delivery, arming>>
    BY <1>7 DEF recoverSessionDeadlines, TypeOK
  <2> QED BY <2>1 DEF HostInv
<1>8. CASE start
  BY <1>8 DEF HostInv, start
<1> QED BY <1>1, <1>2, <1>3, <1>4, <1>5, <1>6, <1>7, <1>8 DEF Next

\* The invariant is inductive.
THEOREM Invariant == Spec => []IInv
<1>1. IInv /\ [Next]_vars => IInv'
  <2> SUFFICES ASSUME IInv, [Next]_vars PROVE IInv'
    OBVIOUS
  <2>1. CASE UNCHANGED vars
    BY <2>1 DEF vars, stores, process, history, IInv, TypeOK, HostInv, SessionInv, Persisted,
                InReach, Wanted, Armed, InNextScan, DeliveryInv, RestInv, Timely, ArmsWhileOpen,
                earliest
  <2>2. CASE Next
    <3>1. TypeOK'
      BY <2>2, SessionTypeStep, DeliveryTypeStep, HostTypeStep DEF IInv, Next
    <3>2. HostInv'
      BY <2>2, HostInvStep DEF IInv
    <3>3. ASSUME NEW s \in Sessions PROVE SessionInv(s)'
      <4>1. ASSUME NEW t \in Sessions, Session(t) \/ Delivery(t) PROVE SessionInv(s)'
        BY <4>1, OwnStep, OthersAreSame, SameKeeps DEF IInv
      <4> QED BY <2>2, <4>1, HostStep DEF IInv, Next
    <3> QED BY <3>1, <3>2, <3>3 DEF IInv
  <2> QED BY <2>1, <2>2
<1> QED BY <1>1, InitInv, PTL DEF Spec

\* A requested wake-up stays in the session file until a handler that started
\* after the request has succeeded.
THEOREM WakeUpsArePersisted == Spec => []OwedIsPersisted
<1>1. IInv => OwedIsPersisted
  BY DEF IInv, SessionInv, Persisted, OwedIsPersisted
<1> QED BY <1>1, Invariant, PTL

\* No crash, shutdown or boot leaves a requested wake-up where nothing will
\* find it.
THEOREM WakeUpsStayInReach == Spec => []NothingOutOfReach
<1>1. IInv => NothingOutOfReach
  BY DEF IInv, SessionInv, InReach, Wanted, NothingOutOfReach
<1> QED BY <1>1, Invariant, PTL

\* A host that is up has armed every request, no later than it asks, but for
\* unread files and refused writes.
THEOREM WakeUpsAreArmedInTime == Spec => []ArmedInTime
<1>1. IInv => ArmedInTime
  BY DEF IInv, SessionInv, Timely, ArmedInTime
<1> QED BY <1>1, Invariant, PTL
=============================================================================
