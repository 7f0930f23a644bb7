---------------------------- MODULE EventForwarder ----------------------------
(***************************************************************************)
(* The event forwarder of the sandbox's runtime (event_forwarder.py) under *)
(* the bridge's connection loop (bridge.py): what the tasks of one asyncio *)
(* loop do to the buffer and the unacknowledged events while connections   *)
(* are lost, wedged and replaced, sends are cancelled and stages run out   *)
(* of time.                                                                *)
(*                                                                         *)
(* One call of send() per event.  A task runs alone up to its next await:  *)
(* `turn` is the task that runs.  The bridge makes a connection only after *)
(* it left the one before, which is then closed, so of all connections the *)
(* model tells only the latest one from the others, and that one is bound  *)
(* while it is open.                                                       *)
(***************************************************************************)
EXTENDS Integers, SequencesExt

CONSTANTS
  MaxEvents,   \* bound: events handed to the forwarder
  Critical,    \* those of CRITICAL_EVENT_TYPES
  Unbuffered,  \* those sent with buffered=False
  MaxBuffer    \* max_buffer_size

Events == 1..MaxEvents

ASSUME EventsAssumption ==
  /\ MaxEvents \in Nat /\ MaxBuffer \in Nat \ {0}
  /\ Critical \subseteq Events /\ Unbuffered \subseteq Events \ Critical

Binder == 0
Nobody == -1
Tasks == Events \cup {Binder}

VARIABLES
  up,        \* the latest connection is OPEN
  reading,   \* its receive loop runs
  bind,      \* its bind(): where it is, and what is left to send again
  send,      \* each event's send(): where it is
  write,     \* the write each task awaits: of which event, on which connection
  lock,      \* _recovery_lock: its holder, then who waits for it
  turn,      \* the task that runs
  buffer,    \* _event_buffer
  pending,   \* _pending_acks
  inFlight,  \* _in_flight_acks
  slot,      \* _cancelled_write_ws
  reached,   \* critical events the peer may have read from the latest connection
  sent,      \* history: writes that returned; of a critical event, on the latest connection
  released,  \* history: events acknowledged or evicted
  excused    \* history: on this connection, a send was cancelled or waited too long

store == <<buffer, pending, inFlight, released>>
vars == <<up, reading, bind, send, write, lock, turn, store, slot, reached, sent, excused>>

NoWrite == [event |-> 0, on |-> "none"]
NoBind == [at |-> "off", left |-> {}]

Init ==
  /\ up = FALSE /\ reading = FALSE /\ bind = NoBind
  /\ send = [e \in Events |-> "new"]
  /\ write = [a \in Tasks |-> NoWrite]
  /\ lock = <<>> /\ turn = Nobody
  /\ buffer = <<>> /\ pending = {} /\ inFlight = {} /\ slot = "none"
  /\ reached = {} /\ sent = [e \in Events |-> 0] /\ released = {} /\ excused = FALSE

-----------------------------------------------------------------------------
(* The buffer and the lock.                                                *)

Tracked(e) == {e} \cap Critical

\* The oldest event that is not critical is evicted, or the oldest of all.
IsVictim(i) ==
  LET critical == {j \in 1..Len(buffer) : buffer[j] \in Critical}
  IN  IF critical = 1..Len(buffer) THEN i = 1
      ELSE i \notin critical /\ 1..(i - 1) \subseteq critical

BufferEvent(e) ==
  IF Len(buffer) < MaxBuffer
  THEN buffer' = Append(buffer, e) /\ UNCHANGED released
  ELSE \E i \in 1..Len(buffer) :
         /\ IsVictim(i)
         /\ buffer' = Append(RemoveAt(buffer, i), e)
         /\ released' = released \cup {buffer[i]}

\* Mutant: pops whatever is at the head now.
PopHead(e) == buffer' = IF buffer # <<>> THEN Tail(buffer) ELSE buffer

\* Pops by identity: the head claimed before a write may be evicted during it.
PopIfHead(e) == buffer' = IF buffer # <<>> /\ Head(buffer) = e THEN Tail(buffer) ELSE buffer

\* An acknowledgement may arrive before the write it answers has returned.
Acknowledged(e) == e \in Critical \ pending

Awaits(a, e) ==
  /\ write' = [write EXCEPT ![a] = [event |-> e, on |-> "latest"]]
  /\ reached' = reached \cup Tracked(e)

NoLonger(a) == write' = [write EXCEPT ![a] = NoWrite]

\* The connection of a parked write is closed, or its time is over.
CanReturn(a) == write[a].on = "latest" /\ up
Fails(a) == write[a].event # 0 /\ ~CanReturn(a) /\ UNCHANGED up
TimesOut(a) == CanReturn(a) /\ up' = FALSE

Leaves(a) ==
  IF \A i \in 1..Len(lock) : lock[i] # a
  THEN UNCHANGED lock
  ELSE \E i \in 1..Len(lock) : lock[i] = a /\ lock' = RemoveAt(lock, i)

-----------------------------------------------------------------------------
(* send().                                                                 *)

Send(e) ==
  /\ turn = Nobody /\ send[e] = "new"
  /\ IF up
     THEN /\ send' = [send EXCEPT ![e] = "write"]
          /\ Awaits(e, e)
          /\ pending' = pending \cup Tracked(e) /\ inFlight' = inFlight \cup Tracked(e)
          /\ UNCHANGED <<buffer, released>>
     ELSE /\ send' = [send EXCEPT ![e] = "over"]
          /\ IF e \in Unbuffered THEN UNCHANGED <<buffer, released>> ELSE BufferEvent(e)
          /\ UNCHANGED <<write, reached, pending, inFlight>>
  /\ UNCHANGED <<up, reading, bind, lock, turn, slot, sent, excused>>

SendReturns(e) ==
  /\ turn = Nobody /\ send[e] = "write" /\ CanReturn(e)
  /\ send' = [send EXCEPT ![e] = "over"]
  /\ NoLonger(e)
  /\ inFlight' = inFlight \ {e}
  /\ sent' = [sent EXCEPT ![e] = @ + 1]
  /\ UNCHANGED <<up, reading, bind, lock, turn, buffer, pending, slot, reached, released, excused>>

\* What a write that did not return leaves: one copy in the buffer, unless the
\* event was acknowledged meanwhile or is not to be replayed.
Rebuffers(e) == e \notin Unbuffered /\ ~Acknowledged(e)
TakeBack(e) ==
  /\ inFlight' = inFlight \ {e} /\ pending' = pending \ {e}
  /\ IF Rebuffers(e) THEN BufferEvent(e) ELSE UNCHANGED <<buffer, released>>

\* Mutant: no drain while another recovery runs.
SkipBusyRecovery(e) ==
  /\ turn = Nobody /\ send[e] = "write"
  /\ Fails(e) \/ TimesOut(e)
  /\ NoLonger(e) /\ TakeBack(e)
  /\ IF Rebuffers(e) /\ up' /\ lock = <<>>
     THEN /\ slot' = "none" /\ lock' = Append(lock, e)
          /\ send' = [send EXCEPT ![e] = "flush"] /\ turn' = e
     ELSE send' = [send EXCEPT ![e] = "over"] /\ UNCHANGED <<slot, lock, turn>>
  /\ UNCHANGED <<reading, bind, reached, sent, excused>>

\* A failed send drains the buffer over a connection bound meanwhile.
SendFails(e) ==
  /\ turn = Nobody /\ send[e] = "write"
  /\ Fails(e) \/ TimesOut(e)
  /\ NoLonger(e) /\ TakeBack(e)
  /\ IF Rebuffers(e) /\ up'
     THEN /\ slot' = "none" /\ lock' = Append(lock, e)
          /\ IF lock = <<>>
             THEN send' = [send EXCEPT ![e] = "flush"] /\ turn' = e
             ELSE send' = [send EXCEPT ![e] = "lock"] /\ UNCHANGED turn
     ELSE send' = [send EXCEPT ![e] = "over"] /\ UNCHANGED <<slot, lock, turn>>
  /\ UNCHANGED <<reading, bind, reached, sent, excused>>

-----------------------------------------------------------------------------
(* Recovery: _flush_buffer and _resend_pending under the lock.             *)

Flushing(a) == IF a = Binder THEN bind.at = "flush" ELSE send[a] = "flush"

Acquire ==
  /\ turn = Nobody /\ lock # <<>> /\ ~Flushing(Head(lock))
  /\ IF Head(lock) = Binder
     THEN /\ bind.at = "lock" /\ bind' = [bind EXCEPT !.at = "flush"]
          /\ UNCHANGED send
     ELSE /\ send[Head(lock)] = "lock" /\ send' = [send EXCEPT ![Head(lock)] = "flush"]
          /\ UNCHANGED bind
  /\ turn' = Head(lock)
  /\ UNCHANGED <<up, reading, write, lock, store, slot, reached, sent, excused>>

\* A drain is over; a bind goes on with what is pending from before it.
Flushed(a) ==
  IF a = Binder
  THEN /\ bind' = [bind EXCEPT !.at = "resend"]
       /\ turn' = Binder /\ UNCHANGED <<send, lock>>
  ELSE /\ send' = [send EXCEPT ![a] = "over"]
       /\ turn' = Nobody /\ Leaves(a) /\ UNCHANGED bind

Flush(a) ==
  /\ turn = a /\ Flushing(a)
  /\ IF buffer = <<>> \/ ~up
     THEN Flushed(a) /\ UNCHANGED <<write, reached, pending, inFlight>>
     ELSE LET e == Head(buffer)
          IN  /\ Awaits(a, e)
              /\ pending' = pending \cup Tracked(e) /\ inFlight' = inFlight \cup Tracked(e)
              /\ turn' = Nobody /\ UNCHANGED <<bind, send, lock>>
  /\ UNCHANGED <<up, reading, buffer, released, slot, sent, excused>>

FlushReturns(a) ==
  LET e == write[a].event
  IN  /\ turn = Nobody /\ Flushing(a) /\ CanReturn(a)
      /\ NoLonger(a)
      /\ inFlight' = inFlight \ {e}
      /\ PopIfHead(e)
      /\ sent' = [sent EXCEPT ![e] = @ + 1]
      /\ turn' = a
      /\ UNCHANGED <<up, reading, bind, send, lock, pending, slot, reached, released, excused>>

\* A flush write that did not return: the copy in the buffer stays, unless the
\* event was acknowledged meanwhile.
KeepHead(e) ==
  /\ inFlight' = inFlight \ {e} /\ pending' = pending \ {e}
  /\ IF Acknowledged(e) THEN PopIfHead(e) ELSE UNCHANGED buffer
  /\ UNCHANGED released

\* In a drain the stage's deadline comes before the write's.
FlushFails(a) ==
  /\ turn = Nobody /\ Flushing(a)
  /\ Fails(a) \/ (a = Binder /\ TimesOut(a))
  /\ NoLonger(a) /\ KeepHead(write[a].event)
  /\ Flushed(a)
  /\ UNCHANGED <<reading, slot, reached, sent, excused>>

BindEnds == bind' = NoBind /\ reading' = TRUE /\ Leaves(Binder)

Resend ==
  /\ turn = Binder /\ bind.at = "resend"
  /\ turn' = Nobody
  /\ IF bind.left \cap pending = {} \/ ~up
     THEN BindEnds /\ UNCHANGED <<write, reached>>
     ELSE /\ \E e \in bind.left \cap pending :
               Awaits(Binder, e) /\ bind' = [bind EXCEPT !.left = @ \ {e}]
          /\ UNCHANGED <<reading, lock>>
  /\ UNCHANGED <<up, send, store, slot, sent, excused>>

ResendReturns ==
  /\ turn = Nobody /\ bind.at = "resend" /\ CanReturn(Binder)
  /\ NoLonger(Binder)
  /\ sent' = [sent EXCEPT ![write[Binder].event] = @ + 1]
  /\ turn' = Binder
  /\ UNCHANGED <<up, reading, bind, send, lock, store, slot, reached, excused>>

ResendFails ==
  /\ turn = Nobody /\ bind.at = "resend"
  /\ Fails(Binder) \/ TimesOut(Binder)
  /\ NoLonger(Binder) /\ BindEnds
  /\ UNCHANGED <<send, turn, store, slot, reached, sent, excused>>

-----------------------------------------------------------------------------
(* Cancellations and deadlines.                                            *)

\* The task of a send is cancelled, by a stop of its prompt or a disconnect.
Cancel(e) ==
  /\ turn = Nobody /\ send[e] \in {"write", "lock", "flush"}
  /\ send' = [send EXCEPT ![e] = "over"]
  /\ NoLonger(e) /\ Leaves(e)
  /\ excused' = TRUE
  /\ \/ send[e] = "write" /\ TakeBack(e) /\ UNCHANGED slot
     \/ send[e] = "lock" /\ UNCHANGED <<store, slot>>
     \/ send[e] = "flush" /\ KeepHead(write[e].event) /\ slot' = write[e].on
  /\ UNCHANGED <<up, reading, bind, turn, reached, sent>>

\* The deadline of a drain: in a write it retires the write's connection, and
\* waiting for the lock whatever connection a cancelled write has left.
DrainExpires(e) ==
  LET stalled == IF send[e] = "flush" THEN write[e].on ELSE slot
  IN  /\ turn = Nobody /\ send[e] \in {"lock", "flush"}
      /\ send' = [send EXCEPT ![e] = "over"]
      /\ NoLonger(e) /\ Leaves(e)
      /\ IF send[e] = "flush" THEN KeepHead(write[e].event) ELSE UNCHANGED store
      /\ slot' = "none"
      /\ up' = (up /\ stalled # "latest")
      /\ excused' = TRUE
      /\ UNCHANGED <<reading, bind, turn, reached, sent>>

-----------------------------------------------------------------------------
(* The bridge's connection loop, and the peer.                             *)

Disconnect ==
  /\ turn = Nobody /\ up /\ up' = FALSE
  /\ UNCHANGED <<reading, bind, send, write, lock, turn, store, slot, reached, sent, excused>>

\* The receive loop ends with its connection: unbind().
Unbind ==
  /\ turn = Nobody /\ reading /\ ~up /\ reading' = FALSE
  /\ UNCHANGED <<up, bind, send, write, lock, turn, store, slot, reached, sent, excused>>

Older(on) == IF on = "latest" THEN "old" ELSE on

\* Mutant: what is still being written is noted too.
BindReplaysInFlight ==
  /\ turn = Nobody /\ ~reading /\ bind.at = "off"
  /\ up' = TRUE
  /\ write' = [a \in Tasks |-> [write[a] EXCEPT !.on = Older(@)]]
  /\ slot' = Older(slot)
  /\ reached' = {} /\ excused' = FALSE
  /\ sent' = [e \in Events |-> IF e \in Critical THEN 0 ELSE sent[e]]
  /\ lock' = Append(lock, Binder)
  /\ bind' = [at |-> IF lock = <<>> THEN "flush" ELSE "lock", left |-> pending]
  /\ turn' = IF lock = <<>> THEN Binder ELSE Nobody
  /\ UNCHANGED <<reading, send, store>>

\* bind(): what is pending is noted before the connection is published.
Bind ==
  /\ turn = Nobody /\ ~reading /\ bind.at = "off"
  /\ up' = TRUE
  /\ write' = [a \in Tasks |-> [write[a] EXCEPT !.on = Older(@)]]
  /\ slot' = Older(slot)
  /\ reached' = {} /\ excused' = FALSE
  /\ sent' = [e \in Events |-> IF e \in Critical THEN 0 ELSE sent[e]]
  /\ lock' = Append(lock, Binder)
  /\ bind' = [at |-> IF lock = <<>> THEN "flush" ELSE "lock", left |-> pending \ inFlight]
  /\ turn' = IF lock = <<>> THEN Binder ELSE Nobody
  /\ UNCHANGED <<reading, send, store>>

\* The receive loop reads acknowledgements; it starts after bind().
Acknowledge(e) ==
  /\ turn = Nobody /\ reading /\ e \in reached \cap pending
  /\ pending' = pending \ {e} /\ released' = released \cup {e}
  /\ UNCHANGED <<up, reading, bind, send, write, lock, turn, buffer, inFlight, slot, reached, sent,
                 excused>>

Next ==
  \/ \E e \in Events :
       \/ Send(e) \/ SendReturns(e) \/ SendFails(e) \/ Cancel(e) \/ DrainExpires(e)
       \/ Acknowledge(e)
  \/ Acquire
  \/ \E a \in Tasks : Flush(a) \/ FlushReturns(a) \/ FlushFails(a)
  \/ Resend \/ ResendReturns \/ ResendFails
  \/ Disconnect \/ Unbind \/ Bind

Spec == Init /\ [][Next]_vars

-----------------------------------------------------------------------------
TypeOK ==
  /\ up \in BOOLEAN /\ reading \in BOOLEAN /\ excused \in BOOLEAN
  /\ bind \in [at : {"off", "lock", "flush", "resend"}, left : SUBSET Critical]
  /\ send \in [Events -> {"new", "write", "lock", "flush", "over"}]
  /\ write \in [Tasks -> [event : Events \cup {0}, on : {"none", "old", "latest"}]]
  /\ lock \in Seq(Tasks) /\ turn \in Tasks \cup {Nobody}
  /\ buffer \in Seq(Events \ Unbuffered) /\ Len(buffer) <= MaxBuffer
  /\ pending \subseteq Critical /\ inFlight \subseteq Critical
  /\ slot \in {"none", "old", "latest"}
  /\ reached \subseteq Critical /\ released \subseteq Events
  /\ sent \in [Events -> Nat]

InBuffer(e) == \E i \in 1..Len(buffer) : buffer[i] = e

\* "Critical events are retained until the control plane acknowledges them":
\* through failures, cancellations, overflow and replacement of connections,
\* one that was neither acknowledged nor evicted is buffered or pending.
CriticalsAreKept ==
  \A e \in Critical : send[e] # "new" /\ e \notin released => InBuffer(e) \/ e \in pending

\* "without sending anything twice": on one connection no critical event, and
\* on all of them no other event, is written twice.
SentOnce == \A e \in Events : sent[e] <= 1

\* Once nothing is under way on an open connection, everything kept has been
\* written to it: no failed send waits for a reconnect that may never come,
\* unless a send was cancelled or gave up waiting.
NothingStranded ==
  /\ up /\ lock = <<>> /\ \A a \in Tasks : write[a] = NoWrite
  /\ ~excused
  => buffer = <<>> /\ \A e \in pending : sent[e] = 1
=============================================================================
