------------------------- MODULE EventForwarderProofs -------------------------
(***************************************************************************)
(* Theorems about EventForwarder, for any number of events and any buffer  *)
(* size.  The invariant has four parts.  Control: the task that walks the  *)
(* buffer or sends again what is pending holds the lock, and who awaits a  *)
(* write does not run.  Data: what an event in a write is still kept by.   *)
(* Once: what waits, in the buffer, in a bind's list or in a write, was    *)
(* not written before.  Recovery: on an open connection somebody is still  *)
(* to drain what is buffered and to write what is pending.                 *)
(***************************************************************************)
EXTENDS EventForwarder, SequenceTheorems, TLAPS

-----------------------------------------------------------------------------
(* Sequences.                                                              *)

\* What is left of a sequence without one of its elements.
LEMMA RemoveOne ==
  ASSUME NEW S, NEW q \in Seq(S), NEW i \in 1..Len(q)
  PROVE  /\ RemoveAt(q, i) \in Seq(S)
         /\ Len(RemoveAt(q, i)) = Len(q) - 1
         /\ \A j \in 1..(Len(q) - 1) :
              RemoveAt(q, i)[j] = IF j < i THEN q[j] ELSE q[j + 1]
<1> DEFINE a == SubSeq(q, 1, i - 1)
           b == SubSeq(q, i + 1, Len(q))
<1>1. Len(q) \in Nat /\ i \in Nat \ {0} /\ i <= Len(q)
  OBVIOUS
<1>2. /\ a \in Seq(S) /\ Len(a) = i - 1
      /\ \A j \in 1..(i - 1) : a[j] = q[j]
  BY <1>1
<1>3. /\ b \in Seq(S) /\ Len(b) = Len(q) - i
      /\ \A j \in 1..(Len(q) - i) : b[j] = q[j + i]
  BY <1>1
<1> HIDE DEF a, b
<1>4. /\ a \o b \in Seq(S) /\ Len(a \o b) = Len(q) - 1
      /\ \A j \in 1..(Len(q) - 1) : (a \o b)[j] = IF j < i THEN a[j] ELSE b[j - (i - 1)]
  <2>1. /\ a \o b \in Seq(S) /\ Len(a \o b) = Len(a) + Len(b)
        /\ \A j \in 1..(Len(a) + Len(b)) :
             (a \o b)[j] = IF j <= Len(a) THEN a[j] ELSE b[j - Len(a)]
    BY <1>2, <1>3, ConcatProperties
  <2>2. Len(a) + Len(b) = Len(q) - 1 /\ \A j \in Nat : j <= Len(a) <=> j < i
    BY <1>1, <1>2, <1>3
  <2> QED BY <1>1, <1>2, <2>1, <2>2
<1>5. RemoveAt(q, i) = a \o b
  BY DEF RemoveAt, a, b
<1>6. ASSUME NEW j \in 1..(Len(q) - 1) PROVE (a \o b)[j] = IF j < i THEN q[j] ELSE q[j + 1]
  <2>1. CASE j < i
    BY <1>1, <1>2, <1>4, <2>1
  <2>2. CASE ~(j < i)
    <3>1. /\ j - (i - 1) \in 1..(Len(q) - i) /\ (j - (i - 1)) + i = j + 1
      BY <1>1, <2>2
    <3> QED BY <1>3, <1>4, <2>2, <3>1
  <2> QED BY <2>1, <2>2
<1> QED BY <1>4, <1>5, <1>6

\* A task that leaves the lock leaves its holder, if that is another, in place.
LEMMA LeavesFacts ==
  ASSUME NEW a \in Tasks, lock \in Seq(Tasks), Leaves(a)
  PROVE  /\ lock' \in Seq(Tasks)
         /\ \A b \in Tasks \ {a} :
              lock # <<>> /\ lock[1] = b => lock' # <<>> /\ lock'[1] = b
<1>1. CASE lock' = lock
  BY <1>1
<1>2. ASSUME NEW i \in 1..Len(lock), lock[i] = a, lock' = RemoveAt(lock, i)
      PROVE  /\ lock' \in Seq(Tasks)
             /\ \A b \in Tasks \ {a} :
                  lock # <<>> /\ lock[1] = b => lock' # <<>> /\ lock'[1] = b
  <2>1. /\ lock' \in Seq(Tasks) /\ Len(lock') = Len(lock) - 1
        /\ \A j \in 1..(Len(lock) - 1) : lock'[j] = IF j < i THEN lock[j] ELSE lock[j + 1]
    BY <1>2, RemoveOne
  <2> QED BY <1>2, <2>1
<1> QED BY <1>1, <1>2 DEF Leaves

\* A task that begins to wait for the lock leaves its holder in place.
LEMMA AppendFacts ==
  ASSUME NEW a \in Tasks, lock \in Seq(Tasks), lock' = Append(lock, a)
  PROVE  /\ lock' \in Seq(Tasks) /\ lock' # <<>>
         /\ lock # <<>> => lock'[1] = lock[1]
         /\ lock = <<>> => lock'[1] = a
  OBVIOUS

\* What the buffer holds after an event joined it: that event, no other new
\* one, and all of the others but an evicted one.
LEMMA BufferFacts ==
  ASSUME TypeOK, NEW e \in Events \ Unbuffered, BufferEvent(e)
  PROVE  /\ buffer' \in Seq(Events \ Unbuffered) /\ Len(buffer') <= MaxBuffer
         /\ released \subseteq released' /\ released' \subseteq Events
         /\ InBuffer(e)'
         /\ \A x \in Events : InBuffer(x)' => InBuffer(x) \/ x = e
         /\ \A x \in Events : InBuffer(x) => InBuffer(x)' \/ x \in released'
<1> DEFINE B == Events \ Unbuffered
<1>1. /\ buffer \in Seq(B) /\ Len(buffer) <= MaxBuffer
      /\ released \subseteq Events /\ MaxBuffer \in Nat
  BY EventsAssumption DEF TypeOK
<1>2. CASE Len(buffer) < MaxBuffer /\ buffer' = Append(buffer, e) /\ released' = released
  <2>1. /\ buffer' \in Seq(B) /\ Len(buffer') = Len(buffer) + 1
        /\ \A i \in 1..Len(buffer) : buffer'[i] = buffer[i]
        /\ buffer'[Len(buffer) + 1] = e
    BY <1>1, <1>2
  <2> HIDE DEF B
  <2>2. InBuffer(e)'
    BY <2>1, <1>1 DEF InBuffer
  <2>3. \A x \in Events : InBuffer(x)' => InBuffer(x) \/ x = e
    BY <2>1, <1>1 DEF InBuffer
  <2>4. \A x \in Events : InBuffer(x) => InBuffer(x)'
    BY <2>1, <1>1 DEF InBuffer
  <2>5. Len(buffer') <= MaxBuffer
    BY <2>1, <1>1, <1>2
  <2> QED BY <1>1, <1>2, <2>1, <2>2, <2>3, <2>4, <2>5 DEF B
<1>3. ASSUME ~(Len(buffer) < MaxBuffer), NEW i \in 1..Len(buffer),
             buffer' = Append(RemoveAt(buffer, i), e), released' = released \cup {buffer[i]}
      PROVE  /\ buffer' \in Seq(B) /\ Len(buffer') <= MaxBuffer
             /\ released \subseteq released' /\ released' \subseteq Events
             /\ InBuffer(e)'
             /\ \A x \in Events : InBuffer(x)' => InBuffer(x) \/ x = e
             /\ \A x \in Events : InBuffer(x) => InBuffer(x)' \/ x \in released'
  <2> DEFINE n == Len(buffer) - 1
             w == RemoveAt(buffer, i)
  <2>1. /\ w \in Seq(B) /\ Len(w) = n
        /\ \A j \in 1..n : w[j] = IF j < i THEN buffer[j] ELSE buffer[j + 1]
    BY <1>1, RemoveOne
  <2>2. n \in Nat /\ i \in 1..(n + 1) /\ Len(buffer) = n + 1
    BY <1>1, <1>3
  <2> HIDE DEF w, n
  <2>3. /\ buffer' \in Seq(B) /\ Len(buffer') = n + 1
        /\ \A j \in 1..n : buffer'[j] = w[j]
        /\ buffer'[n + 1] = e
    BY <1>3, <2>1, <2>2 DEF w
  <2> HIDE DEF B
  <2>4. InBuffer(e)'
    BY <2>2, <2>3 DEF InBuffer
  <2>5. ASSUME NEW x \in Events, InBuffer(x)' PROVE InBuffer(x) \/ x = e
    BY <2>1, <2>2, <2>3, <2>5 DEF InBuffer
  <2>6. ASSUME NEW x \in Events, InBuffer(x) PROVE InBuffer(x)' \/ x \in released'
    <3>1. PICK j \in 1..(n + 1) : buffer[j] = x
      BY <2>2, <2>6 DEF InBuffer
    <3>2. CASE j = i
      BY <3>1, <3>2, <1>3
    <3>3. CASE j < i
      BY <3>1, <3>3, <2>1, <2>2, <2>3 DEF InBuffer
    <3>4. CASE j > i
      <4>1. (j - 1) \in 1..n /\ ~(j - 1 < i) /\ (j - 1) + 1 = j
        BY <3>1, <3>4, <2>2
      <4>2. buffer'[j - 1] = x /\ (j - 1) \in 1..Len(buffer')
        BY <4>1, <3>1, <2>1, <2>2, <2>3
      <4> QED BY <4>2 DEF InBuffer
    <3> QED BY <3>1, <3>2, <3>3, <3>4, <2>2
  <2>7. buffer[i] \in Events
    BY <1>1, <1>3 DEF B
  <2> QED BY <1>1, <1>3, <2>2, <2>3, <2>4, <2>5, <2>6, <2>7
<1> QED BY <1>2, <1>3 DEF BufferEvent

\* A pop by identity takes no event but that one.
LEMMA PopFacts ==
  ASSUME TypeOK, NEW e, PopIfHead(e)
  PROVE  /\ buffer' \in Seq(Events \ Unbuffered) /\ Len(buffer') <= MaxBuffer
         /\ \A x \in Events : InBuffer(x)' => InBuffer(x)
         /\ \A x \in Events : InBuffer(x) => InBuffer(x)' \/ x = e
<1> DEFINE B == Events \ Unbuffered
<1>1. buffer \in Seq(B) /\ Len(buffer) <= MaxBuffer /\ MaxBuffer \in Nat
  BY EventsAssumption DEF TypeOK
<1>2. CASE buffer' = buffer
  BY <1>1, <1>2 DEF InBuffer
<1>3. CASE buffer # <<>> /\ Head(buffer) = e /\ buffer' = Tail(buffer)
  <2>1. /\ buffer' \in Seq(B) /\ Len(buffer') = Len(buffer) - 1 /\ Len(buffer) \in Nat \ {0}
        /\ \A j \in 1..(Len(buffer) - 1) : buffer'[j] = buffer[j + 1]
        /\ buffer[1] = e
    BY <1>1, <1>3
  <2> HIDE DEF B
  <2>2. ASSUME NEW x \in Events, InBuffer(x)' PROVE InBuffer(x)
    BY <2>1, <2>2 DEF InBuffer
  <2>3. ASSUME NEW x \in Events, InBuffer(x) PROVE InBuffer(x)' \/ x = e
    <3>1. PICK j \in 1..Len(buffer) : buffer[j] = x
      BY <2>3 DEF InBuffer
    <3>2. CASE j = 1
      BY <3>1, <3>2, <2>1
    <3>3. CASE j > 1
      <4>1. (j - 1) \in 1..Len(buffer') /\ buffer'[j - 1] = x
        BY <3>1, <3>3, <2>1
      <4> QED BY <4>1 DEF InBuffer
    <3> QED BY <3>1, <3>2, <3>3, <2>1
  <2>4. Len(buffer') <= MaxBuffer
    BY <1>1, <2>1
  <2> QED BY <2>1, <2>2, <2>3, <2>4 DEF B
<1> QED BY <1>2, <1>3 DEF PopIfHead

\* What the buffer holds after a flush write that did not return.
LEMMA KeepFacts ==
  ASSUME TypeOK, NEW e, KeepHead(e)
  PROVE  /\ buffer' \in Seq(Events \ Unbuffered) /\ Len(buffer') <= MaxBuffer
         /\ inFlight' \subseteq Critical /\ pending' = pending \ {e} /\ released' = released
         /\ \A x \in Events : InBuffer(x)' => InBuffer(x)
         /\ \A x \in Events : InBuffer(x) => InBuffer(x)' \/ (x = e /\ Acknowledged(e))
<1>1. /\ inFlight' \subseteq Critical /\ pending' = pending \ {e} /\ released' = released
  BY DEF KeepHead, TypeOK
<1>2. CASE Acknowledged(e) /\ PopIfHead(e)
  BY <1>1, <1>2, PopFacts
<1>3. CASE buffer' = buffer
  BY <1>1, <1>3 DEF TypeOK, InBuffer
<1> QED BY <1>2, <1>3 DEF KeepHead

\* No event is in the buffer twice.
Single == \A i, j \in 1..Len(buffer) : buffer[i] = buffer[j] => i = j

\* An event that joins a buffer without duplicates leaves the one at its head
\* there, if it is not evicted.
LEMMA BufferOrder ==
  ASSUME TypeOK, Single, NEW e \in Events \ Unbuffered, ~InBuffer(e), BufferEvent(e)
  PROVE  /\ Single'
         /\ \A x \in Events : buffer[1] = x /\ InBuffer(x) /\ InBuffer(x)' => buffer'[1] = x
<1> DEFINE B == Events \ Unbuffered
<1>1. buffer \in Seq(B) /\ e \in B
  BY DEF TypeOK
<1> HIDE DEF B
<1>2. CASE Len(buffer) < MaxBuffer /\ buffer' = Append(buffer, e)
  <2>1. /\ Len(buffer') = Len(buffer) + 1 /\ Len(buffer) \in Nat
        /\ \A i \in 1..Len(buffer) : buffer'[i] = buffer[i]
        /\ buffer'[Len(buffer) + 1] = e
    BY <1>1, <1>2
  <2>2. Single'
    BY <2>1 DEF Single, InBuffer
  <2>3. \A x \in Events : buffer[1] = x /\ InBuffer(x) => buffer'[1] = x
    BY <2>1 DEF InBuffer
  <2> QED BY <2>2, <2>3
<1>3. ASSUME NEW i \in 1..Len(buffer), buffer' = Append(RemoveAt(buffer, i), e)
      PROVE  /\ Single'
             /\ \A x \in Events : buffer[1] = x /\ InBuffer(x) /\ InBuffer(x)' => buffer'[1] = x
  <2> DEFINE n == Len(buffer) - 1
             w == RemoveAt(buffer, i)
  <2>1. /\ w \in Seq(B) /\ Len(w) = n
        /\ \A j \in 1..n : w[j] = IF j < i THEN buffer[j] ELSE buffer[j + 1]
    BY <1>1, RemoveOne
  <2>2. n \in Nat /\ i \in 1..(n + 1) /\ Len(buffer) = n + 1
    BY <1>1, <1>3
  <2> HIDE DEF w, n
  <2>3. /\ Len(buffer') = n + 1 /\ \A j \in 1..n : buffer'[j] = w[j]
        /\ buffer'[n + 1] = e
    BY <1>1, <1>3, <2>1, <2>2 DEF w
  <2>4. \A j \in 1..n : buffer'[j] = IF j < i THEN buffer[j] ELSE buffer[j + 1]
    BY <2>1, <2>3
  <2>5. \A j \in 1..n : buffer'[j] # e
    BY <2>2, <2>4 DEF InBuffer
  <2>6. \A j, k \in 1..n : buffer'[j] = buffer'[k] => j = k
    BY <2>2, <2>4 DEF Single
  <2>7. Single'
    BY <2>2, <2>3, <2>5, <2>6 DEF Single
  <2>8. ASSUME NEW x \in Events, buffer[1] = x, InBuffer(x), InBuffer(x)'
        PROVE  buffer'[1] = x
    <3>1. PICK j \in 1..(n + 1) : buffer'[j] = x
      BY <2>3, <2>8 DEF InBuffer
    <3>2. x # e
      BY <2>8
    <3>3. j \in 1..n
      BY <2>2, <2>3, <3>1, <3>2
    <3>4. i # 1
      <4>1. SUFFICES ASSUME i = 1 PROVE FALSE
        OBVIOUS
      <4>2. buffer[j + 1] = buffer[1] /\ j + 1 \in 1..Len(buffer) /\ 1 \in 1..Len(buffer)
        BY <2>2, <2>4, <2>8, <3>1, <3>3, <4>1
      <4>3. j + 1 = 1
        BY <4>2 DEF Single
      <4> QED BY <4>3, <3>3, <2>2
    <3> QED BY <2>2, <2>4, <2>8, <3>3, <3>4
  <2> QED BY <2>7, <2>8
<1> QED BY <1>2, <1>3 DEF BufferEvent

\* A pop by identity leaves no copy of what it pops, and nothing twice.
LEMMA PopOrder ==
  ASSUME TypeOK, Single, NEW e, PopIfHead(e)
  PROVE  /\ Single'
         /\ \A x \in Events : buffer[1] = x /\ x # e /\ InBuffer(x) => buffer'[1] = x
         /\ buffer[1] = e => ~InBuffer(e)'
<1> DEFINE B == Events \ Unbuffered
<1>1. buffer \in Seq(B)
  BY DEF TypeOK
<1> HIDE DEF B
<1>2. CASE buffer' = buffer /\ ~(buffer # <<>> /\ Head(buffer) = e)
  <2>1. buffer # <<>> => buffer[1] # e
    BY <1>1, <1>2
  <2>2. buffer = <<>> => ~InBuffer(e)
    BY DEF InBuffer
  <2> QED BY <1>2, <2>1, <2>2 DEF Single, InBuffer
<1>3. CASE buffer # <<>> /\ Head(buffer) = e /\ buffer' = Tail(buffer)
  <2>1. /\ Len(buffer') = Len(buffer) - 1 /\ Len(buffer) \in Nat \ {0}
        /\ \A j \in 1..(Len(buffer) - 1) : buffer'[j] = buffer[j + 1]
        /\ buffer[1] = e
    BY <1>1, <1>3
  <2>2. Single'
    BY <2>1 DEF Single
  <2>3. ~InBuffer(e)'
    BY <2>1 DEF Single, InBuffer
  <2> QED BY <2>1, <2>2, <2>3
<1> QED BY <1>2, <1>3 DEF PopIfHead

-----------------------------------------------------------------------------
(* The inductive invariant.                                                *)

\* The task that walks the buffer, or sends again what is pending.
Holds(a) == Flushing(a) \/ (a = Binder /\ bind.at = "resend")

\* That task holds the lock.
Exclusive == \A a \in Tasks : Holds(a) => lock # <<>> /\ lock[1] = a

\* Who awaits a write is not running, and is a sender or holds the lock.
Idle ==
  \A a \in Tasks : write[a].event # 0 =>
    turn # a /\ (Holds(a) \/ (a # Binder /\ send[a] = "write"))

\* An event that is not handed over, or in its first write, is not buffered.
Fresh == \A e \in Events : send[e] \in {"new", "write"} => ~InBuffer(e)

\* The event of a flush write is pending, or was acknowledged or evicted; and
\* it is still in the buffer, or was evicted.
FlushWrites ==
  \A a \in Tasks : Flushing(a) /\ write[a].event # 0 =>
    LET e == write[a].event
    IN  /\ send[e] \notin {"new", "write"}
        /\ e \in Critical => (e \in pending \/ e \in released) /\ (InBuffer(e) \/ e \in released)

\* A critical event in its first write is pending or was acknowledged.
DirectWrites ==
  \A e \in Critical : send[e] = "write" => e \in pending \/ e \in released

Control == TypeOK /\ Exclusive /\ Idle
Data == Fresh /\ FlushWrites /\ DirectWrites /\ CriticalsAreKept

-----------------------------------------------------------------------------
(* The types.                                                              *)

USE DEF Tasks, Binder, Nobody

LEMMA AwaitsType ==
  ASSUME TypeOK, NEW a \in Tasks, NEW e \in Events, Awaits(a, e)
  PROVE  /\ write' \in [Tasks -> [event : Events \cup {0}, on : {"none", "old", "latest"}]]
         /\ reached' \subseteq Critical
BY DEF TypeOK, Awaits, Tracked

LEMMA NoLongerType ==
  ASSUME TypeOK, NEW a \in Tasks, NoLonger(a)
  PROVE  write' \in [Tasks -> [event : Events \cup {0}, on : {"none", "old", "latest"}]]
BY DEF TypeOK, NoLonger, NoWrite

LEMMA CountType ==
  ASSUME TypeOK, NEW x, sent' = [sent EXCEPT ![x] = @ + 1]
  PROVE  sent' \in [Events -> Nat]
<1>1. sent \in [Events -> Nat]
  BY DEF TypeOK
<1>2. \A e \in Events : sent'[e] \in Nat
  BY <1>1
<1> QED BY <1>1, <1>2

LEMMA TakeBackType ==
  ASSUME TypeOK, NEW e \in Events, TakeBack(e)
  PROVE  /\ buffer' \in Seq(Events \ Unbuffered) /\ Len(buffer') <= MaxBuffer
         /\ pending' = pending \ {e} /\ inFlight' \subseteq Critical
         /\ released' \subseteq Events /\ released \subseteq released'
         /\ \A x \in Events : InBuffer(x)' => InBuffer(x) \/ x = e
         /\ \A x \in Events : InBuffer(x) => InBuffer(x)' \/ x \in released'
         /\ Rebuffers(e) => InBuffer(e)'
<1>1. pending' = pending \ {e} /\ inFlight' \subseteq Critical
  BY DEF TakeBack, TypeOK
<1>2. CASE Rebuffers(e) /\ BufferEvent(e)
  BY <1>1, <1>2, BufferFacts DEF Rebuffers
<1>3. CASE ~Rebuffers(e) /\ buffer' = buffer /\ released' = released
  BY <1>1, <1>3 DEF TypeOK, InBuffer
<1> QED BY <1>2, <1>3 DEF TakeBack

LEMMA FlushedType ==
  ASSUME TypeOK, NEW a \in Tasks, Flushed(a)
  PROVE  /\ bind' \in [at : {"off", "lock", "flush", "resend"}, left : SUBSET Critical]
         /\ send' \in [Events -> {"new", "write", "lock", "flush", "over"}]
         /\ lock' \in Seq(Tasks) /\ turn' \in Tasks \cup {Nobody}
<1>1. lock \in Seq(Tasks)
  BY DEF TypeOK
<1>2. CASE a = Binder
  BY <1>1, <1>2 DEF TypeOK, Flushed
<1>3. CASE a # Binder
  BY <1>1, <1>3, LeavesFacts DEF TypeOK, Flushed
<1> QED BY <1>2, <1>3

LEMMA BindEndsType ==
  ASSUME TypeOK, BindEnds
  PROVE  /\ bind' \in [at : {"off", "lock", "flush", "resend"}, left : SUBSET Critical]
         /\ reading' \in BOOLEAN /\ lock' \in Seq(Tasks)
<1>1. lock \in Seq(Tasks) /\ Binder \in Tasks
  BY DEF TypeOK
<1>2. lock' \in Seq(Tasks)
  BY <1>1, LeavesFacts DEF BindEnds
<1> QED BY <1>2 DEF BindEnds, NoBind

LEMMA TypeStep ==
  ASSUME TypeOK, [Next]_vars
  PROVE  TypeOK'
<1>1. ASSUME NEW e \in Events, Send(e) PROVE TypeOK'
  <2>1. CASE up
    <3>1. Awaits(e, e) /\ e \in Tasks
      BY <1>1, <2>1 DEF Send
    <3>2. /\ write' \in [Tasks -> [event : Events \cup {0}, on : {"none", "old", "latest"}]]
          /\ reached' \subseteq Critical
      BY <3>1, AwaitsType
    <3> QED BY <1>1, <2>1, <3>2 DEF Send, TypeOK, Tracked
  <2>2. CASE ~up /\ e \in Unbuffered
    BY <1>1, <2>2 DEF Send, TypeOK
  <2>3. CASE ~up /\ e \notin Unbuffered
    <3>1. BufferEvent(e)
      BY <1>1, <2>3 DEF Send
    <3> QED BY <1>1, <2>3, <3>1, BufferFacts DEF Send, TypeOK
  <2> QED BY <2>1, <2>2, <2>3
<1>2. ASSUME NEW e \in Events, SendReturns(e) PROVE TypeOK'
  <2>1. write' \in [Tasks -> [event : Events \cup {0}, on : {"none", "old", "latest"}]]
    BY <1>2, NoLongerType DEF SendReturns
  <2>4. sent' = [sent EXCEPT ![e] = @ + 1]
    BY <1>2 DEF SendReturns
  <2>5. sent' \in [Events -> Nat]
    BY <2>4, CountType
  <2> QED BY <1>2, <2>5, <2>1 DEF SendReturns, TypeOK
<1>3. ASSUME NEW e \in Events, SendFails(e) PROVE TypeOK'
  <2>1. write' \in [Tasks -> [event : Events \cup {0}, on : {"none", "old", "latest"}]]
    BY <1>3, NoLongerType DEF SendFails
  <2>2. TakeBack(e)
    BY <1>3 DEF SendFails
  <2>3. lock' = lock \/ lock' = Append(lock, e)
    BY <1>3 DEF SendFails
  <2>4. lock' \in Seq(Tasks)
    BY <2>3, AppendFacts DEF TypeOK
  <2>5. /\ buffer' \in Seq(Events \ Unbuffered) /\ Len(buffer') <= MaxBuffer
        /\ pending' \subseteq Critical /\ inFlight' \subseteq Critical
        /\ released' \subseteq Events
    BY <2>2, TakeBackType DEF TypeOK
  <2>6. /\ send' \in [Events -> {"new", "write", "lock", "flush", "over"}]
        /\ slot' \in {"none", "old", "latest"} /\ turn' \in Tasks \cup {Nobody}
    BY <1>3 DEF SendFails, TypeOK
  <2>7. up' \in BOOLEAN /\ UNCHANGED <<reading, bind, reached, sent, excused>>
    BY <1>3 DEF SendFails, Fails, TimesOut, TypeOK
  <2> QED BY <2>1, <2>4, <2>5, <2>6, <2>7 DEF TypeOK
<1>4. ASSUME NEW e \in Events, Cancel(e) PROVE TypeOK'
  <2>1. write' \in [Tasks -> [event : Events \cup {0}, on : {"none", "old", "latest"}]]
    BY <1>4, NoLongerType DEF Cancel
  <2>2. lock' \in Seq(Tasks)
    BY <1>4, LeavesFacts DEF Cancel, TypeOK
  <2>3. /\ buffer' \in Seq(Events \ Unbuffered) /\ Len(buffer') <= MaxBuffer
        /\ pending' \subseteq Critical /\ inFlight' \subseteq Critical
        /\ released' \subseteq Events /\ slot' \in {"none", "old", "latest"}
    <3>1. CASE TakeBack(e) /\ UNCHANGED slot
      BY <3>1, TakeBackType DEF TypeOK
    <3>2. CASE UNCHANGED <<store, slot>>
      BY <3>2 DEF TypeOK, store
    <3>3. CASE KeepHead(write[e].event) /\ slot' = write[e].on
      BY <3>3, KeepFacts DEF TypeOK
    <3> QED BY <1>4, <3>1, <3>2, <3>3 DEF Cancel
  <2> QED BY <1>4, <2>1, <2>2, <2>3 DEF Cancel, TypeOK
<1>5. ASSUME NEW e \in Events, DrainExpires(e) PROVE TypeOK'
  <2>1. write' \in [Tasks -> [event : Events \cup {0}, on : {"none", "old", "latest"}]]
    BY <1>5, NoLongerType DEF DrainExpires
  <2>2. lock' \in Seq(Tasks)
    BY <1>5, LeavesFacts DEF DrainExpires, TypeOK
  <2>3. /\ buffer' \in Seq(Events \ Unbuffered) /\ Len(buffer') <= MaxBuffer
        /\ pending' \subseteq Critical /\ inFlight' \subseteq Critical
        /\ released' \subseteq Events
    <3>1. CASE UNCHANGED store
      BY <3>1 DEF TypeOK, store
    <3>2. CASE KeepHead(write[e].event)
      BY <3>2, KeepFacts DEF TypeOK
    <3> QED BY <1>5, <3>1, <3>2 DEF DrainExpires
  <2>4. up' \in BOOLEAN /\ slot' = "none"
    BY <1>5 DEF DrainExpires, TypeOK
  <2> QED BY <1>5, <2>1, <2>2, <2>3, <2>4 DEF DrainExpires, TypeOK
<1>6. ASSUME NEW e \in Events, Acknowledge(e) PROVE TypeOK'
  BY <1>6 DEF Acknowledge, TypeOK
<1>7. ASSUME Acquire PROVE TypeOK'
  <2>1. Head(lock) \in Tasks
    BY <1>7 DEF Acquire, TypeOK
  <2> QED BY <1>7, <2>1 DEF Acquire, TypeOK, store
<1>8. ASSUME NEW a \in Tasks, Flush(a) PROVE TypeOK'
  <2>1. CASE Flushed(a) /\ UNCHANGED <<write, reached, pending, inFlight>>
    BY <1>8, <2>1, FlushedType DEF Flush, TypeOK
  <2>2. CASE ~(buffer = <<>> \/ ~up)
    <3>1. Head(buffer) \in Events
      BY <2>2 DEF TypeOK
    <3>2. Awaits(a, Head(buffer))
      BY <1>8, <2>2 DEF Flush
    <3>3. /\ write' \in [Tasks -> [event : Events \cup {0}, on : {"none", "old", "latest"}]]
          /\ reached' \subseteq Critical
      BY <3>1, <3>2, AwaitsType
    <3> QED BY <1>8, <2>2, <3>1, <3>3 DEF Flush, TypeOK, Tracked
  <2> QED BY <1>8, <2>1, <2>2 DEF Flush
<1>9. ASSUME NEW a \in Tasks, FlushReturns(a) PROVE TypeOK'
  <2>1. write' \in [Tasks -> [event : Events \cup {0}, on : {"none", "old", "latest"}]]
    BY <1>9, NoLongerType DEF FlushReturns
  <2>2. PopIfHead(write[a].event)
    BY <1>9 DEF FlushReturns
  <2>3. buffer' \in Seq(Events \ Unbuffered) /\ Len(buffer') <= MaxBuffer
    BY <2>2, PopFacts
  <2>4. sent' = [sent EXCEPT ![write[a].event] = @ + 1]
    BY <1>9 DEF FlushReturns
  <2>5. sent' \in [Events -> Nat]
    BY <2>4, CountType
  <2> QED BY <1>9, <2>5, <2>1, <2>3 DEF FlushReturns, TypeOK
<1>10. ASSUME NEW a \in Tasks, FlushFails(a) PROVE TypeOK'
  <2>1. write' \in [Tasks -> [event : Events \cup {0}, on : {"none", "old", "latest"}]]
    BY <1>10, NoLongerType DEF FlushFails
  <2>2. KeepHead(write[a].event) /\ Flushed(a)
    BY <1>10 DEF FlushFails
  <2>3. up' \in BOOLEAN
    BY <1>10 DEF FlushFails, Fails, TimesOut, TypeOK
  <2>4. /\ buffer' \in Seq(Events \ Unbuffered) /\ Len(buffer') <= MaxBuffer
        /\ pending' \subseteq Critical /\ inFlight' \subseteq Critical
        /\ released' \subseteq Events
    BY <2>2, KeepFacts DEF TypeOK
  <2> QED BY <1>10, <2>1, <2>2, <2>3, <2>4, FlushedType DEF FlushFails, TypeOK
<1>11. ASSUME Resend PROVE TypeOK'
  <2>1. CASE BindEnds /\ UNCHANGED <<write, reached>>
    BY <1>11, <2>1, BindEndsType DEF Resend, TypeOK, store
  <2>2. ASSUME NEW e \in bind.left \cap pending, Awaits(Binder, e),
               bind' = [bind EXCEPT !.left = @ \ {e}], UNCHANGED <<reading, lock>>
        PROVE  TypeOK'
    <3>1. e \in Events /\ Binder \in Tasks
      BY <2>2, EventsAssumption DEF TypeOK
    <3>2. /\ write' \in [Tasks -> [event : Events \cup {0}, on : {"none", "old", "latest"}]]
          /\ reached' \subseteq Critical
      BY <3>1, <2>2, AwaitsType
    <3> QED BY <1>11, <2>2, <3>2 DEF Resend, TypeOK, store
  <2> QED BY <1>11, <2>1, <2>2 DEF Resend
<1>12. ASSUME ResendReturns PROVE TypeOK'
  <2>1. write' \in [Tasks -> [event : Events \cup {0}, on : {"none", "old", "latest"}]]
    BY <1>12, NoLongerType DEF ResendReturns
  <2>4. sent' = [sent EXCEPT ![write[Binder].event] = @ + 1]
    BY <1>12 DEF ResendReturns
  <2>5. sent' \in [Events -> Nat]
    BY <2>4, CountType
  <2> QED BY <1>12, <2>5, <2>1 DEF ResendReturns, TypeOK, store
<1>13. ASSUME ResendFails PROVE TypeOK'
  <2>1. write' \in [Tasks -> [event : Events \cup {0}, on : {"none", "old", "latest"}]]
    BY <1>13, NoLongerType DEF ResendFails
  <2>2. BindEnds /\ up' \in BOOLEAN
    BY <1>13 DEF ResendFails, Fails, TimesOut, TypeOK
  <2> QED BY <1>13, <2>1, <2>2, BindEndsType DEF ResendFails, TypeOK, store
<1>14. ASSUME Disconnect PROVE TypeOK'
  BY <1>14 DEF Disconnect, TypeOK, store
<1>15. ASSUME Unbind PROVE TypeOK'
  BY <1>15 DEF Unbind, TypeOK, store
<1>16. ASSUME Bind PROVE TypeOK'
  <2>1. lock' \in Seq(Tasks)
    BY <1>16, AppendFacts DEF Bind, TypeOK
  <2>2. write' \in [Tasks -> [event : Events \cup {0}, on : {"none", "old", "latest"}]]
    <3>1. \A a \in Tasks :
            [write[a] EXCEPT !.on = Older(@)]
              \in [event : Events \cup {0}, on : {"none", "old", "latest"}]
      BY DEF TypeOK, Older
    <3> QED BY <1>16, <3>1 DEF Bind
  <2>3. sent' \in [Events -> Nat]
    BY <1>16 DEF Bind, TypeOK
  <2> QED BY <1>16, <2>1, <2>2, <2>3 DEF Bind, TypeOK, store, Older
<1>17. ASSUME UNCHANGED vars PROVE TypeOK'
  BY <1>17 DEF TypeOK, vars, store
<1> QED
  BY <1>1, <1>2, <1>3, <1>4, <1>5, <1>6, <1>7, <1>8, <1>9, <1>10, <1>11, <1>12, <1>13, <1>14,
     <1>15, <1>16, <1>17 DEF Next

-----------------------------------------------------------------------------
(* One task holds the lock, and who awaits a write does not run.           *)

LEMMA ExclusiveStep ==
  ASSUME Control, TypeOK', Next
  PROVE  Exclusive'
<1> USE DEF Control
<1>0. /\ lock \in Seq(Tasks) /\ DOMAIN send = Events /\ Binder \in Tasks /\ Binder \notin Events
      /\ DOMAIN bind = {"at", "left"}
  BY DEF TypeOK, Events
<1>1. ASSUME NEW e \in Events, Send(e) \/ SendReturns(e) PROVE Exclusive'
  <2>1. \A b \in Tasks : Holds(b)' => Holds(b)
    BY <1>0, <1>1 DEF Send, SendReturns, Holds, Flushing
  <2> QED BY <2>1, <1>1 DEF Send, SendReturns, Exclusive
<1>2. ASSUME NEW e \in Events, SendFails(e) PROVE Exclusive'
  <2>1. \A b \in Tasks \ {e} : Holds(b)' => Holds(b)
    BY <1>0, <1>2 DEF SendFails, Holds, Flushing
  <2>2. CASE lock' = lock /\ send'[e] = "over"
    <3>1. ~Holds(e)'
      BY <1>0, <2>2 DEF Holds, Flushing
    <3> QED BY <2>1, <2>2, <3>1 DEF Exclusive
  <2>3. CASE lock' = Append(lock, e) /\ (send'[e] = "flush" => lock = <<>>)
    <3>1. Holds(e)' => lock = <<>>
      BY <1>0, <2>3 DEF Holds, Flushing
    <3>2. /\ lock' # <<>> /\ lock # <<>> => lock'[1] = lock[1]
          /\ lock = <<>> => lock'[1] = e
      BY <1>0, <2>3, AppendFacts
    <3>3. lock' # <<>>
      BY <1>0, <2>3, AppendFacts
    <3> QED BY <2>1, <3>1, <3>2, <3>3 DEF Exclusive
  <2> QED BY <1>0, <1>2, <2>2, <2>3 DEF SendFails
<1>3. ASSUME NEW e \in Events, Cancel(e) \/ DrainExpires(e) PROVE Exclusive'
  <2>1. \A b \in Tasks : Holds(b)' => Holds(b) /\ b # e
    BY <1>0, <1>3 DEF Cancel, DrainExpires, Holds, Flushing
  <2>2. \A b \in Tasks \ {e} : lock # <<>> /\ lock[1] = b => lock' # <<>> /\ lock'[1] = b
    BY <1>0, <1>3, LeavesFacts DEF Cancel, DrainExpires
  <2> QED BY <2>1, <2>2 DEF Exclusive
<1>4. ASSUME NEW e \in Events, Acknowledge(e) PROVE Exclusive'
  BY <1>4 DEF Acknowledge, Exclusive, Holds, Flushing
<1>5. ASSUME Acquire PROVE Exclusive'
  <2>1. lock # <<>> /\ lock' = lock /\ Head(lock) = lock[1] /\ Head(lock) \in Tasks
    BY <1>0, <1>5 DEF Acquire
  <2>2. \A b \in Tasks \ {Head(lock)} : Holds(b)' => Holds(b)
    BY <1>0, <1>5, <2>1 DEF Acquire, Holds, Flushing
  <2>3. \A b \in Tasks : Holds(b) => b = Head(lock)
    BY <2>1 DEF Exclusive
  <2> QED BY <2>1, <2>2, <2>3 DEF Exclusive
<1>6. ASSUME NEW a \in Tasks, Flush(a) \/ FlushFails(a) PROVE Exclusive'
  <2>0. Flushing(a)
    BY <1>6 DEF Flush, FlushFails
  <2>1. CASE UNCHANGED <<bind, send, lock>>
    BY <2>1 DEF Exclusive, Holds, Flushing
  <2>2. CASE Flushed(a) /\ a = Binder
    <3>1. lock' = lock /\ \A b \in Tasks : Holds(b)' => Holds(b)
      BY <1>0, <2>0, <2>2 DEF Flushed, Holds, Flushing
    <3> QED BY <3>1 DEF Exclusive
  <2>3. CASE Flushed(a) /\ a # Binder
    <3>1. \A b \in Tasks : Holds(b)' => Holds(b) /\ b # a
      BY <1>0, <2>0, <2>3 DEF Flushed, Holds, Flushing
    <3>2. \A b \in Tasks \ {a} : lock # <<>> /\ lock[1] = b => lock' # <<>> /\ lock'[1] = b
      BY <1>0, <2>3, LeavesFacts DEF Flushed
    <3> QED BY <3>1, <3>2 DEF Exclusive
  <2> QED BY <1>6, <2>1, <2>2, <2>3 DEF Flush, FlushFails
<1>7. ASSUME NEW a \in Tasks, FlushReturns(a) PROVE Exclusive'
  BY <1>7 DEF FlushReturns, Exclusive, Holds, Flushing
<1>8. ASSUME Resend \/ ResendFails PROVE Exclusive'
  <2>1. CASE BindEnds
    <3>1. \A b \in Tasks : Holds(b)' => Holds(b) /\ b # Binder
      BY <1>0, <1>8, <2>1 DEF Resend, ResendFails, BindEnds, NoBind, Holds, Flushing
    <3>2. \A b \in Tasks \ {Binder} :
            lock # <<>> /\ lock[1] = b => lock' # <<>> /\ lock'[1] = b
      BY <1>0, <2>1, LeavesFacts DEF BindEnds
    <3> QED BY <3>1, <3>2 DEF Exclusive
  <2>2. CASE UNCHANGED <<lock, send>> /\ bind'.at = bind.at
    BY <2>2 DEF Exclusive, Holds, Flushing
  <2> QED BY <1>0, <1>8, <2>1, <2>2 DEF Resend, ResendFails
<1>9. ASSUME ResendReturns \/ Disconnect \/ Unbind PROVE Exclusive'
  BY <1>9 DEF ResendReturns, Disconnect, Unbind, Exclusive, Holds, Flushing
<1>10. ASSUME Bind PROVE Exclusive'
  <2>1. /\ lock' \in Seq(Tasks) /\ lock' # <<>>
        /\ lock # <<>> => lock'[1] = lock[1]
        /\ lock = <<>> => lock'[1] = Binder
    BY <1>0, <1>10, AppendFacts DEF Bind
  <2>2. \A b \in Tasks : Holds(b)' => (Holds(b) /\ lock # <<>>) \/ (b = Binder /\ lock = <<>>)
    BY <1>0, <1>10 DEF Bind, Holds, Flushing, Exclusive
  <2> QED BY <2>1, <2>2 DEF Exclusive
<1> QED
  BY <1>1, <1>2, <1>3, <1>4, <1>5, <1>6, <1>7, <1>8, <1>9, <1>10 DEF Next

LEMMA IdleStep ==
  ASSUME Control, Next
  PROVE  Idle'
<1> USE DEF Control
<1>0. /\ lock \in Seq(Tasks) /\ DOMAIN send = Events /\ Binder \in Tasks /\ Binder \notin Events
      /\ DOMAIN bind = {"at", "left"} /\ DOMAIN write = Tasks /\ Nobody \notin Tasks
      /\ \A e \in Events : e \in Tasks
      /\ NoWrite.event = 0
  BY DEF TypeOK, Events, NoWrite
<1>1. ASSUME NEW e \in Events, Send(e) PROVE Idle'
  <2>1. CASE up
    BY <1>0, <1>1, <2>1 DEF Send, Awaits, Idle, Holds, Flushing
  <2>2. CASE ~up
    BY <1>0, <1>1, <2>2 DEF Send, Idle, Holds, Flushing
  <2> QED BY <2>1, <2>2
<1>2. ASSUME NEW e \in Events, SendReturns(e) PROVE Idle'
  BY <1>0, <1>2 DEF SendReturns, NoLonger, Idle, Holds, Flushing
<1>3. ASSUME NEW e \in Events, SendFails(e) PROVE Idle'
  <2>1. /\ write' = [write EXCEPT ![e] = NoWrite] /\ UNCHANGED bind
        /\ turn' = turn \/ turn' = e
        /\ \A x \in Events \ {e} : send'[x] = send[x]
    BY <1>0, <1>3 DEF SendFails, NoLonger
  <2>2. \A b \in Tasks \ {e} : write'[b] = write[b] /\ (Holds(b) => Holds(b)')
    BY <1>0, <2>1 DEF Holds, Flushing
  <2>3. write'[e].event = 0
    BY <1>0, <2>1
  <2> QED BY <1>0, <2>1, <2>2, <2>3 DEF Idle
<1>4. ASSUME NEW e \in Events, Cancel(e) \/ DrainExpires(e) PROVE Idle'
  BY <1>0, <1>4 DEF Cancel, DrainExpires, NoLonger, Idle, Holds, Flushing
<1>5. ASSUME NEW e \in Events, Acknowledge(e) PROVE Idle'
  BY <1>5 DEF Acknowledge, Idle, Holds, Flushing
<1>6. ASSUME Acquire PROVE Idle'
  <2>1. lock # <<>> /\ Head(lock) = lock[1] /\ Head(lock) \in Tasks
    BY <1>0, <1>6 DEF Acquire
  <2>2. ~Holds(Head(lock))
    BY <1>6 DEF Acquire, Holds
  <2>3. Head(lock) # Binder => send[Head(lock)] # "write"
    BY <1>6 DEF Acquire
  <2> QED BY <1>0, <1>6, <2>1, <2>2, <2>3 DEF Acquire, Idle, Holds, Flushing
<1>7. ASSUME NEW a \in Tasks, Flush(a) PROVE Idle'
  <2>0. Flushing(a) /\ write[a].event = 0
    BY <1>7 DEF Flush, Idle
  <2>1. CASE Flushed(a) /\ UNCHANGED write
    BY <1>0, <2>0, <2>1, <1>7 DEF Flush, Flushed, Idle, Holds, Flushing
  <2>2. CASE Awaits(a, Head(buffer)) /\ turn' = Nobody /\ UNCHANGED <<bind, send>>
    BY <1>0, <2>0, <2>2 DEF Awaits, Idle, Holds, Flushing
  <2> QED BY <1>7, <2>1, <2>2 DEF Flush
<1>8. ASSUME NEW a \in Tasks, FlushFails(a) PROVE Idle'
  <2>0. write' = [write EXCEPT ![a] = NoWrite] /\ turn = Nobody /\ Flushing(a) /\ Flushed(a)
    BY <1>8 DEF FlushFails, NoLonger
  <2> QED BY <1>0, <2>0 DEF Flushed, Idle, Holds, Flushing
<1>9. ASSUME NEW a \in Tasks, FlushReturns(a) PROVE Idle'
  BY <1>0, <1>9 DEF FlushReturns, NoLonger, Idle, Holds, Flushing
<1>10. ASSUME Resend PROVE Idle'
  <2>0. turn = Binder /\ write[Binder].event = 0 /\ turn' = Nobody /\ UNCHANGED send
    BY <1>0, <1>10 DEF Resend, Idle
  <2>1. CASE BindEnds /\ UNCHANGED write
    BY <1>0, <2>0, <2>1 DEF BindEnds, Idle, Holds, Flushing
  <2>2. ASSUME NEW e, Awaits(Binder, e), bind'.at = bind.at, bind.at = "resend" PROVE Idle'
    BY <1>0, <2>0, <2>2 DEF Awaits, Idle, Holds, Flushing
  <2> QED BY <1>0, <1>10, <2>1, <2>2 DEF Resend
<1>11. ASSUME ResendReturns \/ ResendFails PROVE Idle'
  BY <1>0, <1>11 DEF ResendReturns, ResendFails, BindEnds, NoLonger, Idle, Holds, Flushing
<1>12. ASSUME Disconnect \/ Unbind PROVE Idle'
  BY <1>12 DEF Disconnect, Unbind, Idle, Holds, Flushing
<1>13. ASSUME Bind PROVE Idle'
  <2>1. \A a \in Tasks : write'[a].event = write[a].event
    <3>1. \A a \in Tasks : write[a] \in [event : Events \cup {0}, on : {"none", "old", "latest"}]
      BY DEF TypeOK
    <3> QED BY <3>1, <1>13 DEF Bind
  <2>2. write[Binder].event = 0
    BY <1>0, <1>13 DEF Bind, Idle, Holds, Flushing
  <2> QED BY <1>0, <1>13, <2>1, <2>2 DEF Bind, Idle, Holds, Flushing
<1> QED
  BY <1>1, <1>2, <1>3, <1>4, <1>5, <1>6, <1>7, <1>8, <1>9, <1>10, <1>11, <1>12, <1>13 DEF Next

-----------------------------------------------------------------------------
(* What is kept.                                                           *)

\* A step that starts no flush write, hands no event over and returns none to
\* its first write; it may buffer, acknowledge or evict, but takes no critical
\* event out of both the buffer and what is pending.
LEMMA KeptFrame ==
  ASSUME Control, Data,
         \A e \in Events : InBuffer(e)' => InBuffer(e) \/ send'[e] \notin {"new", "write"},
         \A e \in Events : send'[e] \in {"new", "write"} => send[e] \in {"new", "write"},
         \A e \in Critical : send'[e] # "new" => send[e] # "new" \/ InBuffer(e)' \/ e \in pending',
         \A e \in Critical : send'[e] = "write" => send[e] = "write" \/ e \in pending',
         \A a \in Tasks : Flushing(a)' /\ write'[a].event # 0 =>
           /\ Flushing(a) /\ write'[a].event = write[a].event
           /\ LET e == write[a].event
              IN  /\ e \in pending => e \in pending' \/ e \in released'
                  /\ InBuffer(e) => InBuffer(e)' \/ e \in released',
         \A e \in Critical :
           send'[e] = "write" /\ e \in pending => e \in pending' \/ e \in released',
         released \subseteq released',
         \A e \in Critical : InBuffer(e) \/ e \in pending =>
           InBuffer(e)' \/ e \in pending' \/ e \in released'
  PROVE  Data'
<1>0. Critical \subseteq Events /\ \A a \in Tasks : write[a].event # 0 => write[a].event \in Events
  BY EventsAssumption DEF Control, TypeOK
<1>1. Fresh'
  BY DEF Data, Fresh
<1>2. FlushWrites'
  BY <1>0 DEF Data, FlushWrites
<1>3. DirectWrites'
  BY <1>0 DEF Data, DirectWrites
<1>4. CriticalsAreKept'
  BY <1>0 DEF Data, CriticalsAreKept
<1> QED BY <1>1, <1>2, <1>3, <1>4 DEF Data

LEMMA DataStep ==
  ASSUME Control, Data, Next
  PROVE  Data'
<1>0. /\ DOMAIN send = Events /\ Binder \notin Events /\ DOMAIN bind = {"at", "left"}
      /\ DOMAIN write = Tasks /\ NoWrite.event = 0 /\ TypeOK /\ Critical \subseteq Events
      /\ \A e \in Events : e \in Tasks
  BY EventsAssumption DEF Control, TypeOK, Events, NoWrite
<1>1. ASSUME NEW e \in Events, Send(e) PROVE Data'
  <2>1. send[e] = "new" /\ ~Flushing(e) /\ UNCHANGED bind
    BY <1>0, <1>1 DEF Send, Flushing
  <2>2. \A x \in Events \ {e} : send'[x] = send[x]
    BY <1>0, <1>1 DEF Send
  <2>3. CASE up
    <3>1. /\ send'[e] = "write" /\ pending' = pending \cup Tracked(e)
          /\ UNCHANGED <<buffer, released>> /\ e \in Tasks
          /\ \A b \in Tasks \ {e} : write'[b] = write[b]
      BY <1>0, <1>1, <2>3 DEF Send, Awaits
    <3>2. \A b \in Tasks : Flushing(b)' => Flushing(b) /\ b # e
      BY <1>0, <2>1, <2>2, <3>1 DEF Flushing
    <3> QED BY <1>0, <2>1, <2>2, <3>1, <3>2, KeptFrame DEF InBuffer, Tracked
  <2>4. CASE ~up
    <3>1. /\ send'[e] = "over" /\ pending' = pending /\ write' = write
          /\ IF e \in Unbuffered THEN UNCHANGED <<buffer, released>> ELSE BufferEvent(e)
      BY <1>0, <1>1, <2>4 DEF Send
    <3>2. \A b \in Tasks : Flushing(b)' => Flushing(b)
      BY <1>0, <2>1, <2>2, <3>1 DEF Flushing
    <3>3. /\ released \subseteq released'
          /\ \A x \in Events : InBuffer(x)' => InBuffer(x) \/ x = e
          /\ \A x \in Events : InBuffer(x) => InBuffer(x)' \/ x \in released'
          /\ e \in Critical => InBuffer(e)'
      BY <1>0, <3>1, BufferFacts, EventsAssumption DEF InBuffer
    <3> QED BY <1>0, <2>1, <2>2, <3>1, <3>2, <3>3, KeptFrame DEF Control, TypeOK
  <2> QED BY <2>3, <2>4
<1>2. ASSUME NEW e \in Events, SendReturns(e) PROVE Data'
  <2>1. /\ UNCHANGED <<buffer, pending, released, bind>>
        /\ send' = [send EXCEPT ![e] = "over"] /\ send[e] = "write"
        /\ \A b \in Tasks \ {e} : write'[b] = write[b]
    BY <1>0, <1>2 DEF SendReturns, NoLonger
  <2>2. \A b \in Tasks : Flushing(b)' => Flushing(b) /\ b # e
    BY <1>0, <2>1 DEF Flushing
  <2> QED BY <1>0, <2>1, <2>2, KeptFrame DEF InBuffer
<1>3. ASSUME NEW e \in Events, SendFails(e) PROVE Data'
  <2>1. /\ send[e] = "write" /\ send'[e] \in {"over", "lock", "flush"} /\ UNCHANGED bind
        /\ \A x \in Events \ {e} : send'[x] = send[x]
        /\ \A b \in Tasks \ {e} : write'[b] = write[b]
        /\ write'[e].event = 0 /\ TakeBack(e)
    BY <1>0, <1>3 DEF SendFails, NoLonger
  <2>2. \A b \in Tasks : Flushing(b)' /\ write'[b].event # 0 =>
          Flushing(b) /\ b # e /\ write[b].event # e
    BY <1>0, <2>1 DEF Flushing, Data, FlushWrites
  <2>3. e \in Critical /\ ~Rebuffers(e) => e \in released
    BY <1>0, <2>1, EventsAssumption DEF Data, DirectWrites, Rebuffers, Acknowledged
  <2>4. /\ \A x \in Events : InBuffer(x)' => InBuffer(x) \/ x = e
        /\ \A x \in Events : InBuffer(x) => InBuffer(x)' \/ x \in released'
        /\ pending' = pending \ {e} /\ released \subseteq released'
        /\ e \in Critical => InBuffer(e)' \/ e \in released'
    BY <1>0, <2>1, <2>3, TakeBackType
  <2>5. Fresh' /\ DirectWrites' /\ CriticalsAreKept'
    BY <1>0, <2>1, <2>2, <2>4 DEF Data, Fresh, DirectWrites, CriticalsAreKept
  <2>6. FlushWrites'
    BY <1>0, <2>1, <2>2, <2>4 DEF Data, FlushWrites, TypeOK
  <2> QED BY <2>5, <2>6 DEF Data
<1>4. ASSUME NEW e \in Events, NEW a \in Tasks, Holds(a), Flushing(a), KeepHead(write[a].event),
             write[a].event = e, write'[a].event = 0,
             \A x \in Events : send'[x] = send[x] \/ (send[x] = "flush" /\ send'[x] = "over"),
             \A b \in Tasks \ {a} : write'[b] = write[b],
             \A b \in Tasks : Flushing(b)' => Flushing(b)
      PROVE  Data'
  <2>1. /\ send[e] \notin {"new", "write"}
        /\ e \in Critical => (e \in pending \/ e \in released) /\ (InBuffer(e) \/ e \in released)
    BY <1>0, <1>4 DEF Data, FlushWrites, Events
  <2>2. \A b \in Tasks : Flushing(b) => b = a
    BY <1>4 DEF Control, Exclusive, Holds
  <2>3. /\ pending' = pending \ {e} /\ released' = released
        /\ \A x \in Events : InBuffer(x)' => InBuffer(x)
        /\ \A x \in Events : InBuffer(x) => InBuffer(x)' \/ (x = e /\ Acknowledged(e))
    BY <1>0, <1>4, KeepFacts
  <2>4. e \in Critical => InBuffer(e)' \/ e \in released'
    BY <2>1, <2>3 DEF Acknowledged
  <2> QED BY <1>0, <1>4, <2>1, <2>2, <2>3, <2>4, KeptFrame
<1>5. ASSUME NEW a \in Tasks, KeepHead(write[a].event), write[a].event = 0,
             \A x \in Events : send'[x] = send[x] \/ (send[x] = "flush" /\ send'[x] = "over"),
             \A b \in Tasks \ {a} : write'[b] = write[b], write'[a].event = 0,
             \A b \in Tasks : Flushing(b)' => Flushing(b)
      PROVE  Data'
  <2>1. 0 \notin Events /\ 0 \notin Critical /\ pending \subseteq Critical
    BY <1>0 DEF TypeOK, Events
  <2>2. /\ pending' = pending \ {0} /\ released' = released
        /\ \A x \in Events : InBuffer(x)' => InBuffer(x)
        /\ \A x \in Events : InBuffer(x) => InBuffer(x)' \/ x = 0
    BY <1>0, <1>5, KeepFacts
  <2>3. /\ pending' = pending
        /\ \A x \in Events : InBuffer(x) <=> InBuffer(x)'
    BY <2>1, <2>2
  <2>4. \A b \in Tasks : Flushing(b)' /\ write'[b].event # 0 =>
          Flushing(b) /\ write'[b].event = write[b].event
    BY <1>5
  <2>5. \A x \in Events : send'[x] \in {"new", "write"} => send'[x] = send[x]
    BY <1>5
  <2>6. \A x \in Events : send[x] = "new" => send'[x] = "new"
    BY <1>5
  <2>7. Fresh' /\ DirectWrites' /\ CriticalsAreKept'
    BY <1>0, <2>2, <2>3, <2>5, <2>6 DEF Data, Fresh, DirectWrites, CriticalsAreKept
  <2>8. FlushWrites'
    <3> SUFFICES ASSUME NEW b \in Tasks, Flushing(b)', write'[b].event # 0
                 PROVE  LET x == write[b].event
                        IN  /\ send'[x] \notin {"new", "write"}
                            /\ x \in Critical =>
                                  /\ x \in pending' \/ x \in released'
                                  /\ InBuffer(x)' \/ x \in released'
      BY <2>4 DEF FlushWrites
    <3>1. write[b].event \in Events
      BY <1>0, <2>4 DEF TypeOK
    <3> QED BY <1>0, <2>2, <2>3, <2>4, <2>5, <3>1 DEF Data, FlushWrites
  <2> QED BY <2>7, <2>8 DEF Data
<1>6. ASSUME NEW e \in Events, Cancel(e) \/ DrainExpires(e) PROVE Data'
  <2>1. /\ send' = [send EXCEPT ![e] = "over"] /\ send[e] \in {"write", "lock", "flush"}
        /\ UNCHANGED bind /\ write' = [write EXCEPT ![e] = NoWrite]
    BY <1>6 DEF Cancel, DrainExpires, NoLonger
  <2>2. /\ \A x \in Events \ {e} : send'[x] = send[x]
        /\ send'[e] = "over" /\ write'[e].event = 0
        /\ \A b \in Tasks \ {e} : write'[b] = write[b]
        /\ \A b \in Tasks : Flushing(b)' => Flushing(b) /\ b # e
    BY <1>0, <2>1 DEF Flushing
  <2>3. CASE send[e] = "write" /\ TakeBack(e)
    <3>1. \A b \in Tasks : Flushing(b)' /\ write'[b].event # 0 => write[b].event # e
      BY <1>0, <2>2, <2>3 DEF Data, FlushWrites
    <3>2. e \in Critical /\ ~Rebuffers(e) => e \in released
      BY <1>0, <2>3, EventsAssumption DEF Data, DirectWrites, Rebuffers, Acknowledged
    <3>3. /\ \A x \in Events : InBuffer(x)' => InBuffer(x) \/ x = e
          /\ \A x \in Events : InBuffer(x) => InBuffer(x)' \/ x \in released'
          /\ pending' = pending \ {e} /\ released \subseteq released'
          /\ e \in Critical => InBuffer(e)' \/ e \in released'
      BY <1>0, <2>3, <3>2, TakeBackType
    <3>4. Fresh' /\ DirectWrites' /\ CriticalsAreKept'
      BY <1>0, <2>2, <2>3, <3>1, <3>3 DEF Data, Fresh, DirectWrites, CriticalsAreKept
    <3>5. FlushWrites'
      BY <1>0, <2>2, <2>3, <3>1, <3>3 DEF Data, FlushWrites, TypeOK
    <3> QED BY <3>4, <3>5 DEF Data
  <2>4. CASE send[e] = "lock" /\ UNCHANGED store
    BY <1>0, <2>2, <2>4, KeptFrame DEF store, InBuffer
  <2>5. CASE send[e] = "flush" /\ KeepHead(write[e].event)
    <3>1. Flushing(e) /\ Holds(e)
      BY <1>0, <2>5 DEF Flushing, Holds
    <3>2. write[e].event \in Events \/ write[e].event = 0
      BY <1>0 DEF TypeOK
    <3>3. \A x \in Events : send'[x] = send[x] \/ (send[x] = "flush" /\ send'[x] = "over")
      BY <2>2, <2>5
    <3> QED BY <1>0, <1>4, <1>5, <2>2, <2>5, <3>1, <3>2, <3>3
  <2> QED BY <1>6, <2>1, <2>3, <2>4, <2>5 DEF Cancel, DrainExpires
<1>7. ASSUME NEW e \in Events, Acknowledge(e) PROVE Data'
  BY <1>0, <1>7, KeptFrame DEF Acknowledge, InBuffer, Flushing
<1>8. ASSUME Acquire PROVE Data'
  <2>1. /\ Head(lock) \in Tasks /\ UNCHANGED <<write, buffer, pending, released>>
    BY <1>0, <1>8 DEF Acquire, store, TypeOK
  <2>2. write[Head(lock)].event = 0
    BY <1>0, <1>8, <2>1 DEF Acquire, Control, Idle, Holds, Flushing
  <2>3. \A b \in Tasks : Flushing(b)' => Flushing(b) \/ b = Head(lock)
    BY <1>0, <1>8, <2>1 DEF Acquire, Flushing
  <2>4. \A x \in Events : send'[x] = send[x] \/ (send[x] = "lock" /\ send'[x] = "flush")
    BY <1>0, <1>8 DEF Acquire
  <2> QED BY <1>0, <2>1, <2>2, <2>3, <2>4, KeptFrame DEF InBuffer
<1>9. ASSUME NEW a \in Tasks, Flushing(a), Flushed(a)
      PROVE  /\ \A x \in Events : send'[x] = send[x] \/ (send[x] = "flush" /\ send'[x] = "over")
             /\ \A b \in Tasks : Flushing(b)' => Flushing(b)
  BY <1>0, <1>9 DEF Flushed, Flushing
<1>10. ASSUME NEW a \in Tasks, Flush(a) PROVE Data'
  <2>1. CASE Flushed(a) /\ UNCHANGED <<write, pending>>
    BY <1>0, <1>9, <1>10, <2>1, KeptFrame DEF Flush, InBuffer
  <2>2. CASE ~(buffer = <<>> \/ ~up)
    <3> DEFINE e == Head(buffer)
    <3>1. /\ e \in Events /\ InBuffer(e)
      <4>1. buffer \in Seq(Events) /\ buffer # <<>>
        BY <1>0, <2>2 DEF TypeOK
      <4>2. e = buffer[1] /\ 1 \in 1..Len(buffer) /\ e \in Events
        BY <4>1
      <4> QED BY <4>2 DEF InBuffer
    <3>2. /\ UNCHANGED <<send, bind, buffer, released>> /\ pending' = pending \cup Tracked(e)
          /\ \A b \in Tasks \ {a} : write'[b] = write[b]
          /\ write'[a].event = e
      BY <1>0, <1>10, <2>2 DEF Flush, Awaits
    <3> HIDE DEF e
    <3>3. Fresh' /\ DirectWrites' /\ CriticalsAreKept'
      BY <1>0, <3>1, <3>2 DEF Data, Fresh, DirectWrites, CriticalsAreKept, InBuffer
    <3>4. send[e] \notin {"new", "write"}
      BY <3>1 DEF Data, Fresh
    <3>5. FlushWrites'
      BY <1>0, <3>1, <3>2, <3>4 DEF Data, FlushWrites, InBuffer, Flushing, Tracked
    <3> QED BY <3>3, <3>5 DEF Data
  <2> QED BY <1>10, <2>1, <2>2 DEF Flush
<1>11. ASSUME NEW a \in Tasks, FlushFails(a) PROVE Data'
  <2>1. /\ Flushing(a) /\ Holds(a) /\ Flushed(a) /\ KeepHead(write[a].event)
        /\ write'[a].event = 0 /\ \A b \in Tasks \ {a} : write'[b] = write[b]
    BY <1>0, <1>11 DEF FlushFails, NoLonger, Holds
  <2>2. write[a].event \in Events \/ write[a].event = 0
    BY <1>0 DEF TypeOK
  <2> QED BY <1>4, <1>5, <1>9, <2>1, <2>2
<1>12. ASSUME NEW a \in Tasks, FlushReturns(a) PROVE Data'
  <2> DEFINE e == write[a].event
  <2>1. /\ Flushing(a) /\ UNCHANGED <<send, bind, pending, released>> /\ PopIfHead(e)
        /\ write'[a].event = 0 /\ \A b \in Tasks \ {a} : write'[b] = write[b]
    BY <1>0, <1>12 DEF FlushReturns, NoLonger
  <2>2. \A b \in Tasks : Flushing(b) => b = a
    BY <2>1 DEF Control, Exclusive, Holds
  <2>3. e \in Critical => e \in pending \/ e \in released
    BY <1>0, <2>1 DEF Data, FlushWrites, Events
  <2>4. /\ \A x \in Events : InBuffer(x)' => InBuffer(x)
        /\ \A x \in Events : InBuffer(x) => InBuffer(x)' \/ x = e
    BY <1>0, <2>1, PopFacts
  <2> HIDE DEF e
  <2>5. \A b \in Tasks : Flushing(b)' => b = a
    BY <2>1, <2>2 DEF Flushing
  <2> QED BY <1>0, <2>1, <2>3, <2>4, <2>5, KeptFrame
<1>13. ASSUME Resend \/ ResendReturns \/ ResendFails PROVE Data'
  <2>1. /\ UNCHANGED <<send, buffer, pending, released>> /\ bind.at = "resend"
        /\ bind'.at \in {"resend", "off"}
        /\ \A b \in Tasks \ {Binder} : write'[b] = write[b]
    BY <1>0, <1>13
       DEF Resend, ResendReturns, ResendFails, BindEnds, NoBind, Awaits, NoLonger, store
  <2>2. \A b \in Tasks : Flushing(b)' => Flushing(b) /\ b # Binder
    BY <1>0, <2>1 DEF Flushing
  <2> QED BY <1>0, <2>1, <2>2, KeptFrame DEF InBuffer
<1>14. ASSUME Disconnect \/ Unbind PROVE Data'
  BY <1>0, <1>14, KeptFrame DEF Disconnect, Unbind, store, InBuffer, Flushing
<1>15. ASSUME Bind PROVE Data'
  <2>1. /\ UNCHANGED <<send, buffer, pending, released>>
    BY <1>15 DEF Bind, store
  <2>2. \A a \in Tasks : write'[a].event = write[a].event
    <3>1. \A a \in Tasks : write[a] \in [event : Events \cup {0}, on : {"none", "old", "latest"}]
      BY <1>0 DEF TypeOK
    <3> QED BY <3>1, <1>15 DEF Bind
  <2>3. write[Binder].event = 0
    BY <1>0, <1>15 DEF Bind, Control, Idle, Holds, Flushing
  <2>4. \A b \in Tasks : Flushing(b)' => Flushing(b) \/ b = Binder
    BY <2>1 DEF Flushing
  <2> QED BY <1>0, <2>1, <2>2, <2>3, <2>4, KeptFrame DEF InBuffer
<1> QED
  BY <1>1, <1>2, <1>3, <1>6, <1>7, <1>8, <1>10, <1>11, <1>12, <1>13, <1>14, <1>15 DEF Next

-----------------------------------------------------------------------------
(* What is written once.                                                   *)

\* The event of a flush write under way, and of a bind's write.
Walked(e) == \E a \in Tasks : Flushing(a) /\ write[a].event = e
Again(e) == bind.at = "resend" /\ write[Binder].event = e

\* The event of a flush write is at the head of the buffer, while it is in it;
\* bind() finds every write of a critical event in flight; what it is to send
\* again is neither in the buffer nor being written; and nothing that waits or
\* is being written was written before.
OnceAt(e) ==
  /\ Walked(e) /\ InBuffer(e) => buffer[1] = e
  /\ e \in Critical /\ (send[e] = "write" \/ Walked(e)) => e \in inFlight
  /\ e \in pending /\ InBuffer(e) => e \in inFlight
  /\ e \in pending => send[e] # "new"
  /\ e \in bind.left \/ Again(e) =>
       send[e] \notin {"new", "write"} /\ ~InBuffer(e) /\ ~Walked(e)
  /\ ~(Again(e) /\ e \in bind.left)
  /\ send[e] \in {"new", "write"} \/ InBuffer(e) \/ Walked(e) \/ Again(e) \/ e \in bind.left
       => sent[e] = 0
  /\ sent[e] <= 1

Once == Single /\ \A e \in Events : OnceAt(e)

\* A step that gives an event no new place.
LEMMA OnceFrame ==
  ASSUME NEW x, OnceAt(x),
         InBuffer(x)' => InBuffer(x) /\ (buffer[1] = x => buffer'[1] = x),
         Walked(x)' => Walked(x), Again(x)' => Again(x), x \in bind'.left => x \in bind.left,
         send'[x] = send[x] \/ send'[x] \notin {"new", "write"},
         x \in pending' => x \in pending, x \in inFlight => x \in inFlight',
         sent'[x] = sent[x]
  PROVE  OnceAt(x)'
BY DEF OnceAt

LEMMA OnceStep ==
  ASSUME Control, Data, Once, Next
  PROVE  Once'
<1>0. /\ DOMAIN send = Events /\ Binder \notin Events /\ DOMAIN bind = {"at", "left"}
      /\ DOMAIN write = Tasks /\ DOMAIN sent = Events /\ NoWrite.event = 0 /\ 0 \notin Events
      /\ TypeOK /\ Critical \subseteq Events /\ pending \subseteq Critical
      /\ inFlight \subseteq Critical /\ \A e \in Events : e \in Tasks
  BY EventsAssumption DEF Control, TypeOK, Events, NoWrite
<1>1. ASSUME UNCHANGED buffer
      PROVE  /\ Single' /\ \A x \in Events : InBuffer(x)' <=> InBuffer(x)
             /\ buffer'[1] = buffer[1]
  BY <1>1 DEF Once, Single, InBuffer
<1>2. ASSUME NEW e \in Events, Send(e) PROVE Once'
  <2>1. /\ send[e] = "new" /\ UNCHANGED <<bind, sent>>
        /\ \A x \in Events \ {e} : send'[x] = send[x]
    BY <1>0, <1>2 DEF Send
  <2>2. ~InBuffer(e) /\ ~Walked(e) /\ ~Again(e) /\ e \notin bind.left /\ e \notin pending
    BY <1>0, <2>1 DEF Data, Fresh, FlushWrites, Walked, Once, OnceAt
  <2>3. sent[e] = 0
    BY <2>1 DEF Once, OnceAt
  <2>4. CASE up
    <3>1. /\ send'[e] = "write" /\ UNCHANGED buffer
          /\ pending' = pending \cup Tracked(e) /\ inFlight' = inFlight \cup Tracked(e)
          /\ \A b \in Tasks \ {e} : write'[b] = write[b]
      BY <1>0, <1>2, <2>4 DEF Send, Awaits
    <3>2. \A b \in Tasks : Flushing(b)' => Flushing(b) /\ b # e
      BY <1>0, <2>1, <3>1 DEF Flushing
    <3>3. \A x \in Events : (Walked(x)' => Walked(x)) /\ (Again(x)' => Again(x))
      BY <1>0, <2>1, <3>1, <3>2 DEF Walked, Again
    <3>4. Single' /\ (InBuffer(e)' <=> InBuffer(e))
      BY <1>1, <3>1
    <3>5. OnceAt(e)'
      BY <1>0, <2>1, <2>2, <2>3, <3>1, <3>3, <3>4 DEF OnceAt, Tracked
    <3>6. ASSUME NEW x \in Events \ {e} PROVE OnceAt(x)'
      <4>1. OnceAt(x)
        BY DEF Once
      <4>2. (x \in pending' => x \in pending) /\ (x \in inFlight => x \in inFlight')
        BY <3>1 DEF Tracked
      <4> QED BY <1>1, <2>1, <3>1, <3>3, <4>1, <4>2, OnceFrame
    <3> QED BY <3>4, <3>5, <3>6 DEF Once
  <2>5. CASE ~up
    <3>1. /\ send'[e] = "over" /\ UNCHANGED <<write, pending, inFlight>>
          /\ IF e \in Unbuffered THEN UNCHANGED buffer ELSE BufferEvent(e)
      BY <1>0, <1>2, <2>5 DEF Send
    <3>2. \A b \in Tasks : Flushing(b)' => Flushing(b)
      BY <1>0, <2>1, <3>1 DEF Flushing
    <3>3. \A x \in Events : (Walked(x)' => Walked(x)) /\ (Again(x)' => Again(x))
      BY <1>0, <2>1, <3>1, <3>2 DEF Walked, Again
    <3>4. Single' /\ \A x \in Events \ {e} :
                       InBuffer(x)' => InBuffer(x) /\ (buffer[1] = x => buffer'[1] = x)
      BY <1>0, <1>1, <2>2, <3>1, BufferFacts, BufferOrder DEF Once
    <3>5. OnceAt(e)'
      BY <1>0, <2>1, <2>2, <2>3, <3>1, <3>3 DEF OnceAt
    <3>6. ASSUME NEW x \in Events \ {e} PROVE OnceAt(x)'
      <4>1. OnceAt(x)
        BY DEF Once
      <4> QED BY <2>1, <3>1, <3>3, <3>4, <4>1, OnceFrame
    <3> QED BY <3>4, <3>5, <3>6 DEF Once
  <2> QED BY <2>4, <2>5
<1>3. ASSUME NEW e \in Events, SendReturns(e) PROVE Once'
  <2>1. /\ send[e] = "write" /\ send'[e] = "over" /\ UNCHANGED <<bind, buffer, pending>>
        /\ \A x \in Events \ {e} : send'[x] = send[x] /\ sent'[x] = sent[x]
        /\ sent'[e] = sent[e] + 1 /\ inFlight' = inFlight \ {e}
        /\ \A b \in Tasks \ {e} : write'[b] = write[b]
    BY <1>0, <1>3 DEF SendReturns, NoLonger
  <2>2. ~InBuffer(e) /\ ~Walked(e) /\ ~Again(e) /\ e \notin bind.left /\ sent[e] = 0
    BY <1>0, <2>1 DEF Data, Fresh, FlushWrites, Walked, Once, OnceAt
  <2>3. \A b \in Tasks : Flushing(b)' => Flushing(b) /\ b # e
    BY <1>0, <2>1 DEF Flushing
  <2>4. \A x \in Events : (Walked(x)' => Walked(x)) /\ (Again(x)' => Again(x))
    BY <1>0, <2>1, <2>3 DEF Walked, Again
  <2>5. OnceAt(e)'
    BY <1>0, <1>1, <2>1, <2>2, <2>4 DEF OnceAt
  <2>6. ASSUME NEW x \in Events \ {e} PROVE OnceAt(x)'
    <3>1. OnceAt(x)
      BY DEF Once
    <3> QED BY <1>1, <2>1, <2>4, <3>1, OnceFrame
  <2> QED BY <1>1, <2>1, <2>5, <2>6 DEF Once
<1>4. ASSUME NEW e \in Events, send[e] = "write", send'[e] \notin {"new", "write"}, TakeBack(e),
             \A x \in Events \ {e} : send'[x] = send[x], UNCHANGED <<bind, sent>>,
             \A b \in Tasks \ {e} : write'[b] = write[b], write'[e].event = 0
      PROVE  Once'
  <2>1. ~InBuffer(e) /\ ~Walked(e) /\ ~Again(e) /\ e \notin bind.left /\ sent[e] = 0
    BY <1>0, <1>4 DEF Data, Fresh, FlushWrites, Walked, Once, OnceAt
  <2>2. \A b \in Tasks : Flushing(b)' /\ write'[b].event # 0 => Flushing(b) /\ b # e
    BY <1>0, <1>4 DEF Flushing
  <2>3. \A x \in Events : (Walked(x)' => Walked(x)) /\ (Again(x)' => Again(x))
    BY <1>0, <1>4, <2>2 DEF Walked, Again
  <2>4. /\ pending' = pending \ {e} /\ inFlight' = inFlight \ {e}
        /\ IF Rebuffers(e) THEN BufferEvent(e) ELSE UNCHANGED buffer
    BY <1>4 DEF TakeBack
  <2>5. Single' /\ \A x \in Events \ {e} :
                     InBuffer(x)' => InBuffer(x) /\ (buffer[1] = x => buffer'[1] = x)
    <3>1. CASE Rebuffers(e)
      BY <1>0, <2>1, <2>4, <3>1, BufferFacts, BufferOrder DEF Once, Rebuffers
    <3>2. CASE ~Rebuffers(e)
      BY <1>1, <2>4, <3>2
    <3> QED BY <3>1, <3>2
  <2>6. OnceAt(e)'
    BY <1>0, <1>4, <2>1, <2>3, <2>4 DEF OnceAt
  <2>7. ASSUME NEW x \in Events \ {e} PROVE OnceAt(x)'
    <3>1. OnceAt(x)
      BY DEF Once
    <3> QED BY <1>4, <2>3, <2>4, <2>5, <3>1, OnceFrame
  <2> QED BY <2>5, <2>6, <2>7 DEF Once
<1>5. ASSUME NEW e \in Events, SendFails(e) PROVE Once'
  <2>1. /\ send[e] = "write" /\ send'[e] \notin {"new", "write"} /\ TakeBack(e)
        /\ \A x \in Events \ {e} : send'[x] = send[x]
        /\ UNCHANGED <<bind, sent>> /\ write'[e].event = 0
        /\ \A b \in Tasks \ {e} : write'[b] = write[b]
    BY <1>0, <1>5 DEF SendFails, NoLonger
  <2> QED BY <1>4, <2>1
<1>6. ASSUME NEW a \in Tasks, Flushing(a), KeepHead(write[a].event),
             write'[a].event = 0, \A b \in Tasks \ {a} : write'[b] = write[b],
             \A x \in Events : send'[x] = send[x] \/ send'[x] \notin {"new", "write"},
             \A b \in Tasks : Flushing(b)' => Flushing(b),
             \A x \in Events : Again(x)' => Again(x),
             bind'.left = bind.left, UNCHANGED sent
      PROVE  Once'
  <2> SUFFICES ASSUME NEW e, e = write[a].event
              PROVE  Once'
    OBVIOUS
  <2>1. /\ pending' = pending \ {e} /\ inFlight' = inFlight \ {e}
        /\ PopIfHead(e) \/ UNCHANGED buffer
    BY <1>6 DEF KeepHead
  <2>2. Holds(a)
    BY <1>6 DEF Holds
  <2>3. \A b \in Tasks : Flushing(b) => b = a
    BY <2>2 DEF Control, Exclusive, Holds
  <2>4. \A x \in Events : ~Walked(x)'
    BY <1>0, <1>6, <2>3 DEF Walked
  <2>5. e \in Events => Walked(e) /\ send[e] # "write"
    BY <1>0, <1>6 DEF Walked, Data, FlushWrites
  <2>6. Single' /\ \A x \in Events \ {e} :
                     InBuffer(x)' => InBuffer(x) /\ (buffer[1] = x => buffer'[1] = x)
    BY <1>0, <1>1, <2>1, PopFacts, PopOrder DEF Once
  <2>7. \A x \in Events : InBuffer(x)' => InBuffer(x)
    BY <1>0, <1>1, <2>1, PopFacts
  <2>8. ASSUME NEW x \in Events, x # e PROVE OnceAt(x)'
    <3>1. OnceAt(x)
      BY DEF Once
    <3> QED BY <1>6, <2>1, <2>4, <2>6, <2>8, <3>1, OnceFrame
  <2>9. ASSUME e \in Events PROVE OnceAt(e)'
    <3>1. OnceAt(e)
      BY <2>9 DEF Once
    <3>2. (send'[e] = send[e] \/ send'[e] \notin {"new", "write"}) /\ (Again(e)' => Again(e))
      BY <1>6, <2>9
    <3> QED BY <1>6, <2>1, <2>4, <2>5, <2>7, <2>9, <3>1, <3>2 DEF OnceAt
  <2> QED BY <2>6, <2>8, <2>9 DEF Once
<1>7. ASSUME NEW e \in Events, Cancel(e) \/ DrainExpires(e) PROVE Once'
  <2>1. /\ send' = [send EXCEPT ![e] = "over"] /\ send[e] \in {"write", "lock", "flush"}
        /\ UNCHANGED <<bind, sent>> /\ write' = [write EXCEPT ![e] = NoWrite]
    BY <1>7 DEF Cancel, DrainExpires, NoLonger
  <2>2. /\ \A x \in Events \ {e} : send'[x] = send[x]
        /\ send'[e] = "over" /\ write'[e].event = 0
        /\ \A b \in Tasks \ {e} : write'[b] = write[b]
        /\ \A b \in Tasks : Flushing(b)' => Flushing(b) /\ b # e
        /\ \A x \in Events : Again(x)' => Again(x)
    BY <1>0, <2>1 DEF Flushing, Again
  <2>3. CASE send[e] = "write" /\ TakeBack(e)
    BY <1>4, <2>1, <2>2, <2>3
  <2>4. CASE send[e] = "lock" /\ UNCHANGED store
    <3>1. \A x \in Events : Walked(x)' => Walked(x)
      BY <1>0, <2>2 DEF Walked
    <3>2. UNCHANGED <<buffer, pending, inFlight>>
      BY <2>4 DEF store
    <3>3. ASSUME NEW x \in Events PROVE OnceAt(x)'
      <4>1. OnceAt(x) /\ (send'[x] = send[x] \/ send'[x] \notin {"new", "write"})
        BY <2>2 DEF Once
      <4> QED BY <1>1, <2>1, <2>2, <3>1, <3>2, <4>1, OnceFrame
    <3> QED BY <1>1, <3>2, <3>3 DEF Once
  <2>5. CASE send[e] = "flush" /\ KeepHead(write[e].event)
    <3>1. Flushing(e)
      BY <1>0, <2>5 DEF Flushing
    <3>2. \A x \in Events : send'[x] = send[x] \/ send'[x] \notin {"new", "write"}
      BY <2>2
    <3> QED BY <1>0, <1>6, <2>1, <2>2, <2>5, <3>1, <3>2
  <2> QED BY <1>7, <2>1, <2>3, <2>4, <2>5 DEF Cancel, DrainExpires
<1>8. ASSUME NEW e \in Events, Acknowledge(e) PROVE Once'
  <2>1. UNCHANGED <<buffer, inFlight, send, bind, sent, write>> /\ pending' = pending \ {e}
    BY <1>8 DEF Acknowledge
  <2>2. ASSUME NEW x \in Events PROVE OnceAt(x)'
    <3>1. OnceAt(x) /\ (Walked(x)' => Walked(x)) /\ (Again(x)' => Again(x))
      BY <2>1 DEF Once, Walked, Again, Flushing
    <3> QED BY <1>1, <2>1, <3>1, OnceFrame
  <2> QED BY <1>1, <2>1, <2>2 DEF Once
<1>9. ASSUME Acquire PROVE Once'
  <2>1. /\ UNCHANGED <<write, buffer, pending, inFlight, sent>> /\ Head(lock) \in Tasks
        /\ bind'.left = bind.left
    BY <1>0, <1>9 DEF Acquire, store, TypeOK
  <2>2. write[Head(lock)].event = 0
    BY <1>0, <1>9, <2>1 DEF Acquire, Control, Idle, Holds, Flushing
  <2>3. \A b \in Tasks : Flushing(b)' => Flushing(b) \/ b = Head(lock)
    BY <1>0, <1>9, <2>1 DEF Acquire, Flushing
  <2>4. \A x \in Events : send'[x] = send[x] \/ send'[x] \notin {"new", "write"}
    BY <1>0, <1>9 DEF Acquire
  <2>5. \A x \in Events : (Walked(x)' => Walked(x)) /\ (Again(x)' => Again(x))
    BY <1>0, <1>9, <2>1, <2>2, <2>3 DEF Walked, Again, Acquire
  <2>6. ASSUME NEW x \in Events PROVE OnceAt(x)'
    <3>1. OnceAt(x) /\ (send'[x] = send[x] \/ send'[x] \notin {"new", "write"})
      BY <2>4 DEF Once
    <3> QED BY <1>1, <2>1, <2>5, <3>1, OnceFrame
  <2> QED BY <1>1, <2>1, <2>6 DEF Once
<1>10. ASSUME NEW a \in Tasks, Flushing(a), Flushed(a), write'[a].event = 0,
              \A b \in Tasks \ {a} : write'[b] = write[b]
       PROVE  /\ \A x \in Events : send'[x] = send[x] \/ send'[x] \notin {"new", "write"}
              /\ \A b \in Tasks : Flushing(b)' => Flushing(b)
              /\ bind'.left = bind.left
              /\ \A x \in Events : Again(x)' => Again(x)
  <2>1. CASE a = Binder
    BY <1>0, <1>10, <2>1 DEF Flushed, Flushing, Again
  <2>2. CASE a # Binder
    BY <1>0, <1>10, <2>2 DEF Flushed, Flushing, Again
  <2> QED BY <2>1, <2>2
<1>11. ASSUME NEW a \in Tasks, Flush(a) PROVE Once'
  <2>0. Flushing(a) /\ write[a].event = 0 /\ UNCHANGED <<buffer, sent>>
    BY <1>0, <1>11 DEF Flush, Control, Idle
  <2>1. CASE Flushed(a) /\ UNCHANGED <<write, pending, inFlight>>
    <3>1. /\ \A x \in Events : send'[x] = send[x] \/ send'[x] \notin {"new", "write"}
          /\ \A b \in Tasks : Flushing(b)' => Flushing(b)
          /\ bind'.left = bind.left
          /\ \A x \in Events : Again(x)' => Again(x)
      BY <1>10, <2>0, <2>1
    <3>2. \A x \in Events : Walked(x)' => Walked(x)
      BY <2>1, <3>1 DEF Walked
    <3>3. ASSUME NEW x \in Events PROVE OnceAt(x)'
      <4>1. OnceAt(x) /\ (send'[x] = send[x] \/ send'[x] \notin {"new", "write"})
        BY <3>1 DEF Once
      <4> QED BY <1>1, <2>0, <2>1, <3>1, <3>2, <4>1, OnceFrame
    <3> QED BY <1>1, <2>0, <3>3 DEF Once
  <2>2. CASE ~(buffer = <<>> \/ ~up)
    <3> SUFFICES ASSUME NEW e, e = Head(buffer)
                PROVE  Once'
      OBVIOUS
    <3>1. e \in Events /\ InBuffer(e) /\ buffer[1] = e
      <4>1. buffer \in Seq(Events) /\ buffer # <<>>
        BY <1>0, <2>2 DEF TypeOK
      <4>2. e = buffer[1] /\ 1 \in 1..Len(buffer) /\ e \in Events
        BY <4>1
      <4> QED BY <4>2 DEF InBuffer
    <3>2. /\ UNCHANGED <<send, bind>>
          /\ pending' = pending \cup Tracked(e) /\ inFlight' = inFlight \cup Tracked(e)
          /\ \A b \in Tasks \ {a} : write'[b] = write[b]
          /\ write'[a].event = e
      BY <1>0, <1>11, <2>2 DEF Flush, Awaits
    <3>3. send[e] \notin {"new", "write"}
      BY <3>1 DEF Data, Fresh
    <3>4. \A x \in Events \ {e} : (Walked(x)' => Walked(x)) /\ (Again(x)' => Again(x))
      BY <1>0, <3>1, <3>2 DEF Walked, Again, Flushing
    <3>5. ~Again(e)'
      <4>1. ~Again(e)
        BY <3>1 DEF Once, OnceAt
      <4>2. a = Binder => bind.at # "resend"
        BY <2>0 DEF Flushing
      <4> QED BY <1>0, <3>2, <4>1, <4>2 DEF Again
    <3>6. OnceAt(e)'
      <4>1. OnceAt(e)
        BY <3>1 DEF Once
      <4>2. (InBuffer(e)' <=> InBuffer(e)) /\ buffer'[1] = buffer[1]
        BY <1>1, <2>0, <3>1
      <4> QED BY <2>0, <3>1, <3>2, <3>3, <3>5, <4>1, <4>2 DEF OnceAt, Tracked
    <3>7. ASSUME NEW x \in Events \ {e} PROVE OnceAt(x)'
      <4>1. OnceAt(x) /\ (x \in pending' => x \in pending) /\ (x \in inFlight => x \in inFlight')
        BY <3>2 DEF Once, Tracked
      <4> QED BY <1>1, <2>0, <3>2, <3>4, <4>1, OnceFrame
    <3> QED BY <1>1, <2>0, <3>6, <3>7 DEF Once
  <2> QED BY <1>11, <2>1, <2>2 DEF Flush
<1>12. ASSUME NEW a \in Tasks, FlushFails(a) PROVE Once'
  <2>1. /\ Flushing(a) /\ Flushed(a) /\ KeepHead(write[a].event) /\ UNCHANGED sent
        /\ write'[a].event = 0 /\ \A b \in Tasks \ {a} : write'[b] = write[b]
    BY <1>0, <1>12 DEF FlushFails, NoLonger
  <2> QED BY <1>6, <1>10, <2>1
<1>13. ASSUME NEW a \in Tasks, FlushReturns(a) PROVE Once'
  <2> SUFFICES ASSUME NEW e, e = write[a].event
              PROVE  Once'
    OBVIOUS
  <2>1. /\ Flushing(a) /\ UNCHANGED <<send, bind, pending>> /\ PopIfHead(e)
        /\ write'[a].event = 0 /\ \A b \in Tasks \ {a} : write'[b] = write[b]
        /\ inFlight' = inFlight \ {e} /\ sent' = [sent EXCEPT ![e] = @ + 1]
    BY <1>0, <1>13 DEF FlushReturns, NoLonger
  <2>2. \A b \in Tasks : Flushing(b) => b = a
    BY <2>1 DEF Control, Exclusive, Holds
  <2>3. /\ \A x \in Events : ~Walked(x)'
        /\ \A x \in Events : Again(x)' => Again(x)
    BY <1>0, <2>1, <2>2 DEF Walked, Again, Flushing
  <2>4. /\ Single' /\ buffer[1] = e => ~InBuffer(e)'
        /\ \A x \in Events : InBuffer(x)' => InBuffer(x)
        /\ \A x \in Events \ {e} :
             InBuffer(x)' => InBuffer(x) /\ (buffer[1] = x => buffer'[1] = x)
    BY <1>0, <2>1, PopFacts, PopOrder DEF Once
  <2>5. Single'
    BY <1>0, <2>1, PopOrder DEF Once
  <2>6. buffer[1] = e => ~InBuffer(e)'
    BY <1>0, <2>1, PopOrder DEF Once
  <2>7. e \in Events => Walked(e) /\ send[e] \notin {"new", "write"}
    BY <1>0, <2>1 DEF Walked, Data, FlushWrites
  <2>8. ASSUME NEW x \in Events, x # e PROVE OnceAt(x)'
    <3>1. OnceAt(x) /\ sent'[x] = sent[x]
      BY <1>0, <2>1, <2>8 DEF Once
    <3> QED BY <2>1, <2>3, <2>4, <2>8, <3>1, OnceFrame
  <2>9. ASSUME e \in Events PROVE OnceAt(e)'
    <3>1. OnceAt(e) /\ sent'[e] = sent[e] + 1
      BY <1>0, <2>1, <2>9 DEF Once
    <3>2. ~InBuffer(e)' /\ ~Again(e)' /\ ~Walked(e)'
      BY <2>3, <2>4, <2>6, <2>7, <2>9, <3>1 DEF OnceAt
    <3> QED BY <2>1, <2>7, <2>9, <3>1, <3>2 DEF OnceAt
  <2> QED BY <2>5, <2>8, <2>9 DEF Once
<1>14. ASSUME Resend \/ ResendFails, BindEnds, UNCHANGED write \/ NoLonger(Binder)
       PROVE  Once'
  <2>1. /\ UNCHANGED <<send, buffer, pending, inFlight, sent>> /\ bind' = NoBind
        /\ bind.at = "resend" /\ \A b \in Tasks \ {Binder} : write'[b] = write[b]
    BY <1>0, <1>14 DEF Resend, ResendFails, BindEnds, NoLonger, store
  <2>2. ASSUME NEW x \in Events PROVE OnceAt(x)'
    <3>1. OnceAt(x)
      BY DEF Once
    <3>2. (Walked(x)' => Walked(x)) /\ ~Again(x)' /\ x \notin bind'.left
      BY <1>0, <2>1 DEF Walked, Again, Flushing, NoBind
    <3> QED BY <1>1, <2>1, <3>1, <3>2, OnceFrame
  <2> QED BY <1>1, <2>1, <2>2 DEF Once
<1>15. ASSUME Resend, NEW e \in bind.left \cap pending, Awaits(Binder, e),
              bind' = [bind EXCEPT !.left = @ \ {e}]
       PROVE  Once'
  <2>1. /\ UNCHANGED <<send, buffer, pending, inFlight, sent>> /\ bind.at = "resend"
        /\ \A b \in Tasks \ {Binder} : write'[b] = write[b]
        /\ write'[Binder].event = e /\ bind'.at = bind.at /\ bind'.left = bind.left \ {e}
        /\ e \in Events
    BY <1>0, <1>15 DEF Resend, Awaits, store
  <2>2. \A x \in Events : Walked(x)' => Walked(x)
    BY <1>0, <2>1 DEF Walked, Flushing
  <2>3. \A x \in Events \ {e} : ~Again(x)'
    BY <2>1 DEF Again
  <2>4. OnceAt(e)'
    <3>1. OnceAt(e)
      BY <2>1 DEF Once
    <3>2. send[e] \notin {"new", "write"} /\ ~InBuffer(e) /\ ~Walked(e) /\ sent[e] = 0
      BY <1>15, <3>1 DEF OnceAt
    <3>3. ~InBuffer(e)' /\ ~Walked(e)'
      BY <1>1, <2>1, <2>2, <3>2
    <3> QED BY <2>1, <3>2, <3>3 DEF OnceAt
  <2>5. ASSUME NEW x \in Events \ {e} PROVE OnceAt(x)'
    <3>1. OnceAt(x)
      BY DEF Once
    <3> QED BY <1>1, <2>1, <2>2, <2>3, <3>1, OnceFrame
  <2> QED BY <1>1, <2>1, <2>4, <2>5 DEF Once
<1>16. ASSUME ResendReturns PROVE Once'
  <2> SUFFICES ASSUME NEW e, e = write[Binder].event
              PROVE  Once'
    OBVIOUS
  <2>1. /\ UNCHANGED <<send, bind, buffer, pending, inFlight>> /\ bind.at = "resend"
        /\ \A b \in Tasks \ {Binder} : write'[b] = write[b]
        /\ write'[Binder].event = 0 /\ sent' = [sent EXCEPT ![e] = @ + 1]
    BY <1>0, <1>16 DEF ResendReturns, NoLonger, store
  <2>2. \A x \in Events : (Walked(x)' => Walked(x)) /\ ~Again(x)'
    BY <1>0, <2>1 DEF Walked, Again, Flushing
  <2>3. e \in Events => Again(e)
    BY <2>1 DEF Again
  <2>4. ASSUME e \in Events PROVE OnceAt(e)'
    <3>1. OnceAt(e) /\ sent'[e] = sent[e] + 1 /\ (InBuffer(e)' <=> InBuffer(e))
      BY <1>0, <1>1, <2>1, <2>4 DEF Once
    <3>2. /\ send[e] \notin {"new", "write"} /\ ~InBuffer(e) /\ ~Walked(e) /\ sent[e] = 0
          /\ e \notin bind.left
      BY <2>3, <2>4, <3>1 DEF OnceAt
    <3> QED BY <2>1, <2>2, <2>4, <3>1, <3>2 DEF OnceAt
  <2>5. ASSUME NEW x \in Events, x # e PROVE OnceAt(x)'
    <3>1. OnceAt(x) /\ sent'[x] = sent[x]
      BY <1>0, <2>1, <2>5 DEF Once
    <3> QED BY <1>1, <2>1, <2>2, <3>1, OnceFrame
  <2> QED BY <1>1, <2>1, <2>4, <2>5 DEF Once
<1>17. ASSUME Disconnect \/ Unbind PROVE Once'
  <2>1. UNCHANGED <<buffer, inFlight, pending, send, bind, sent, write>>
    BY <1>17 DEF Disconnect, Unbind, store
  <2>2. ASSUME NEW x \in Events PROVE OnceAt(x)'
    <3>1. OnceAt(x) /\ (Walked(x)' => Walked(x)) /\ (Again(x)' => Again(x))
      BY <2>1 DEF Once, Walked, Again, Flushing
    <3> QED BY <1>1, <2>1, <3>1, OnceFrame
  <2> QED BY <1>1, <2>1, <2>2 DEF Once
<1>18. ASSUME Bind PROVE Once'
  <2>1. /\ UNCHANGED <<send, buffer, pending, inFlight>> /\ bind.at = "off"
        /\ bind'.at # "resend" /\ bind'.left = pending \ inFlight
        /\ \A x \in Events : sent'[x] = IF x \in Critical THEN 0 ELSE sent[x]
    BY <1>18 DEF Bind, store
  <2>2. \A a \in Tasks : write'[a].event = write[a].event
    <3>1. \A a \in Tasks : write[a] \in [event : Events \cup {0}, on : {"none", "old", "latest"}]
      BY <1>0 DEF TypeOK
    <3> QED BY <3>1, <1>18 DEF Bind
  <2>3. write[Binder].event = 0
    BY <1>0, <2>1 DEF Control, Idle, Holds, Flushing
  <2>4. \A b \in Tasks : Flushing(b)' => Flushing(b) \/ b = Binder
    BY <2>1 DEF Flushing
  <2>5. \A x \in Events : (Walked(x)' => Walked(x)) /\ ~Again(x)'
    BY <1>0, <2>1, <2>2, <2>3, <2>4 DEF Walked, Again
  <2>6. ASSUME NEW x \in Events PROVE OnceAt(x)'
    <3>1. OnceAt(x) /\ (InBuffer(x)' <=> InBuffer(x)) /\ buffer'[1] = buffer[1]
      BY <1>1, <2>1 DEF Once
    <3>2. x \in pending => x \in Critical
      BY <1>0
    <3>3. sent'[x] = 0 \/ (sent'[x] = sent[x] /\ x \notin Critical)
      BY <2>1
    <3> QED BY <2>1, <2>5, <3>1, <3>2, <3>3 DEF OnceAt
  <2> QED BY <1>1, <2>1, <2>6 DEF Once
<1>19. ASSUME Resend \/ ResendFails PROVE Once'
  BY <1>14, <1>15, <1>19 DEF Resend, ResendFails
<1> QED
  BY <1>2, <1>3, <1>5, <1>7, <1>8, <1>9, <1>11, <1>12, <1>13, <1>16, <1>17, <1>18, <1>19 DEF Next

-----------------------------------------------------------------------------
(* What is recovered.                                                      *)

InLock(a) == \E i \in 1..Len(lock) : lock[i] = a
Waiting(a) == IF a = Binder THEN bind.at = "lock" ELSE send[a] = "lock"

\* Who waits for the lock is queued for it.
Queued == \A a \in Tasks : Waiting(a) => InLock(a)

\* A first write is of its sender's event, a bind's write is on the latest
\* connection, what is in flight is being written, and a flush write on an older
\* connection has a bind waiting behind it.
Writes ==
  /\ \A a \in Tasks : write[a].event = 0 <=> write[a].on = "none"
  /\ write[Binder].on # "old"
  /\ \A e \in Events : send[e] = "write" => write[e].event = e
  /\ \A e \in inFlight : send[e] = "write" \/ Walked(e)
  /\ \A a \in Events : Flushing(a) /\ write[a].on = "old" => bind.at = "lock"

\* What waits in the buffer has a task that is about to walk it, or walks it on
\* the latest connection.
Drained ==
  up /\ ~excused /\ buffer # <<>> =>
    \E a \in Tasks : Waiting(a) \/ (Flushing(a) /\ write[a].on # "old")

\* What is pending is written on the latest connection, is being written or is
\* on a bind's list.
Covered(e) ==
  sent[e] = 1 \/ (\E a \in Tasks : write[a].event = e) \/ (bind.at # "off" /\ e \in bind.left)
Answered == up /\ ~excused => \A e \in pending : Covered(e)

Recovery == Queued /\ Writes /\ Drained /\ Answered

\* A task that leaves the lock leaves the others in the queue.
LEMMA LeavesQueue ==
  ASSUME lock \in Seq(Tasks), NEW a \in Tasks, Leaves(a)
  PROVE  \A b \in Tasks \ {a} : InLock(b) => InLock(b)'
<1>1. CASE lock' = lock
  BY <1>1 DEF InLock
<1>2. ASSUME NEW i \in 1..Len(lock), lock[i] = a, lock' = RemoveAt(lock, i),
             NEW b \in Tasks \ {a}, NEW k \in 1..Len(lock), lock[k] = b
      PROVE  InLock(b)'
  <2>1. /\ lock' \in Seq(Tasks) /\ Len(lock') = Len(lock) - 1
        /\ \A j \in 1..(Len(lock) - 1) : lock'[j] = IF j < i THEN lock[j] ELSE lock[j + 1]
    BY <1>2, RemoveOne
  <2>2. k # i /\ Len(lock) \in Nat
    BY <1>2
  <2>3. CASE k < i
    <3>1. k \in 1..Len(lock') /\ lock'[k] = b
      BY <1>2, <2>1, <2>2, <2>3
    <3> QED BY <3>1 DEF InLock
  <2>4. CASE k > i
    <3>1. (k - 1) \in 1..Len(lock') /\ lock'[k - 1] = b
      BY <1>2, <2>1, <2>2, <2>4
    <3> QED BY <3>1 DEF InLock
  <2> QED BY <1>2, <2>2, <2>3, <2>4
<1> QED BY <1>1, <1>2 DEF Leaves, InLock

\* A task that begins to wait for the lock is queued behind the others.
LEMMA AppendQueue ==
  ASSUME lock \in Seq(Tasks), NEW a \in Tasks, lock' = Append(lock, a)
  PROVE  InLock(a)' /\ \A b \in Tasks : InLock(b) => InLock(b)'
<1>1. /\ Len(lock') = Len(lock) + 1 /\ Len(lock) \in Nat /\ lock'[Len(lock) + 1] = a
      /\ \A i \in 1..Len(lock) : lock'[i] = lock[i]
  OBVIOUS
<1>2. InLock(a)'
  BY <1>1 DEF InLock
<1>3. \A b \in Tasks : InLock(b) => InLock(b)'
  BY <1>1 DEF InLock
<1> QED BY <1>2, <1>3

LEMMA QueuedStep ==
  ASSUME Control, Queued, Next
  PROVE  Queued'
<1>0. /\ lock \in Seq(Tasks) /\ DOMAIN send = Events /\ Binder \in Tasks /\ Binder \notin Events
      /\ DOMAIN bind = {"at", "left"} /\ \A e \in Events : e \in Tasks
  BY DEF Control, TypeOK, Events
<1>1. ASSUME UNCHANGED lock, \A b \in Tasks : Waiting(b)' => Waiting(b)
      PROVE  Queued'
  BY <1>1 DEF Queued, InLock
<1>2. ASSUME NEW a \in Tasks, Leaves(a), \A b \in Tasks : Waiting(b)' => Waiting(b) /\ b # a
      PROVE  Queued'
  BY <1>0, <1>2, LeavesQueue DEF Queued
<1>3. ASSUME NEW a \in Tasks, lock' = Append(lock, a),
             \A b \in Tasks : Waiting(b)' => Waiting(b) \/ b = a
      PROVE  Queued'
  BY <1>0, <1>3, AppendQueue DEF Queued
<1>4. ASSUME NEW a \in Tasks, Flushing(a), Flushed(a) PROVE Queued'
  <2>1. CASE a = Binder
    BY <1>0, <1>1, <1>4, <2>1 DEF Flushed, Waiting
  <2>2. CASE a # Binder
    <3>1. \A b \in Tasks : Waiting(b)' => Waiting(b) /\ b # a
      BY <1>0, <1>4, <2>2 DEF Flushed, Waiting, Flushing
    <3> QED BY <1>2, <1>4, <2>2, <3>1 DEF Flushed
  <2> QED BY <2>1, <2>2
<1>5. ASSUME bind.at = "resend", BindEnds, UNCHANGED send PROVE Queued'
  <2>1. \A b \in Tasks : Waiting(b)' => Waiting(b) /\ b # Binder
    BY <1>0, <1>5 DEF BindEnds, NoBind, Waiting
  <2> QED BY <1>0, <1>2, <1>5, <2>1 DEF BindEnds
<1>6. ASSUME NEW e \in Events, Send(e) \/ SendReturns(e) \/ Acknowledge(e) PROVE Queued'
  BY <1>0, <1>1, <1>6 DEF Send, SendReturns, Acknowledge, Waiting
<1>7. ASSUME NEW e \in Events, SendFails(e) PROVE Queued'
  <2>1. UNCHANGED bind /\ \A x \in Events \ {e} : send'[x] = send[x]
    BY <1>0, <1>7 DEF SendFails
  <2>2. \A b \in Tasks : Waiting(b)' => Waiting(b) \/ b = e
    BY <1>0, <2>1 DEF Waiting
  <2>3. CASE lock' = Append(lock, e)
    BY <1>0, <1>3, <2>2, <2>3
  <2>4. CASE UNCHANGED lock /\ send'[e] = "over"
    <3>1. \A b \in Tasks : Waiting(b)' => Waiting(b)
      BY <1>0, <2>2, <2>4 DEF Waiting
    <3> QED BY <1>1, <2>4, <3>1
  <2> QED BY <1>0, <1>7, <2>3, <2>4 DEF SendFails
<1>8. ASSUME NEW e \in Events, Cancel(e) \/ DrainExpires(e) PROVE Queued'
  <2>1. Leaves(e) /\ UNCHANGED bind /\ send' = [send EXCEPT ![e] = "over"]
    BY <1>8 DEF Cancel, DrainExpires
  <2>2. \A b \in Tasks : Waiting(b)' => Waiting(b) /\ b # e
    BY <1>0, <2>1 DEF Waiting
  <2> QED BY <1>0, <1>2, <2>1, <2>2
<1>9. ASSUME Acquire PROVE Queued'
  <2>1. Head(lock) \in Tasks
    BY <1>0, <1>9 DEF Acquire
  <2> QED BY <1>0, <1>1, <1>9, <2>1 DEF Acquire, Waiting
<1>10. ASSUME NEW a \in Tasks, Flush(a) \/ FlushFails(a) PROVE Queued'
  <2>1. CASE Flushed(a)
    BY <1>4, <1>10, <2>1 DEF Flush, FlushFails
  <2>2. CASE UNCHANGED <<bind, send, lock>>
    BY <1>1, <2>2 DEF Waiting
  <2> QED BY <1>10, <2>1, <2>2 DEF Flush, FlushFails
<1>11. ASSUME NEW a \in Tasks, FlushReturns(a) PROVE Queued'
  BY <1>1, <1>11 DEF FlushReturns, Waiting
<1>12. ASSUME Resend PROVE Queued'
  <2>1. CASE BindEnds
    BY <1>5, <1>12, <2>1 DEF Resend
  <2>2. CASE UNCHANGED <<lock, send>> /\ bind'.at = bind.at
    BY <1>1, <2>2 DEF Waiting
  <2> QED BY <1>0, <1>12, <2>1, <2>2 DEF Resend
<1>13. ASSUME ResendFails PROVE Queued'
  BY <1>5, <1>13 DEF ResendFails
<1>14. ASSUME ResendReturns \/ Disconnect \/ Unbind PROVE Queued'
  BY <1>1, <1>14 DEF ResendReturns, Disconnect, Unbind, Waiting
<1>15. ASSUME Bind PROVE Queued'
  <2>1. lock' = Append(lock, Binder) /\ UNCHANGED send
    BY <1>15 DEF Bind
  <2>2. \A b \in Tasks : Waiting(b)' => Waiting(b) \/ b = Binder
    BY <2>1 DEF Waiting
  <2> QED BY <1>0, <1>3, <2>1, <2>2
<1> QED
  BY <1>6, <1>7, <1>8, <1>9, <1>10, <1>11, <1>12, <1>13, <1>14, <1>15 DEF Next

LEMMA WritesStep ==
  ASSUME Control, Data, Once, Writes, Next
  PROVE  Writes'
<1>0. /\ DOMAIN send = Events /\ Binder \notin Events /\ DOMAIN bind = {"at", "left"}
      /\ DOMAIN write = Tasks /\ NoWrite.event = 0 /\ NoWrite.on = "none" /\ 0 \notin Events
      /\ TypeOK /\ Critical \subseteq Events /\ inFlight \subseteq Critical
      /\ Binder \in Tasks /\ \A e \in Events : e \in Tasks
  BY EventsAssumption DEF Control, TypeOK, Events, NoWrite
\* A step in which nobody begins a write, a first write keeps its sender, what
\* stays in flight stays in its write, and a waiting bind goes on waiting.
<1>1. ASSUME \A a \in Tasks : write'[a] = write[a] \/ write'[a] = NoWrite,
             \A e \in Events : send'[e] = "write" => send[e] = "write" /\ write'[e] = write[e],
             \A e \in inFlight' : e \in inFlight /\ (send[e] = "write" => send'[e] = "write"),
             \A e \in inFlight' : Walked(e) => Walked(e)',
             \A a \in Events : Flushing(a)' /\ write'[a] # NoWrite =>
               Flushing(a) /\ (bind.at = "lock" => bind'.at = "lock")
      PROVE  Writes'
  <2>1. \A a \in Tasks : write'[a].event = 0 <=> write'[a].on = "none"
    BY <1>0, <1>1 DEF Writes
  <2>2. write'[Binder].on # "old"
    BY <1>0, <1>1 DEF Writes
  <2>3. \A e \in Events : send'[e] = "write" => write'[e].event = e
    BY <1>0, <1>1 DEF Writes
  <2>4. \A e \in inFlight' : send'[e] = "write" \/ Walked(e)'
    BY <1>0, <1>1 DEF Writes
  <2>5. \A a \in Events : Flushing(a)' /\ write'[a].on = "old" => bind'.at = "lock"
    BY <1>0, <1>1 DEF Writes
  <2> QED BY <2>1, <2>2, <2>3, <2>4, <2>5 DEF Writes
<1>2. ASSUME NEW e \in Events, Send(e) PROVE Writes'
  <2>1. send[e] = "new" /\ ~Flushing(e) /\ ~Walked(e) /\ UNCHANGED bind
    BY <1>0, <1>2 DEF Send, Flushing, Walked, Data, FlushWrites
  <2>2. \A x \in Events \ {e} : send'[x] = send[x]
    BY <1>0, <1>2 DEF Send
  <2>3. write[e].event = 0
    BY <1>0, <2>1 DEF Control, Idle, Holds, Flushing
  <2>4. CASE up
    <3>1. /\ send'[e] = "write" /\ inFlight' = inFlight \cup Tracked(e)
          /\ write'[e] = [event |-> e, on |-> "latest"]
          /\ \A b \in Tasks \ {e} : write'[b] = write[b]
      BY <1>0, <1>2, <2>4 DEF Send, Awaits
    <3>2. \A b \in Tasks : Flushing(b)' <=> Flushing(b)
      BY <1>0, <2>1, <2>2, <3>1 DEF Flushing
    <3>3. \A x \in Events : Walked(x) => Walked(x)'
      BY <1>0, <2>1, <3>1, <3>2 DEF Walked
    <3>4. \A x \in inFlight' : send'[x] = "write" \/ Walked(x)'
      <4>1. \A x \in inFlight : send'[x] = "write" \/ Walked(x)'
        BY <1>0, <2>2, <3>1, <3>3 DEF Writes
      <4> QED BY <3>1, <4>1 DEF Tracked
    <3>5. \A x \in Tasks : write'[x].event = 0 <=> write'[x].on = "none"
      BY <1>0, <3>1 DEF Writes
    <3> QED BY <1>0, <2>1, <2>2, <3>1, <3>2, <3>4, <3>5 DEF Writes
  <2>5. CASE ~up
    <3>1. send'[e] = "over" /\ UNCHANGED <<write, inFlight>>
      BY <1>0, <1>2, <2>5 DEF Send
    <3>2. \A b \in Tasks : Flushing(b)' <=> Flushing(b)
      BY <1>0, <2>1, <2>2, <3>1 DEF Flushing
    <3>3. \A x \in Events : Walked(x) => Walked(x)'
      BY <3>1, <3>2 DEF Walked
    <3> QED BY <1>0, <1>1, <2>1, <2>2, <3>1, <3>2, <3>3
  <2> QED BY <2>4, <2>5
\* A sender's write ends, and its event is no longer in flight.
<1>3. ASSUME NEW e \in Events, send[e] = "write", send'[e] # "write", NoLonger(e),
             UNCHANGED bind, inFlight' = inFlight \ {e},
             \A x \in Events \ {e} : send'[x] = send[x]
      PROVE  Writes'
  <2>1. ~Flushing(e) /\ \A b \in Tasks \ {e} : Flushing(b)' <=> Flushing(b)
    BY <1>0, <1>3 DEF Flushing
  <2>2. write'[e] = NoWrite /\ \A b \in Tasks \ {e} : write'[b] = write[b]
    BY <1>0, <1>3 DEF NoLonger
  <2>3. \A x \in Events : Walked(x) => Walked(x)'
    BY <2>1, <2>2 DEF Walked
  <2> QED BY <1>0, <1>1, <1>3, <2>1, <2>2, <2>3
<1>4. ASSUME NEW e \in Events, SendReturns(e) \/ SendFails(e) PROVE Writes'
  <2>1. /\ send[e] = "write" /\ send'[e] # "write" /\ NoLonger(e) /\ UNCHANGED bind
        /\ inFlight' = inFlight \ {e} /\ \A x \in Events \ {e} : send'[x] = send[x]
    BY <1>0, <1>4 DEF SendReturns, SendFails, TakeBack
  <2> QED BY <1>3, <2>1
\* A flush write ends, and its event is no longer in flight.
<1>5. ASSUME NEW a \in Tasks, Flushing(a), NoLonger(a), inFlight' = inFlight \ {write[a].event},
             \A x \in Events : send'[x] = "write" <=> send[x] = "write",
             \A b \in Tasks : Flushing(b)' => Flushing(b)
      PROVE  Writes'
  <2>1. \A b \in Tasks : Flushing(b) => b = a
    BY <1>5 DEF Control, Exclusive, Holds
  <2>2. write'[a] = NoWrite /\ \A b \in Tasks \ {a} : write'[b] = write[b]
    BY <1>0, <1>5 DEF NoLonger
  <2>3. \A x \in inFlight' : ~Walked(x)
    BY <1>5, <2>1 DEF Walked
  <2>4. a \in Events => send[a] # "write"
    BY <1>0, <1>5 DEF Flushing
  <2> QED BY <1>0, <1>1, <1>5, <2>1, <2>2, <2>3, <2>4
<1>6. ASSUME NEW a \in Tasks, Flushing(a), Flushed(a)
      PROVE  /\ \A x \in Events : send'[x] = "write" <=> send[x] = "write"
             /\ \A b \in Tasks : Flushing(b)' => Flushing(b)
             /\ bind.at = "lock" => bind'.at = "lock"
  BY <1>0, <1>6 DEF Flushed, Flushing
<1>7. ASSUME NEW e \in Events, Cancel(e) \/ DrainExpires(e) PROVE Writes'
  <2>1. /\ send' = [send EXCEPT ![e] = "over"] /\ send[e] \in {"write", "lock", "flush"}
        /\ UNCHANGED bind /\ NoLonger(e)
    BY <1>7 DEF Cancel, DrainExpires
  <2>2. /\ \A x \in Events \ {e} : send'[x] = send[x]
        /\ send'[e] = "over"
        /\ \A b \in Tasks : Flushing(b)' => Flushing(b) /\ b # e
    BY <1>0, <2>1 DEF Flushing
  <2>3. CASE send[e] = "write" /\ TakeBack(e)
    BY <1>3, <2>1, <2>2, <2>3 DEF TakeBack
  <2>4. CASE send[e] = "lock" /\ UNCHANGED store
    <3>1. write[e].event = 0
      BY <1>0, <2>4 DEF Control, Idle, Holds, Flushing
    <3>2. UNCHANGED inFlight /\ write' = [write EXCEPT ![e] = NoWrite]
      BY <2>1, <2>4 DEF store, NoLonger
    <3>3. \A b \in Tasks : Flushing(b)' <=> Flushing(b)
      BY <1>0, <2>1, <2>4 DEF Flushing
    <3>4. \A x \in Events : Walked(x) => Walked(x)'
      BY <1>0, <3>1, <3>2, <3>3 DEF Walked
    <3> QED BY <1>0, <1>1, <2>1, <2>2, <2>4, <3>2, <3>3, <3>4
  <2>5. CASE send[e] = "flush" /\ KeepHead(write[e].event)
    <3>1. Flushing(e)
      BY <1>0, <2>5 DEF Flushing
    <3> QED BY <1>0, <1>5, <2>1, <2>2, <2>5, <3>1 DEF KeepHead
  <2> QED BY <1>7, <2>1, <2>3, <2>4, <2>5 DEF Cancel, DrainExpires
<1>8. ASSUME NEW e \in Events, Acknowledge(e) PROVE Writes'
  BY <1>0, <1>1, <1>8 DEF Acknowledge, Walked, Flushing
<1>9. ASSUME Acquire PROVE Writes'
  <2>1. /\ UNCHANGED <<write, inFlight>> /\ Head(lock) \in Tasks /\ Head(lock) = lock[1]
        /\ ~Flushing(Head(lock))
    BY <1>0, <1>9 DEF Acquire, store, TypeOK
  <2>2. \A b \in Tasks : ~Flushing(b)
    BY <2>1 DEF Control, Exclusive, Holds
  <2>3. write[Head(lock)].event = 0
    BY <1>0, <1>9, <2>1 DEF Acquire, Control, Idle, Holds, Flushing
  <2>4. write[Head(lock)].on # "old"
    BY <2>1, <2>3 DEF Writes
  <2>5. \A b \in Tasks : Flushing(b)' => b = Head(lock)
    BY <1>0, <1>9, <2>1, <2>2 DEF Acquire, Flushing
  <2>6. \A x \in Events : send'[x] = "write" <=> send[x] = "write"
    BY <1>0, <1>9 DEF Acquire
  <2>7. \A x \in Events : ~Walked(x)
    BY <2>2 DEF Walked
  <2> QED BY <1>0, <2>1, <2>4, <2>5, <2>6, <2>7 DEF Writes
<1>10. ASSUME NEW a \in Tasks, Flush(a) PROVE Writes'
  <2>0. Flushing(a) /\ write[a].event = 0
    BY <1>0, <1>10 DEF Flush, Control, Idle
  <2>1. \A b \in Tasks : Flushing(b) => b = a
    BY <2>0 DEF Control, Exclusive, Holds
  <2>2. \A x \in Events : ~Walked(x)
    BY <2>0, <2>1, <1>0 DEF Walked
  <2>3. CASE Flushed(a) /\ UNCHANGED <<write, inFlight>>
    BY <1>0, <1>1, <1>6, <2>0, <2>2, <2>3
  <2>4. CASE ~(buffer = <<>> \/ ~up)
    <3> SUFFICES ASSUME NEW e, e = Head(buffer)
                PROVE  Writes'
      OBVIOUS
    <3>1. e \in Events
      BY <1>0, <2>4 DEF TypeOK
    <3>2. /\ UNCHANGED <<send, bind>> /\ inFlight' = inFlight \cup Tracked(e)
          /\ \A b \in Tasks \ {a} : write'[b] = write[b]
          /\ write'[a] = [event |-> e, on |-> "latest"]
      BY <1>0, <1>10, <2>4 DEF Flush, Awaits
    <3>3. \A b \in Tasks : Flushing(b)' <=> Flushing(b)
      BY <3>2 DEF Flushing
    <3>4. Walked(e)'
      BY <2>0, <3>2, <3>3 DEF Walked
    <3>5. \A x \in inFlight' : send'[x] = "write" \/ Walked(x)'
      BY <1>0, <2>2, <3>2, <3>4 DEF Writes, Tracked
    <3>6. \A x \in Tasks : write'[x].event = 0 <=> write'[x].on = "none"
      BY <1>0, <3>1, <3>2 DEF Writes
    <3>7. a \in Events => send[a] # "write"
      BY <1>0, <2>0 DEF Flushing
    <3> QED BY <1>0, <3>2, <3>3, <3>5, <3>6, <3>7 DEF Writes
  <2> QED BY <1>10, <2>3, <2>4 DEF Flush
<1>11. ASSUME NEW a \in Tasks, FlushReturns(a) PROVE Writes'
  <2>1. \A b \in Tasks : Flushing(b)' => Flushing(b)
    BY <1>11 DEF FlushReturns, Flushing
  <2> QED BY <1>5, <1>11, <2>1 DEF FlushReturns
<1>12. ASSUME NEW a \in Tasks, FlushFails(a) PROVE Writes'
  BY <1>5, <1>6, <1>12 DEF FlushFails, KeepHead
<1>13. ASSUME Resend \/ ResendReturns \/ ResendFails PROVE Writes'
  <2>1. /\ bind.at = "resend" /\ bind'.at \in {"resend", "off"} /\ UNCHANGED <<send, inFlight>>
        /\ \A b \in Tasks \ {Binder} : write'[b] = write[b]
        /\ \/ write'[Binder] \in {write[Binder], NoWrite}
           \/ \E x \in Critical : write'[Binder] = [event |-> x, on |-> "latest"]
    BY <1>0, <1>13
       DEF Resend, ResendReturns, ResendFails, BindEnds, NoBind, Awaits, NoLonger, store, TypeOK
  <2>2. Holds(Binder)
    BY <2>1 DEF Holds
  <2>3. \A b \in Tasks : ~Flushing(b) /\ ~Flushing(b)'
    BY <1>0, <2>1, <2>2 DEF Control, Exclusive, Holds, Flushing
  <2>4. \A x \in Events : ~Walked(x)
    BY <2>3 DEF Walked
  <2>5. /\ write'[Binder].event = 0 <=> write'[Binder].on = "none"
        /\ write'[Binder].on # "old"
    <3>1. CASE write'[Binder] = write[Binder]
      BY <1>0, <3>1 DEF Writes
    <3>2. CASE write'[Binder] = NoWrite
      BY <1>0, <3>2
    <3>3. ASSUME NEW x \in Critical, write'[Binder] = [event |-> x, on |-> "latest"]
          PROVE  /\ write'[Binder].event = 0 <=> write'[Binder].on = "none"
                 /\ write'[Binder].on # "old"
      <4>1. x # 0
        BY <1>0
      <4> QED BY <3>3, <4>1
    <3> QED BY <2>1, <3>1, <3>2, <3>3
  <2>6. \A x \in Tasks : write'[x].event = 0 <=> write'[x].on = "none"
    BY <1>0, <2>1, <2>5 DEF Writes
  <2> QED BY <1>0, <2>1, <2>3, <2>4, <2>5, <2>6 DEF Writes
<1>14. ASSUME Disconnect \/ Unbind PROVE Writes'
  BY <1>0, <1>1, <1>14 DEF Disconnect, Unbind, store, Walked, Flushing
<1>15. ASSUME Bind PROVE Writes'
  <2>1. /\ UNCHANGED <<send, inFlight>> /\ bind.at = "off"
        /\ bind'.at = IF lock = <<>> THEN "flush" ELSE "lock"
    BY <1>15 DEF Bind, store
  <2>2. \A a \in Tasks : /\ write'[a].event = write[a].event
                         /\ write'[a].on = Older(write[a].on)
    <3>1. \A a \in Tasks : write[a] \in [event : Events \cup {0}, on : {"none", "old", "latest"}]
      BY <1>0 DEF TypeOK
    <3> QED BY <3>1, <1>15 DEF Bind
  <2>3. write[Binder].event = 0
    BY <1>0, <2>1 DEF Control, Idle, Holds, Flushing
  <2>4. \A a \in Tasks : write'[a].event = 0 <=> write'[a].on = "none"
    BY <2>2 DEF Writes, Older
  <2>5. write'[Binder].on # "old"
    BY <1>0, <2>2, <2>3, <2>4
  <2>6. \A b \in Events : Flushing(b)' <=> Flushing(b)
    BY <1>0, <2>1 DEF Flushing
  <2>7. ~Flushing(Binder)
    BY <2>1 DEF Flushing
  <2>8. \A x \in Events : Walked(x) => Walked(x)'
    BY <2>2, <2>6, <2>7 DEF Walked
  <2>9. \A b \in Events : Flushing(b) => bind'.at = "lock"
    BY <1>0, <2>1 DEF Control, Exclusive, Holds
  <2> QED BY <1>0, <2>1, <2>2, <2>4, <2>5, <2>6, <2>8, <2>9 DEF Writes
<1> QED
  BY <1>2, <1>4, <1>7, <1>8, <1>9, <1>10, <1>11, <1>12, <1>13, <1>14, <1>15 DEF Next

\* A step after which the connection is closed, or an excuse is noted, owes
\* nothing; one that keeps the connection has to keep a task for each debt.
LEMMA DrainedStep ==
  ASSUME Control, Data, Once, Writes, Drained, Next
  PROVE  Drained'
<1>0. /\ DOMAIN send = Events /\ Binder \notin Events /\ DOMAIN bind = {"at", "left"}
      /\ DOMAIN write = Tasks /\ NoWrite.event = 0 /\ NoWrite.on = "none" /\ 0 \notin Events
      /\ TypeOK /\ Binder \in Tasks /\ \A e \in Events : e \in Tasks
  BY DEF Control, TypeOK, Events, NoWrite
<1>1. ASSUME ~up' \/ excused' PROVE Drained'
  BY <1>1 DEF Drained
\* Who is to walk the buffer is still to do so.
<1>2. ASSUME up' => up, UNCHANGED <<buffer, excused>>,
             \A a \in Tasks : Waiting(a) => Waiting(a)',
             \A a \in Tasks : Flushing(a) /\ write[a].on # "old" =>
               Flushing(a)' /\ write'[a].on # "old"
      PROVE  Drained'
  BY <1>2 DEF Drained
<1>3. ASSUME NEW a \in Tasks, Waiting(a)' \/ (Flushing(a)' /\ write'[a].on # "old")
      PROVE  Drained'
  BY <1>3 DEF Drained
<1>4. ASSUME NEW e \in Events, Send(e) PROVE Drained'
  <2>1. CASE ~up
    BY <1>1, <1>4, <2>1 DEF Send
  <2>2. CASE up
    <3>1. /\ send[e] = "new" /\ UNCHANGED <<up, bind, buffer, excused>>
          /\ \A x \in Events \ {e} : send'[x] = send[x]
          /\ \A b \in Tasks \ {e} : write'[b] = write[b]
      BY <1>0, <1>4, <2>2 DEF Send, Awaits
    <3>2. \A b \in Tasks : (Waiting(b) \/ Flushing(b)) => b # e
      BY <1>0, <3>1 DEF Waiting, Flushing
    <3>3. \A b \in Tasks \ {e} : (Waiting(b) => Waiting(b)') /\ (Flushing(b) => Flushing(b)')
      BY <1>0, <3>1 DEF Waiting, Flushing
    <3> QED BY <1>2, <3>1, <3>2, <3>3
  <2> QED BY <2>1, <2>2
\* A sender's write is over and the buffer is as it was.
<1>5. ASSUME NEW e \in Events, send[e] = "write", NoLonger(e), UNCHANGED <<buffer, excused, bind>>,
             up' => up, \A x \in Events \ {e} : send'[x] = send[x]
      PROVE  Drained'
  <2>1. /\ \A b \in Tasks \ {e} : write'[b] = write[b]
        /\ \A b \in Tasks : (Waiting(b) \/ Flushing(b)) => b # e
    BY <1>0, <1>5 DEF Waiting, Flushing, NoLonger
  <2>2. \A b \in Tasks \ {e} : (Waiting(b) => Waiting(b)') /\ (Flushing(b) => Flushing(b)')
    BY <1>0, <1>5 DEF Waiting, Flushing
  <2> QED BY <1>2, <1>5, <2>1, <2>2
<1>6. ASSUME NEW e \in Events, SendReturns(e) PROVE Drained'
  BY <1>0, <1>5, <1>6 DEF SendReturns
<1>7. ASSUME NEW e \in Events, SendFails(e) PROVE Drained'
  <2>0. up' => up
    BY <1>7 DEF SendFails, Fails, TimesOut
  <2>1. CASE ~up'
    BY <1>1, <2>1
  <2>2. CASE Rebuffers(e) /\ up'
    <3>1. send'[e] \in {"lock", "flush"} /\ write'[e] = NoWrite
      BY <1>0, <1>7, <2>2 DEF SendFails, NoLonger
    <3>2. Waiting(e)' \/ (Flushing(e)' /\ write'[e].on # "old")
      BY <1>0, <3>1 DEF Waiting, Flushing
    <3> QED BY <1>0, <1>3, <3>2
  <2>3. CASE ~Rebuffers(e)
    BY <1>0, <1>5, <1>7, <2>0, <2>3 DEF SendFails, TakeBack
  <2> QED BY <2>1, <2>2, <2>3
<1>8. ASSUME NEW e \in Events, Cancel(e) \/ DrainExpires(e) PROVE Drained'
  BY <1>1, <1>8 DEF Cancel, DrainExpires
<1>9. ASSUME NEW e \in Events, Acknowledge(e) PROVE Drained'
  BY <1>2, <1>9 DEF Acknowledge, Waiting, Flushing
<1>10. ASSUME Acquire PROVE Drained'
  <2> SUFFICES ASSUME NEW a, a = Head(lock)
              PROVE  Drained'
    OBVIOUS
  <2>1. a \in Tasks /\ UNCHANGED write
    BY <1>0, <1>10 DEF Acquire, TypeOK
  <2>2. write[a].event = 0
    BY <1>0, <1>10, <2>1 DEF Acquire, Control, Idle, Holds, Flushing
  <2>3. write'[a].on # "old"
    BY <2>1, <2>2 DEF Writes
  <2>4. Flushing(a)'
    BY <1>0, <1>10, <2>1 DEF Acquire, Flushing
  <2> QED BY <1>3, <2>1, <2>3, <2>4
<1>11. ASSUME NEW a \in Tasks, Flush(a) PROVE Drained'
  <2>1. CASE ~up
    BY <1>1, <1>11, <2>1 DEF Flush
  <2>2. CASE buffer = <<>>
    BY <1>11, <2>2 DEF Flush, Drained
  <2>3. CASE ~(buffer = <<>> \/ ~up)
    <3>1. Flushing(a)' /\ write'[a].on = "latest"
      BY <1>0, <1>11, <2>3 DEF Flush, Awaits, Flushing
    <3> QED BY <1>3, <3>1
  <2> QED BY <2>1, <2>2, <2>3
<1>12. ASSUME NEW a \in Tasks, FlushReturns(a) PROVE Drained'
  <2>1. Flushing(a)' /\ write'[a].on = "none"
    BY <1>0, <1>12 DEF FlushReturns, NoLonger, Flushing
  <2> QED BY <1>3, <2>1
\* A flush write ends without an answer on an open connection only when it was
\* made on an older one, and a bind waits behind it.
<1>13. ASSUME NEW a \in Tasks, FlushFails(a) PROVE Drained'
  <2>1. CASE ~up'
    BY <1>1, <2>1
  <2>2. CASE up'
    <3>1. Fails(a) /\ write[a].on # "latest" /\ Flushing(a)
      BY <1>13, <2>2 DEF FlushFails, Fails, TimesOut, CanReturn
    <3>2. write[a].on = "old"
      BY <1>0, <3>1 DEF Fails, Writes, TypeOK
    <3>3. a # Binder
      BY <3>2 DEF Writes
    <3>4. Waiting(Binder)
      BY <3>1, <3>2, <3>3 DEF Writes, Waiting
    <3>5. Waiting(Binder)'
      BY <1>13, <3>3, <3>4 DEF FlushFails, Flushed, Waiting
    <3> QED BY <1>0, <1>3, <3>5
  <2> QED BY <2>1, <2>2
<1>14. ASSUME Resend \/ ResendReturns \/ ResendFails PROVE Drained'
  <2>1. /\ bind.at = "resend" /\ UNCHANGED <<send, buffer, excused>> /\ (up' => up)
        /\ \A b \in Tasks \ {Binder} : write'[b] = write[b]
    BY <1>0, <1>14
       DEF Resend, ResendReturns, ResendFails, Awaits, NoLonger, store, Fails, TimesOut
  <2>2. \A b \in Tasks : Waiting(b) \/ Flushing(b) => b # Binder
    BY <2>1 DEF Waiting, Flushing
  <2>3. \A b \in Tasks \ {Binder} : (Waiting(b) => Waiting(b)') /\ (Flushing(b) => Flushing(b)')
    BY <2>1 DEF Waiting, Flushing
  <2> QED BY <1>2, <2>1, <2>2, <2>3
<1>15. ASSUME Disconnect \/ Unbind PROVE Drained'
  BY <1>1, <1>15 DEF Disconnect, Unbind
<1>16. ASSUME Bind PROVE Drained'
  <2>1. bind'.at \in {"flush", "lock"} /\ bind.at = "off"
    BY <1>16 DEF Bind
  <2>2. write[Binder].event = 0
    BY <1>0, <2>1 DEF Control, Idle, Holds, Flushing
  <2>3. write[Binder].on = "none"
    BY <1>0, <2>2 DEF Writes
  <2>4. write'[Binder].on # "old"
    <3>1. write[Binder] \in [event : Events \cup {0}, on : {"none", "old", "latest"}]
      BY <1>0 DEF TypeOK
    <3> QED BY <1>0, <1>16, <2>3, <3>1 DEF Bind, Older
  <2>5. Waiting(Binder)' \/ Flushing(Binder)'
    BY <2>1 DEF Waiting, Flushing
  <2> QED BY <1>0, <1>3, <2>4, <2>5
<1> QED
  BY <1>4, <1>6, <1>7, <1>8, <1>9, <1>10, <1>11, <1>12, <1>13, <1>14, <1>15, <1>16 DEF Next

LEMMA AnsweredStep ==
  ASSUME Control, Data, Once, Once', Writes, Answered, Next
  PROVE  Answered'
<1>0. /\ DOMAIN send = Events /\ Binder \notin Events /\ DOMAIN bind = {"at", "left"}
      /\ DOMAIN write = Tasks /\ NoWrite.event = 0 /\ NoWrite.on = "none" /\ 0 \notin Events
      /\ DOMAIN sent = Events /\ TypeOK /\ Critical \subseteq Events /\ pending \subseteq Critical
      /\ Binder \in Tasks /\ \A e \in Events : e \in Tasks
  BY EventsAssumption DEF Control, TypeOK, Events, NoWrite
<1>1. ASSUME ~up' \/ excused' PROVE Answered'
  BY <1>1 DEF Answered
\* What was pending stays covered, if it stays pending.
<1>2. ASSUME up' => up, UNCHANGED excused, \A x \in pending' : x \in pending \/ Covered(x)',
             \A x \in pending' : Covered(x) => Covered(x)'
      PROVE  Answered'
  BY <1>2 DEF Answered
\* A write ends, and its event was written or is pending no more.
<1>3. ASSUME NEW a \in Tasks, NEW e, NoLonger(a), e = write[a].event,
             up' => up, UNCHANGED excused, pending' \subseteq pending,
             e \in pending' => sent'[e] = 1,
             \A x \in Events \ {e} : sent'[x] = sent[x],
             bind.at # "off" => bind'.at # "off" /\ bind'.left = bind.left
      PROVE  Answered'
  <2>1. \A b \in Tasks \ {a} : write'[b] = write[b]
    BY <1>0, <1>3 DEF NoLonger
  <2>2. ASSUME NEW x \in pending', Covered(x), x # e PROVE Covered(x)'
    <3>1. x \in Events
      BY <1>0, <1>3
    <3> QED BY <1>3, <2>1, <2>2, <3>1 DEF Covered
  <2>3. \A x \in pending' : Covered(x) => Covered(x)'
    BY <1>3, <2>2 DEF Covered
  <2> QED BY <1>2, <1>3, <2>3
\* A write that returns is its event's first on this connection.
<1>4. ASSUME NEW e \in Events, sent' = [sent EXCEPT ![e] = @ + 1] PROVE sent'[e] = 1
  <2>1. sent[e] \in Nat /\ sent'[e] = sent[e] + 1
    BY <1>0, <1>4 DEF TypeOK
  <2>2. sent'[e] <= 1
    BY DEF Once, OnceAt
  <2> QED BY <2>1, <2>2
<1>5. ASSUME NEW e \in Events, Send(e) PROVE Answered'
  <2>1. CASE ~up
    BY <1>1, <1>5, <2>1 DEF Send
  <2>2. CASE up
    <3>1. /\ send[e] = "new" /\ UNCHANGED <<up, bind, sent, excused>>
          /\ pending' = pending \cup Tracked(e) /\ write'[e].event = e
          /\ \A b \in Tasks \ {e} : write'[b] = write[b]
      BY <1>0, <1>5, <2>2 DEF Send, Awaits
    <3>2. write[e].event = 0
      BY <1>0, <3>1 DEF Control, Idle, Holds, Flushing
    <3>3. Covered(e)'
      BY <1>0, <3>1 DEF Covered
    <3>4. ASSUME NEW x \in pending', Covered(x) PROVE Covered(x)'
      <4>1. x \in Events
        BY <1>0, <3>1 DEF Tracked
      <4> QED BY <1>0, <3>1, <3>2, <3>3, <3>4, <4>1 DEF Covered
    <3> QED BY <1>2, <3>1, <3>3, <3>4 DEF Tracked
  <2> QED BY <2>1, <2>2
<1>6. ASSUME NEW e \in Events, SendReturns(e) PROVE Answered'
  <2>1. e = write[e].event
    BY <1>6 DEF SendReturns, Writes
  <2>2. sent' = [sent EXCEPT ![e] = @ + 1]
    BY <1>6 DEF SendReturns
  <2>3. sent'[e] = 1 /\ \A x \in Events \ {e} : sent'[x] = sent[x]
    BY <1>0, <1>4, <2>2
  <2> QED BY <1>0, <1>3, <1>6, <2>1, <2>3 DEF SendReturns
<1>7. ASSUME NEW e \in Events, SendFails(e) PROVE Answered'
  <2>1. e = write[e].event
    BY <1>7 DEF SendFails, Writes
  <2>2. /\ NoLonger(e) /\ UNCHANGED <<bind, sent, excused>> /\ (up' => up)
        /\ pending' = pending \ {e}
    BY <1>7 DEF SendFails, TakeBack, Fails, TimesOut
  <2> QED BY <1>0, <1>3, <2>1, <2>2
<1>8. ASSUME NEW e \in Events, Cancel(e) \/ DrainExpires(e) PROVE Answered'
  BY <1>1, <1>8 DEF Cancel, DrainExpires
<1>9. ASSUME NEW e \in Events, Acknowledge(e) PROVE Answered'
  BY <1>2, <1>9 DEF Acknowledge, Covered
<1>10. ASSUME Acquire PROVE Answered'
  <2>1. /\ UNCHANGED <<up, write, sent, excused, pending>>
        /\ bind.at # "off" => bind'.at # "off" /\ bind'.left = bind.left
    BY <1>0, <1>10 DEF Acquire, store
  <2>2. \A x \in pending' : Covered(x) => Covered(x)'
    BY <2>1 DEF Covered
  <2> QED BY <1>2, <2>1, <2>2
<1>11. ASSUME NEW a \in Tasks, Flushing(a), Flushed(a)
       PROVE  bind.at # "off" => bind'.at # "off" /\ bind'.left = bind.left
  BY <1>0, <1>11 DEF Flushed, Flushing
<1>12. ASSUME NEW a \in Tasks, Flush(a) PROVE Answered'
  <2>0. Flushing(a) /\ write[a].event = 0
    BY <1>0, <1>12 DEF Flush, Control, Idle
  <2>1. CASE Flushed(a) /\ UNCHANGED <<write, pending>>
    <3>1. \A x \in pending' : Covered(x) => Covered(x)'
      BY <1>11, <1>12, <2>0, <2>1 DEF Covered, Flush
    <3> QED BY <1>2, <1>12, <2>1, <3>1 DEF Flush
  <2>2. CASE ~(buffer = <<>> \/ ~up)
    <3> SUFFICES ASSUME NEW e, e = Head(buffer)
                PROVE  Answered'
      OBVIOUS
    <3>1. /\ UNCHANGED <<up, bind, sent, excused>> /\ pending' = pending \cup Tracked(e)
          /\ \A b \in Tasks \ {a} : write'[b] = write[b]
          /\ write'[a].event = e
      BY <1>0, <1>12, <2>2 DEF Flush, Awaits
    <3>2. Covered(e)'
      BY <3>1 DEF Covered
    <3>3. ASSUME NEW x \in pending', Covered(x) PROVE Covered(x)'
      <4>1. x # 0
        BY <1>0, <3>1, EventsAssumption DEF Tracked
      <4> QED BY <2>0, <3>1, <3>3, <4>1 DEF Covered
    <3> QED BY <1>2, <3>1, <3>2, <3>3 DEF Tracked
  <2> QED BY <1>12, <2>1, <2>2 DEF Flush
<1>13. ASSUME NEW a \in Tasks, FlushReturns(a) PROVE Answered'
  <2> SUFFICES ASSUME NEW e, e = write[a].event
              PROVE  Answered'
    OBVIOUS
  <2>1. e \in Events
    BY <1>0, <1>13 DEF FlushReturns, CanReturn, Writes, TypeOK
  <2>2. sent' = [sent EXCEPT ![e] = @ + 1]
    BY <1>13 DEF FlushReturns
  <2>3. sent'[e] = 1 /\ \A x \in Events \ {e} : sent'[x] = sent[x]
    BY <1>0, <1>4, <2>1, <2>2
  <2> QED BY <1>3, <1>13, <2>3 DEF FlushReturns
<1>14. ASSUME NEW a \in Tasks, FlushFails(a) PROVE Answered'
  <2> SUFFICES ASSUME NEW e, e = write[a].event
              PROVE  Answered'
    OBVIOUS
  <2>1. /\ NoLonger(a) /\ UNCHANGED <<sent, excused>> /\ (up' => up)
        /\ pending' = pending \ {e} /\ Flushing(a) /\ Flushed(a)
    BY <1>14 DEF FlushFails, KeepHead, Fails, TimesOut
  <2>2. bind.at # "off" => bind'.at # "off" /\ bind'.left = bind.left
    BY <1>11, <2>1
  <2> QED BY <1>3, <2>1, <2>2
<1>15. ASSUME Resend PROVE Answered'
  <2>0. write[Binder].event = 0 /\ UNCHANGED <<up, excused, sent, pending>>
    BY <1>0, <1>15 DEF Resend, Control, Idle, store
  <2>1. CASE ~up
    BY <1>1, <2>0, <2>1
  <2>2. CASE bind.left \cap pending = {} /\ UNCHANGED write
    <3>1. \A x \in pending' : Covered(x) => Covered(x)'
      BY <2>0, <2>2 DEF Covered
    <3> QED BY <1>2, <2>0, <3>1
  <2>3. ASSUME NEW e \in bind.left \cap pending, Awaits(Binder, e),
               bind' = [bind EXCEPT !.left = @ \ {e}]
        PROVE  Answered'
    <3>1. /\ bind'.at = bind.at /\ bind'.left = bind.left \ {e} /\ write'[Binder].event = e
          /\ \A b \in Tasks \ {Binder} : write'[b] = write[b]
      BY <1>0, <2>3 DEF Awaits
    <3>2. ASSUME NEW x \in pending', Covered(x) PROVE Covered(x)'
      <4>1. x # 0
        BY <1>0, <2>0
      <4>2. CASE x = e
        BY <1>0, <3>1, <4>2 DEF Covered
      <4>3. CASE x # e
        BY <2>0, <3>1, <3>2, <4>1, <4>3 DEF Covered
      <4> QED BY <4>2, <4>3
    <3> QED BY <1>2, <2>0, <3>2
  <2> QED BY <1>15, <2>1, <2>2, <2>3 DEF Resend
<1>16. ASSUME ResendReturns PROVE Answered'
  <2> SUFFICES ASSUME NEW e, e = write[Binder].event
              PROVE  Answered'
    OBVIOUS
  <2>1. e \in Events
    BY <1>0, <1>16 DEF ResendReturns, CanReturn, Writes, TypeOK
  <2>2. sent' = [sent EXCEPT ![e] = @ + 1]
    BY <1>16 DEF ResendReturns
  <2>3. sent'[e] = 1 /\ \A x \in Events \ {e} : sent'[x] = sent[x]
    BY <1>0, <1>4, <2>1, <2>2
  <2> QED BY <1>0, <1>3, <1>16, <2>3 DEF ResendReturns, store
\* A bind's write fails only with its connection.
<1>17. ASSUME ResendFails PROVE Answered'
  <2>1. ~up'
    <3>1. CASE TimesOut(Binder)
      BY <3>1 DEF TimesOut
    <3>2. CASE Fails(Binder)
      <4>1. write[Binder].on = "latest"
        BY <1>0, <3>2 DEF Fails, Writes, TypeOK
      <4> QED BY <3>2, <4>1 DEF Fails, CanReturn
    <3> QED BY <1>17, <3>1, <3>2 DEF ResendFails
  <2> QED BY <1>1, <2>1
<1>18. ASSUME Disconnect \/ Unbind PROVE Answered'
  BY <1>1, <1>18 DEF Disconnect, Unbind
\* A new connection: what is pending is on the bind's list or in flight.
<1>19. ASSUME Bind PROVE Answered'
  <2>1. /\ UNCHANGED <<pending, inFlight>> /\ bind'.at # "off" /\ bind'.left = pending \ inFlight
    BY <1>19 DEF Bind, store
  <2>2. \A a \in Tasks : write'[a].event = write[a].event
    <3>1. \A a \in Tasks : write[a] \in [event : Events \cup {0}, on : {"none", "old", "latest"}]
      BY <1>0 DEF TypeOK
    <3> QED BY <3>1, <1>19 DEF Bind
  <2>3. ASSUME NEW x \in pending PROVE Covered(x)'
    <3>1. CASE x \notin inFlight
      BY <2>1, <3>1 DEF Covered
    <3>2. CASE x \in inFlight
      <4>1. \E a \in Tasks : write[a].event = x
        BY <1>0, <3>2 DEF Writes, Walked
      <4> QED BY <2>2, <4>1 DEF Covered
    <3> QED BY <3>1, <3>2
  <2> QED BY <2>1, <2>3 DEF Answered
<1> QED
  BY <1>5, <1>6, <1>7, <1>8, <1>9, <1>10, <1>12, <1>13, <1>14, <1>15, <1>16, <1>17, <1>18, <1>19
     DEF Next

-----------------------------------------------------------------------------
(* The theorems.                                                           *)

LEMMA Initially == Init => Control /\ Data /\ Once
<1> SUFFICES ASSUME Init PROVE Control /\ Data /\ Once
  OBVIOUS
<1>1. TypeOK
  <2>1. /\ lock \in Seq(Tasks) /\ buffer \in Seq(Events \ Unbuffered) /\ Len(buffer) <= MaxBuffer
    BY EventsAssumption DEF Init
  <2> QED BY <2>1 DEF Init, TypeOK, NoBind, NoWrite
<1>2. Exclusive /\ Idle
  BY DEF Init, Exclusive, Idle, Holds, Flushing, NoBind, NoWrite, Events
<1>3. Data
  BY EventsAssumption
     DEF Init, Data, Fresh, FlushWrites, DirectWrites, CriticalsAreKept, InBuffer, Flushing, NoBind
<1>4. Single
  BY DEF Init, Single
<1>5. ASSUME NEW e \in Events PROVE OnceAt(e)
  BY <1>5 DEF Init, OnceAt, InBuffer, Walked, Again, Flushing, NoBind, NoWrite, Events
<1> QED BY <1>1, <1>2, <1>3, <1>4, <1>5 DEF Control, Once

LEMMA Stutters ==
  ASSUME Control, Data, Once, UNCHANGED vars
  PROVE  Control' /\ Data' /\ Once'
BY DEF Control, Data, Once, TypeOK, Exclusive, Idle, Fresh, FlushWrites, DirectWrites,
       CriticalsAreKept, Single, OnceAt, Walked, Again, Holds, Flushing, InBuffer, vars, store

LEMMA InvariantHolds == Spec => [](Control /\ Data /\ Once)
<1>1. ASSUME Control, Data, Once, [Next]_vars PROVE Control' /\ Data' /\ Once'
  <2>1. CASE Next
    BY <1>1, <2>1, TypeStep, ExclusiveStep, IdleStep, DataStep, OnceStep DEF Control
  <2>2. CASE UNCHANGED vars
    BY <1>1, <2>2, Stutters
  <2> QED BY <1>1, <2>1, <2>2
<1> QED BY <1>1, Initially, PTL DEF Spec

LEMMA RecoveryHolds == Spec => []Recovery
<1>1. Init => Recovery
  <2> SUFFICES ASSUME Init PROVE Recovery
    OBVIOUS
  <2>1. Queued
    BY DEF Init, Queued, Waiting, NoBind
  <2>2. Writes
    BY DEF Init, Writes, Flushing, NoBind, NoWrite, Events
  <2>3. Drained /\ Answered
    BY DEF Init, Drained, Answered
  <2> QED BY <2>1, <2>2, <2>3 DEF Recovery
<1>2. ASSUME Control, Data, Once, Once', Recovery, [Next]_vars PROVE Recovery'
  <2>1. CASE Next
    BY <1>2, <2>1, QueuedStep, WritesStep, DrainedStep, AnsweredStep DEF Recovery
  <2>2. CASE UNCHANGED vars
    BY <1>2, <2>2
       DEF Recovery, Queued, Writes, Drained, Answered, Covered, Waiting, InLock, Walked, Flushing,
           vars, store
  <2> QED BY <1>2, <2>1, <2>2
<1> QED BY <1>1, <1>2, InvariantHolds, PTL DEF Spec

\* Every variable of the forwarder keeps its type, and the buffer its limit,
\* whatever is sent, lost, cancelled and acknowledged.
THEOREM TypeCorrect == Spec => []TypeOK
<1>1. Control => TypeOK
  BY DEF Control
<1> QED BY <1>1, InvariantHolds, PTL

\* For any number of events and any buffer size: a critical event handed over
\* is buffered or pending until it is acknowledged or evicted, through every
\* failed or cancelled write and every replacement of the connection.
THEOREM CriticalsKept == Spec => []CriticalsAreKept
<1>1. Data => CriticalsAreKept
  BY DEF Data
<1> QED BY <1>1, InvariantHolds, PTL

\* For any number of events: whatever a failed write, a drain and a bind find
\* to recover, on one connection no critical event, and on all of them no other
\* event, is written twice.
THEOREM WrittenOnce == Spec => []SentOnce
<1>1. Once => SentOnce
  BY DEF Once, OnceAt, SentOnce
<1> QED BY <1>1, InvariantHolds, PTL

\* For any number of events and any buffer size: on an open connection on which
\* nothing is under way and no send was cancelled or gave up, whatever a failed
\* send put back was drained and whatever is pending was written.
THEOREM NoneStranded == Spec => []NothingStranded
<1>1. ASSUME Control, Recovery PROVE NothingStranded
  <2> SUFFICES ASSUME up, lock = <<>>, \A a \in Tasks : write[a] = NoWrite, ~excused
               PROVE  buffer = <<>> /\ \A e \in pending : sent[e] = 1
    BY DEF NothingStranded
  <2>1. \A a \in Tasks : ~Waiting(a) /\ ~Holds(a)
    BY <1>1 DEF Control, Exclusive, Recovery, Queued, InLock
  <2>2. bind.at = "off"
    BY <1>1, <2>1 DEF Control, TypeOK, Waiting, Holds, Flushing
  <2>3. buffer = <<>>
    BY <1>1, <2>1 DEF Recovery, Drained, Holds
  <2>4. ASSUME NEW e \in pending PROVE sent[e] = 1
    <3>1. e # 0
      BY <1>1, EventsAssumption DEF Control, TypeOK, Events
    <3> QED BY <1>1, <2>2, <3>1 DEF Recovery, Answered, Covered, NoWrite
  <2> QED BY <2>3, <2>4
<1> QED BY <1>1, InvariantHolds, RecoveryHolds, PTL
=============================================================================
