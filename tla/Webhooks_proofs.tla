--------------------------- MODULE Webhooks_proofs ---------------------------
(***************************************************************************)
(* What the dispatcher promises, for any events, targets, queue size and   *)
(* number of faults.                                                       *)
(***************************************************************************)
EXTENDS Webhooks, TLAPS

Notification == [event : Event, link : BOOLEAN, acked : BOOLEAN]

\* How many events were taken from the queue, and how many of them are done with.
Taken == Len(accepted) - Len(queue)
Done == IF worker.event = Nothing THEN Taken ELSE Taken - 1

\* An event is one of the first n of a sequence; x comes before y in it.
Among(s, n, x) == \E m \in 1 .. n : s[m] = x
Precedes(s, x, y) == \E m, n \in 1 .. Len(s) : m < n /\ s[m] = x /\ s[n] = y

\* What a target got is in the order s.
Ordered(s, got) ==
    \A i, j \in 1 .. Len(got) : i < j =>
        \/ got[i].event = got[j].event /\ ~got[i].acked
        \/ Precedes(s, got[i].event, got[j].event)

\* The queue is the end of what was accepted, and the event at hand the one before.
QueueOK ==
    /\ accepted \in Seq(Event) /\ Len(queue) <= Len(accepted)
    /\ \A i \in 1 .. Len(queue) : queue[i] = accepted[Taken + i]
    /\ worker.event # Nothing => 1 <= Taken /\ accepted[Taken] = worker.event

\* The event at hand keeps its identifier only if it is in the store.
WorkerOK ==
    /\ worker.event = Nothing <=> worker.pc \in {"idle", "dead"}
    /\ worker.pc = "record" => worker.event \notin Scheduled
    /\ worker.pc = "deliver" /\ worker.link => worker.event \in Scheduled \cup recorded

\* What a target got is of an event done with, or of the one at hand; a target that has its
\* turn to come did not acknowledge that.
GotOK(w, s, n, t, got) ==
    \A i \in 1 .. Len(got) :
        \/ Among(s, n, got[i].event)
        \/ /\ w.pc = "deliver" /\ got[i].event = w.event
           /\ t \in w.todo => ~got[i].acked

ReceivedOK ==
    \A t \in Target : /\ GotOK(worker, accepted, Done, t, received[t])
                      /\ Ordered(accepted, received[t])

\* What is recorded stays so, and what was linked with it.
LinkOK == \A t \in Target : \A i \in 1 .. Len(received[t]) :
    received[t][i].link => received[t][i].event \in Scheduled \cup recorded

\* Until the worker is cancelled no event is lost between the queue and the end.
DrainOK ==
    /\ phase # "down" => ToSet(accepted) \subseteq handled \cup ToSet(queue) \cup {worker.event}
    /\ phase \in {"joined", "down"} /\ ~timedOut => due \subseteq handled

IInv == TypeOK /\ QueueOK /\ WorkerOK /\ ReceivedOK /\ LinkOK /\ DrainOK
--------------------------------------------------------------------------------
LEMMA TypeFacts ==
    ASSUME TypeOK
    PROVE  /\ queue \in Seq(Event) /\ handed \in Seq(Event) /\ emitted \subseteq Event
           /\ received \in [Target -> Seq(Notification)]
           /\ \A t \in Target : received[t] \in Seq(Notification)
           /\ worker.event \in Event \cup {Nothing} /\ worker.todo \subseteq Target
           /\ worker.link \in BOOLEAN /\ worker.attempt \in 0 .. MaxAttempts
           /\ Len(queue) \in Nat
           /\ unfinished = Len(queue) + (IF worker.event = Nothing THEN 0 ELSE 1)
           /\ unfinished \in Nat
<1>1. received \in [Target -> Seq(Notification)]
  BY DEF TypeOK, Notification
<1>2. worker \in [event : Event \cup {Nothing}, pc : {"idle", "record", "deliver", "dead"},
                  link : BOOLEAN, todo : SUBSET Target, attempt : 0 .. MaxAttempts]
  BY DEF TypeOK
<1>3. unfinished = Len(queue) + (IF worker.event = Nothing THEN 0 ELSE 1)
  BY DEF TypeOK
<1>4. queue \in Seq(Event) /\ handed \in Seq(Event) /\ emitted \subseteq Event
  BY DEF TypeOK
<1>5. Len(queue) \in Nat
  BY <1>4
<1> QED BY <1>1, <1>2, <1>3, <1>4, <1>5

LEMMA Appended ==
    ASSUME NEW S, NEW s \in Seq(S), NEW x \in S
    PROVE  /\ Append(s, x) \in Seq(S) /\ Len(Append(s, x)) = Len(s) + 1
           /\ \A i \in 1 .. Len(s) : Append(s, x)[i] = s[i]
           /\ Append(s, x)[Len(s) + 1] = x
           /\ ToSet(Append(s, x)) = ToSet(s) \cup {x}
<1>1. /\ Append(s, x) \in Seq(S) /\ Len(Append(s, x)) = Len(s) + 1
      /\ \A i \in 1 .. Len(s) : Append(s, x)[i] = s[i]
      /\ Append(s, x)[Len(s) + 1] = x
  OBVIOUS
<1>2. Len(s) \in Nat /\ DOMAIN s = 1 .. Len(s) /\ DOMAIN Append(s, x) = 1 .. Len(s) + 1
  BY <1>1
<1>3. \A i \in 1 .. Len(s) + 1 : i \in 1 .. Len(s) \/ i = Len(s) + 1
  BY <1>2
<1> QED BY <1>1, <1>2, <1>3 DEF ToSet

\* A longer sequence keeps what was among the first, and before what.
LEMMA Longer ==
    ASSUME NEW s \in Seq(Event), NEW e \in Event
    PROVE  /\ \A n \in Int : \A x : n <= Len(s) /\ Among(s, n, x) => Among(Append(s, e), n, x)
           /\ \A x, y : Precedes(s, x, y) => Precedes(Append(s, e), x, y)
<1>1. /\ Len(Append(s, e)) = Len(s) + 1 /\ Len(s) \in Nat
      /\ \A i \in 1 .. Len(s) : Append(s, e)[i] = s[i]
  BY Appended
<1>2. ASSUME NEW n \in Int, NEW x, n <= Len(s), Among(s, n, x) PROVE Among(Append(s, e), n, x)
  <2>1. PICK m \in 1 .. n : s[m] = x
    BY <1>2 DEF Among
  <2> QED BY <1>1, <1>2, <2>1 DEF Among
<1>3. ASSUME NEW x, NEW y, Precedes(s, x, y) PROVE Precedes(Append(s, e), x, y)
  <2>1. PICK m \in 1 .. Len(s), n \in 1 .. Len(s) : m < n /\ s[m] = x /\ s[n] = y
    BY <1>3 DEF Precedes
  <2>2. /\ m \in 1 .. Len(Append(s, e)) /\ n \in 1 .. Len(Append(s, e))
        /\ Append(s, e)[m] = x /\ Append(s, e)[n] = y
    BY <1>1, <2>1
  <2> QED BY <2>1, <2>2 DEF Precedes
<1> QED BY <1>2, <1>3

LEMMA InitIInv == Init => IInv
<1> SUFFICES ASSUME Init PROVE IInv
  OBVIOUS
<1> USE DEF Init
<1>0. /\ MaxAttempts \in Nat /\ MaxFaults \in Nat /\ QueueSize \in Nat
      /\ 0 \in 0 .. MaxAttempts /\ 0 \in 0 .. MaxFaults
  BY WebhookAssumption
<1>1. Len(queue) = 0 /\ Len(accepted) = 0 /\ queue \in Seq(Event) /\ accepted \in Seq(Event)
  OBVIOUS
<1>2. \A t \in Target : received[t] = <<>> /\ Len(received[t]) = 0
  OBVIOUS
<1>3. worker.event = Nothing /\ worker.pc = "idle"
  BY DEF Idle
<1>4. ToSet(accepted) = {}
  BY DEF ToSet
<1>5. TypeOK
  <2>1. received \in [Target -> Seq([event : Event, link : BOOLEAN, acked : BOOLEAN])]
    OBVIOUS
  <2>2. worker \in [event : Event \cup {Nothing}, pc : {"idle", "record", "deliver", "dead"},
                    link : BOOLEAN, todo : SUBSET Target, attempt : 0 .. MaxAttempts]
    BY <1>0 DEF Idle
  <2>3. handed \in Seq(Event) /\ Len(queue) <= QueueSize
    BY <1>0, <1>1
  <2>4. unfinished = Len(queue) + (IF worker.event = Nothing THEN 0 ELSE 1)
    BY <1>1, <1>3
  <2>5. phase \in {"up", "draining", "joined", "down"} /\ emitted \subseteq Event
        /\ recorded \subseteq Event \ Scheduled /\ handled \cup due \subseteq ToSet(accepted)
        /\ timedOut \in BOOLEAN /\ faults \in 0 .. MaxFaults
    BY <1>0
  <2> QED BY <1>1, <2>1, <2>2, <2>3, <2>4, <2>5 DEF TypeOK
<1>6. QueueOK /\ WorkerOK
  BY <1>1, <1>3 DEF QueueOK, WorkerOK, Taken
<1>7. ReceivedOK /\ LinkOK
  BY <1>2 DEF ReceivedOK, LinkOK, GotOK, Ordered
<1>8. DrainOK
  BY <1>4 DEF DrainOK
<1> QED BY <1>5, <1>6, <1>7, <1>8 DEF IInv
--------------------------------------------------------------------------------
(* Events come in *)

LEMMA SameDispatch ==
    ASSUME IInv, emitted' \subseteq Event, handed' \in Seq(Event),
           UNCHANGED <<phase, queue, unfinished, worker, recorded, received,
                       accepted, handled, due, timedOut, faults>>
    PROVE  IInv'
<1>1. TypeOK'
  BY DEF IInv, TypeOK
<1>2. QueueOK' /\ WorkerOK'
  BY DEF IInv, QueueOK, WorkerOK, Taken
<1>3. Done' = Done
  BY DEF Done, Taken
<1>4. ReceivedOK' /\ LinkOK'
  BY <1>3 DEF IInv, ReceivedOK, LinkOK
<1>5. DrainOK'
  BY DEF IInv, DrainOK
<1> QED BY <1>1, <1>2, <1>4, <1>5 DEF IInv

\* What an event put into the queue, or dropped, changes.
LEMMA EnqueueStep ==
    ASSUME IInv, NEW e \in Event, Enqueue(e),
           UNCHANGED <<phase, worker, recorded, received, handled, due, timedOut, faults>>,
           emitted' \subseteq Event, handed' \in Seq(Event)
    PROVE  IInv'
<1>0. queue \in Seq(Event) /\ Len(queue) \in Nat /\ QueueSize \in Nat
  BY WebhookAssumption, TypeFacts DEF IInv
<1>1. CASE Len(queue) >= QueueSize
  BY <1>1, SameDispatch DEF Enqueue
<1>2. CASE ~(Len(queue) >= QueueSize)
  <2>1. /\ queue' = Append(queue, e) /\ unfinished' = unfinished + 1
        /\ accepted' = Append(accepted, e) /\ accepted \in Seq(Event)
        /\ Len(queue) < QueueSize /\ Len(queue) <= Len(accepted) /\ Len(accepted) \in Nat
    BY <1>0, <1>2 DEF Enqueue, IInv, QueueOK
  <2>2. /\ queue' \in Seq(Event) /\ Len(queue') = Len(queue) + 1
        /\ \A i \in 1 .. Len(queue) : queue'[i] = queue[i]
        /\ queue'[Len(queue) + 1] = e /\ ToSet(queue') = ToSet(queue) \cup {e}
    BY <1>0, <2>1, Appended
  <2>3. /\ accepted' \in Seq(Event) /\ Len(accepted') = Len(accepted) + 1
        /\ \A i \in 1 .. Len(accepted) : accepted'[i] = accepted[i]
        /\ accepted'[Len(accepted) + 1] = e /\ ToSet(accepted') = ToSet(accepted) \cup {e}
    BY <2>1, Appended
  <2>4. Taken' = Taken /\ Done' = Done /\ Taken \in Nat /\ Taken <= Len(accepted)
    BY <1>0, <2>1, <2>2, <2>3 DEF Taken, Done
  <2>5. TypeOK'
    <3>1. Len(queue') <= QueueSize
      BY <1>0, <2>1, <2>2
    <3>2. unfinished' = Len(queue') + (IF worker'.event = Nothing THEN 0 ELSE 1)
      BY <1>0, <2>1, <2>2, TypeFacts DEF IInv
    <3> QED BY <2>2, <2>3, <3>1, <3>2 DEF IInv, TypeOK
  <2>6. QueueOK'
    <3>1. \A i \in 1 .. Len(queue') : queue'[i] = accepted'[Taken + i]
      <4> TAKE i \in 1 .. Len(queue')
      <4>1. CASE i = Len(queue) + 1
        <5>1. Taken + i = Len(accepted) + 1
          BY <1>0, <2>1, <4>1 DEF Taken
        <5> QED BY <2>2, <2>3, <4>1, <5>1
      <4>2. CASE i \in 1 .. Len(queue)
        <5>1. Taken + i \in 1 .. Len(accepted)
          BY <1>0, <2>1, <2>4, <4>2 DEF Taken
        <5> QED BY <2>2, <2>3, <4>2, <5>1 DEF IInv, QueueOK
      <4> QED BY <1>0, <2>2, <4>1, <4>2
    <3>2. worker.event # Nothing => 1 <= Taken /\ accepted'[Taken] = worker.event
      BY <2>3, <2>4 DEF IInv, QueueOK
    <3>3. Len(queue') <= Len(accepted')
      BY <1>0, <2>1, <2>2, <2>3
    <3> QED BY <2>3, <2>4, <3>1, <3>2, <3>3 DEF QueueOK
  <2>7. ReceivedOK'
    <3> SUFFICES ASSUME NEW t \in Target
                 PROVE  /\ GotOK(worker, accepted', Done, t, received[t])
                        /\ Ordered(accepted', received[t])
      BY <2>4 DEF ReceivedOK
    <3>1. /\ GotOK(worker, accepted, Done, t, received[t])
          /\ Ordered(accepted, received[t])
      BY DEF IInv, ReceivedOK
    <3>2. Done \in Int /\ Done <= Len(accepted)
      BY <2>1, <2>4 DEF Done
    <3>3. /\ \A x : Among(accepted, Done, x) => Among(accepted', Done, x)
          /\ \A x, y : Precedes(accepted, x, y) => Precedes(accepted', x, y)
      BY <2>1, <3>2, Longer
    <3>4. GotOK(worker, accepted', Done, t, received[t])
      BY <3>1, <3>3 DEF GotOK
    <3>5. Ordered(accepted', received[t])
      BY <3>1, <3>3 DEF Ordered
    <3> QED BY <3>4, <3>5
  <2>8. WorkerOK' /\ LinkOK'
    BY DEF IInv, WorkerOK, LinkOK
  <2>9. DrainOK'
    BY <2>2, <2>3 DEF IInv, DrainOK
  <2> QED BY <2>5, <2>6, <2>7, <2>8, <2>9 DEF IInv
<1> QED BY <1>1, <1>2

LEMMA EmissionStep ==
    ASSUME IInv, NEW e \in Event, EmitOnLoop(e) \/ EmitInThread(e) \/ EnqueueHanded
    PROVE  IInv'
<1>0. emitted \subseteq Event /\ handed \in Seq(Event)
  BY TypeFacts DEF IInv
<1>1. CASE EmitOnLoop(e)
  <2>1. emitted' \subseteq Event /\ handed' \in Seq(Event)
    BY <1>0, <1>1 DEF EmitOnLoop
  <2> QED BY <1>1, <2>1, EnqueueStep DEF EmitOnLoop
<1>2. CASE EmitInThread(e)
  <2>1. emitted' \subseteq Event /\ handed' \in Seq(Event)
    BY <1>0, <1>2, Appended DEF EmitInThread
  <2> QED BY <1>2, <2>1, SameDispatch DEF EmitInThread
<1>3. CASE EnqueueHanded
  <2>1. Head(handed) \in Event /\ handed' \in Seq(Event) /\ emitted' \subseteq Event
    BY <1>0, <1>3 DEF EnqueueHanded
  <2> QED BY <1>3, <2>1, EnqueueStep DEF EnqueueHanded
<1> QED BY <1>1, <1>2, <1>3
--------------------------------------------------------------------------------
(* The worker *)

\* What is known of the event at hand.
LEMMA AtHand ==
    ASSUME IInv, worker.event # Nothing
    PROVE  /\ worker.event \in Event /\ worker.event = accepted[Taken]
           /\ Taken \in 1 .. Len(accepted) /\ Done = Taken - 1
           /\ worker.event \in ToSet(accepted) /\ unfinished = Len(queue) + 1
<1>1. Len(accepted) \in Nat /\ Len(queue) \in Nat /\ Len(queue) <= Len(accepted)
  BY TypeFacts DEF IInv, QueueOK
<1>2. Taken \in 1 .. Len(accepted) /\ worker.event = accepted[Taken] /\ accepted \in Seq(Event)
  BY <1>1 DEF IInv, QueueOK, Taken
<1>3. worker.event \in ToSet(accepted)
  BY <1>2 DEF ToSet
<1> QED BY <1>2, <1>3, TypeFacts DEF IInv, Done

LEMMA TakeStep == ASSUME IInv, Take PROVE IInv'
<1> DEFINE e == Head(queue)
<1>1. /\ worker.event = Nothing /\ queue \in Seq(Event) /\ queue # <<>>
      /\ accepted \in Seq(Event) /\ Len(queue) <= Len(accepted)
      /\ Len(accepted) \in Nat /\ Len(queue) \in Nat
  BY TypeFacts DEF Take, IInv, WorkerOK, QueueOK
<1>2. /\ queue' = Tail(queue) /\ e \in Event /\ e = queue[1] /\ queue' \in Seq(Event)
      /\ Len(queue) >= 1 /\ Len(queue') = Len(queue) - 1
      /\ \A i \in 1 .. Len(queue') : queue'[i] = queue[i + 1]
  BY <1>1 DEF Take
<1>3. ToSet(queue) = ToSet(queue') \cup {e}
  <2>1. ToSet(queue) \subseteq ToSet(queue') \cup {e}
    <3> SUFFICES ASSUME NEW i \in 1 .. Len(queue) PROVE queue[i] \in ToSet(queue') \cup {e}
      BY <1>1 DEF ToSet
    <3>1. CASE i = 1
      BY <1>2, <3>1
    <3>2. CASE i # 1
      <4>1. i - 1 \in 1 .. Len(queue') /\ queue'[i - 1] = queue[i]
        BY <1>1, <1>2, <3>2
      <4>2. DOMAIN queue' = 1 .. Len(queue')
        BY <1>2
      <4> QED BY <4>1, <4>2 DEF ToSet
    <3> QED BY <3>1, <3>2
  <2>2. ToSet(queue') \cup {e} \subseteq ToSet(queue)
    BY <1>1, <1>2 DEF ToSet
  <2> QED BY <2>1, <2>2
<1>4. /\ worker' = [event |-> e, pc |-> IF e \in Scheduled THEN "deliver" ELSE "record",
                    link |-> TRUE, todo |-> Matches[e], attempt |-> 1]
      /\ e # Nothing /\ Matches[e] \in SUBSET Target /\ 1 \in 0 .. MaxAttempts
      /\ UNCHANGED <<phase, emitted, handed, unfinished, recorded, received,
                     accepted, handled, due, timedOut, faults>>
  BY <1>2, WebhookAssumption DEF Take
<1>5. worker'.event = e /\ worker'.pc = (IF e \in Scheduled THEN "deliver" ELSE "record")
  BY <1>4
<1>6. Taken' = Taken + 1 /\ Done' = Done
  BY <1>1, <1>2, <1>4, <1>5 DEF Taken, Done
<1>7. TypeOK'
  <2>1. worker' \in [event : Event \cup {Nothing}, pc : {"idle", "record", "deliver", "dead"},
                     link : BOOLEAN, todo : SUBSET Target, attempt : 0 .. MaxAttempts]
    BY <1>2, <1>4
  <2>2. unfinished' = Len(queue') + (IF worker'.event = Nothing THEN 0 ELSE 1)
    BY <1>1, <1>2, <1>4, <1>5, TypeFacts DEF IInv
  <2>3. Len(queue') <= QueueSize
    BY <1>1, <1>2, WebhookAssumption DEF IInv, TypeOK
  <2> QED BY <1>2, <1>4, <2>1, <2>2, <2>3 DEF IInv, TypeOK
<1>8. QueueOK'
  <2>1. \A i \in 1 .. Len(queue') : queue'[i] = accepted[Taken + 1 + i]
    <3> TAKE i \in 1 .. Len(queue')
    <3>1. i + 1 \in 1 .. Len(queue) /\ Taken + (i + 1) = Taken + 1 + i
      BY <1>1, <1>2 DEF Taken
    <3> QED BY <1>2, <3>1 DEF IInv, QueueOK
  <2>2. 1 <= Taken + 1 /\ accepted[Taken + 1] = e
    BY <1>1, <1>2 DEF IInv, QueueOK, Taken
  <2> QED BY <1>1, <1>2, <1>4, <1>5, <1>6, <2>1, <2>2 DEF QueueOK
<1>9. WorkerOK'
  BY <1>4, <1>5 DEF WorkerOK
<1>10. ReceivedOK' /\ LinkOK'
  <2>1. worker.pc = "idle"
    BY DEF Take
  <2> QED BY <1>4, <1>6, <2>1 DEF IInv, ReceivedOK, LinkOK, GotOK
<1>11. DrainOK'
  <2>1. ToSet(accepted) \subseteq Event
    BY <1>1 DEF ToSet
  <2> QED BY <1>1, <1>3, <1>4, <1>5, <2>1, WebhookAssumption DEF IInv, DrainOK
<1> QED BY <1>7, <1>8, <1>9, <1>10, <1>11 DEF IInv

LEMMA RecordStep == ASSUME IInv, Record PROVE IInv'
<1>1. PICK ok \in BOOLEAN : Recorded(ok) /\ faults' \in 0 .. MaxFaults
  <2>1. faults \in 0 .. MaxFaults /\ MaxFaults \in Nat /\ Autorecord \in BOOLEAN
    BY WebhookAssumption DEF IInv, TypeOK
  <2>2. CASE Recorded(Autorecord) /\ UNCHANGED faults
    BY <2>1, <2>2
  <2>3. CASE Autorecord /\ Fault /\ Recorded(FALSE)
    <3>1. faults' \in 0 .. MaxFaults
      BY <2>1, <2>3 DEF Fault
    <3> QED BY <2>3, <3>1
  <2> QED BY <2>2, <2>3 DEF Record
<1>2. /\ worker.pc = "record" /\ worker' = [worker EXCEPT !.pc = "deliver", !.link = ok]
      /\ recorded' = (IF ok THEN recorded \cup {worker.event} ELSE recorded)
      /\ UNCHANGED <<phase, emitted, handed, queue, unfinished, received,
                     accepted, handled, due, timedOut>>
  BY <1>1 DEF Record, Recorded
<1>3. worker.event # Nothing /\ worker.event \in Event \ Scheduled
  BY <1>2, TypeFacts DEF IInv, WorkerOK
<1>4. /\ worker' \in [event : Event \cup {Nothing}, pc : {"idle", "record", "deliver", "dead"},
                       link : BOOLEAN, todo : SUBSET Target, attempt : 0 .. MaxAttempts]
      /\ worker'.event = worker.event /\ worker'.pc = "deliver" /\ worker'.link = ok
      /\ worker'.todo = worker.todo
  BY <1>2 DEF IInv, TypeOK
<1>5. TypeOK'
  BY <1>1, <1>2, <1>3, <1>4 DEF IInv, TypeOK
<1>6. QueueOK' /\ WorkerOK'
  BY <1>2, <1>3, <1>4 DEF IInv, QueueOK, WorkerOK, Taken
<1>7. Done' = Done
  BY <1>2, <1>4 DEF Done, Taken
<1>8. ReceivedOK'
  BY <1>2, <1>4, <1>7 DEF IInv, ReceivedOK, GotOK
<1>9. LinkOK' /\ DrainOK'
  BY <1>2, <1>4 DEF IInv, LinkOK, DrainOK
<1> QED BY <1>5, <1>6, <1>8, <1>9 DEF IInv

\* A target that has its turn gets the event at hand after what it got before.
LEMMA PostOrdered ==
    ASSUME IInv, worker.pc = "deliver", NEW t \in Target, t \in worker.todo, NEW acked \in BOOLEAN,
           NEW x, x = [event |-> worker.event, link |-> worker.link, acked |-> acked]
    PROVE  /\ Append(received[t], x) \in Seq(Notification)
           /\ Ordered(accepted, Append(received[t], x))
           /\ \A i \in 1 .. Len(Append(received[t], x)) :
                 LET y == Append(received[t], x)[i]
                 IN  /\ \/ Among(accepted, Done, y.event)
                        \/ y.event = worker.event /\ ((~acked \/ y # x) => ~y.acked)
                     /\ y.link => y.event \in Scheduled \cup recorded
<1> DEFINE got == received[t]
           new == Append(got, x)
<1>1. worker.event # Nothing
  BY DEF IInv, WorkerOK
<1>2. /\ worker.event \in Event /\ worker.event = accepted[Taken]
      /\ Taken \in 1 .. Len(accepted) /\ Done = Taken - 1 /\ Len(accepted) \in Nat
  BY <1>1, AtHand DEF IInv, QueueOK
<1>3. x \in Notification /\ got \in Seq(Notification) /\ Len(got) \in Nat
  <2>1. worker.link \in BOOLEAN /\ got \in Seq(Notification)
    BY TypeFacts DEF IInv
  <2> QED BY <1>2, <2>1 DEF Notification
<1>4. /\ new \in Seq(Notification) /\ Len(new) = Len(got) + 1
      /\ \A i \in 1 .. Len(got) : new[i] = got[i]
      /\ new[Len(got) + 1] = x
  BY <1>3, Appended
<1>5. \A i \in 1 .. Len(got) :
         \/ Among(accepted, Done, got[i].event)
         \/ got[i].event = worker.event /\ ~got[i].acked
  BY DEF IInv, ReceivedOK, GotOK
<1>6. ASSUME NEW i \in 1 .. Len(new), NEW j \in 1 .. Len(new), i < j
      PROVE  \/ new[i].event = new[j].event /\ ~new[i].acked
             \/ Precedes(accepted, new[i].event, new[j].event)
  <2>1. i \in 1 .. Len(got) /\ new[i] = got[i]
    BY <1>3, <1>4, <1>6
  <2>2. CASE j \in 1 .. Len(got)
    BY <1>4, <1>6, <2>1, <2>2 DEF IInv, ReceivedOK, Ordered
  <2>3. CASE j = Len(got) + 1
    <3>1. new[j].event = worker.event
      BY <1>4, <2>3
    <3>2. CASE Among(accepted, Done, got[i].event)
      <4>1. PICK m \in 1 .. Done : accepted[m] = got[i].event
        BY <3>2 DEF Among
      <4>2. m \in 1 .. Len(accepted) /\ m < Taken
        BY <1>2, <4>1
      <4> QED BY <1>2, <2>1, <3>1, <4>1, <4>2 DEF Precedes
    <3> QED BY <1>5, <2>1, <3>1, <3>2
  <2> QED BY <1>3, <1>4, <2>2, <2>3
<1>7. Ordered(accepted, new)
  BY <1>6 DEF Ordered
<1>8. ASSUME NEW i \in 1 .. Len(new)
      PROVE  /\ \/ Among(accepted, Done, new[i].event)
                \/ new[i].event = worker.event /\ ((~acked \/ new[i] # x) => ~new[i].acked)
             /\ new[i].link => new[i].event \in Scheduled \cup recorded
  <2>1. CASE i \in 1 .. Len(got)
    BY <1>4, <1>5, <2>1 DEF IInv, LinkOK
  <2>2. CASE i = Len(got) + 1
    BY <1>4, <2>2 DEF IInv, WorkerOK
  <2> QED BY <1>3, <1>4, <2>1, <2>2
<1> QED BY <1>4, <1>7, <1>8

LEMMA FaultFits == ASSUME IInv, Fault \/ UNCHANGED faults PROVE faults' \in 0 .. MaxFaults
<1>1. faults \in 0 .. MaxFaults /\ MaxFaults \in Nat
  BY WebhookAssumption DEF IInv, TypeOK
<1> QED BY <1>1 DEF Fault

LEMMA DeliverStep == ASSUME IInv, NEW t \in Target, Deliver(t) PROVE IInv'
<1> DEFINE x(acked) == [event |-> worker.event, link |-> worker.link, acked |-> acked]
<1>1. /\ worker.pc = "deliver" /\ t \in worker.todo /\ worker.event # Nothing
      /\ UNCHANGED <<phase, emitted, handed, queue, unfinished, recorded,
                     accepted, handled, due, timedOut>>
  BY DEF Deliver, Turn, IInv, WorkerOK
<1>2. /\ received \in [Target -> Seq(Notification)] /\ faults \in 0 .. MaxFaults
      /\ MaxFaults \in Nat /\ MaxAttempts \in Nat
      /\ worker \in [event : Event \cup {Nothing}, pc : {"idle", "record", "deliver", "dead"},
                     link : BOOLEAN, todo : SUBSET Target, attempt : 0 .. MaxAttempts]
  BY TypeFacts, WebhookAssumption DEF IInv, TypeOK
<1>3. faults' \in 0 .. MaxFaults
  <2>1. Fault \/ UNCHANGED faults
    BY DEF Deliver
  <2> QED BY <2>1, FaultFits
<1>4. NextTarget(t) =>
         /\ worker' \in [event : Event \cup {Nothing}, pc : {"idle", "record", "deliver", "dead"},
                         link : BOOLEAN, todo : SUBSET Target, attempt : 0 .. MaxAttempts]
         /\ worker'.event = worker.event /\ worker'.pc = "deliver" /\ worker'.link = worker.link
         /\ worker'.todo = worker.todo \ {t}
  <2>1. 1 \in 0 .. MaxAttempts
    BY WebhookAssumption
  <2> QED BY <1>1, <1>2, <2>1 DEF NextTarget
<1>5. TryAgain(t) =>
         /\ worker' \in [event : Event \cup {Nothing}, pc : {"idle", "record", "deliver", "dead"},
                         link : BOOLEAN, todo : SUBSET Target, attempt : 0 .. MaxAttempts]
         /\ worker'.event = worker.event /\ worker'.pc = "deliver" /\ worker'.link = worker.link
         /\ worker'.todo \subseteq worker.todo
  <2>1. CASE worker.attempt < MaxAttempts
    BY <1>1, <1>2, <2>1 DEF TryAgain
  <2>2. CASE ~(worker.attempt < MaxAttempts)
    BY <1>4, <2>2 DEF TryAgain
  <2> QED BY <2>1, <2>2
<1>6. /\ worker' \in [event : Event \cup {Nothing}, pc : {"idle", "record", "deliver", "dead"},
                       link : BOOLEAN, todo : SUBSET Target, attempt : 0 .. MaxAttempts]
      /\ worker'.event = worker.event /\ worker'.pc = "deliver" /\ worker'.link = worker.link
      /\ worker'.todo \subseteq worker.todo
  BY <1>4, <1>5 DEF Deliver
<1>7. \/ UNCHANGED received
      \/ \E acked \in BOOLEAN :
            /\ received' = [received EXCEPT ![t] = Append(received[t], x(acked))]
            /\ acked => t \notin worker'.todo
  <2>1. CASE Post(t, TRUE) /\ NextTarget(t)
    BY <1>4, <2>1 DEF Post
  <2>2. CASE Post(t, FALSE)
    BY <2>2 DEF Post
  <2> QED BY <2>1, <2>2 DEF Deliver
<1>8. Taken' = Taken /\ Done' = Done
  BY <1>1, <1>6 DEF Taken, Done
<1>9. QueueOK' /\ WorkerOK' /\ DrainOK'
  BY <1>1, <1>6, <1>8 DEF IInv, QueueOK, WorkerOK, DrainOK
<1>10. CASE UNCHANGED received
  <2>1. TypeOK'
    BY <1>1, <1>3, <1>6, <1>10 DEF IInv, TypeOK
  <2>2. ReceivedOK' /\ LinkOK'
    BY <1>1, <1>6, <1>8, <1>10 DEF IInv, ReceivedOK, GotOK, LinkOK
  <2> QED BY <1>9, <2>1, <2>2 DEF IInv
<1>11. ASSUME NEW acked \in BOOLEAN,
              received' = [received EXCEPT ![t] = Append(received[t], x(acked))],
              acked => t \notin worker'.todo
       PROVE  IInv'
  <2> DEFINE new == Append(received[t], x(acked))
  <2>1. received'[t] = new /\ \A u \in Target \ {t} : received'[u] = received[u]
    BY <1>2, <1>11
  <2>2. /\ new \in Seq(Notification) /\ Ordered(accepted, new)
        /\ \A i \in 1 .. Len(new) :
              /\ \/ Among(accepted, Done, new[i].event)
                 \/ new[i].event = worker.event /\ ((~acked \/ new[i] # x(acked)) => ~new[i].acked)
              /\ new[i].link => new[i].event \in Scheduled \cup recorded
    BY <1>1, PostOrdered
  <2>3. TypeOK'
    <3>1. received' \in [Target -> Seq([event : Event, link : BOOLEAN, acked : BOOLEAN])]
      BY <1>2, <1>11, <2>2 DEF Notification
    <3> QED BY <1>1, <1>3, <1>6, <3>1 DEF IInv, TypeOK
  <2>4. GotOK(worker', accepted, Done, t, new)
    <3> SUFFICES ASSUME NEW i \in 1 .. Len(new), ~Among(accepted, Done, new[i].event)
                 PROVE  new[i].event = worker.event /\ (t \in worker'.todo => ~new[i].acked)
      BY <1>6 DEF GotOK
    <3> QED BY <1>11, <2>2
  <2>5. ReceivedOK'
    <3> SUFFICES ASSUME NEW u \in Target
                 PROVE  /\ GotOK(worker', accepted, Done, u, received'[u])
                        /\ Ordered(accepted, received'[u])
      BY <1>1, <1>8 DEF ReceivedOK
    <3>1. CASE u = t
      BY <2>1, <2>2, <2>4, <3>1
    <3>2. CASE u # t
      BY <1>6, <2>1, <3>2 DEF IInv, ReceivedOK, GotOK, Ordered
    <3> QED BY <3>1, <3>2
  <2>6. LinkOK'
    <3> SUFFICES ASSUME NEW u \in Target, NEW i \in 1 .. Len(received'[u]), received'[u][i].link
                 PROVE  received'[u][i].event \in Scheduled \cup recorded
      BY <1>1 DEF LinkOK
    <3>1. CASE u = t
      BY <2>1, <2>2, <3>1
    <3>2. CASE u # t
      BY <2>1, <3>2 DEF IInv, LinkOK
    <3> QED BY <3>1, <3>2
  <2> QED BY <1>9, <2>3, <2>5, <2>6 DEF IInv
<1> QED BY <1>7, <1>10, <1>11
--------------------------------------------------------------------------------
(* The end of an event, and of the dispatcher *)

\* When the event at hand is given up, what was got of it is of an event done with.
LEMMA HandedBack ==
    ASSUME IInv, worker' = Idle \/ worker' = [Idle EXCEPT !.pc = "dead"],
           UNCHANGED <<queue, accepted, emitted, handed>>,
           unfinished' = Len(queue)
    PROVE  /\ QueueOK' /\ WorkerOK'
           /\ worker' \in [event : Event \cup {Nothing}, pc : {"idle", "record", "deliver", "dead"},
                            link : BOOLEAN, todo : SUBSET Target, attempt : 0 .. MaxAttempts]
           /\ unfinished' = Len(queue') + (IF worker'.event = Nothing THEN 0 ELSE 1)
           /\ \A x : x = worker.event /\ x # Nothing => Among(accepted, Done', x)
           /\ \A x : Among(accepted, Done, x) => Among(accepted, Done', x)
<1>1. MaxAttempts \in Nat /\ 0 \in 0 .. MaxAttempts
  BY WebhookAssumption
<1>2. /\ worker' \in [event : Event \cup {Nothing}, pc : {"idle", "record", "deliver", "dead"},
                       link : BOOLEAN, todo : SUBSET Target, attempt : 0 .. MaxAttempts]
      /\ worker'.event = Nothing /\ worker'.pc \in {"idle", "dead"}
  <2>1. CASE worker' = Idle
    BY <1>1, <2>1 DEF Idle
  <2>2. CASE worker' = [Idle EXCEPT !.pc = "dead"]
    BY <1>1, <2>2 DEF Idle
  <2> QED BY <2>1, <2>2
<1>3. Len(accepted) \in Nat /\ Len(queue) \in Nat /\ Taken \in Int /\ Done \in Int
  <2>1. Len(accepted) \in Nat /\ Len(queue) \in Nat
    BY TypeFacts DEF IInv, QueueOK
  <2> QED BY <2>1 DEF Taken, Done
<1>4. Taken' = Taken /\ Done' = Taken
  BY <1>2 DEF Taken, Done
<1>5. QueueOK' /\ WorkerOK'
  BY <1>2, <1>4 DEF IInv, QueueOK, WorkerOK
<1>6. ASSUME NEW x, x = worker.event, x # Nothing PROVE Among(accepted, Done', x)
  <2>1. Taken \in 1 .. Taken /\ accepted[Taken] = x
    BY <1>3, <1>6, AtHand
  <2> QED BY <1>4, <2>1 DEF Among
<1>7. ASSUME NEW x, Among(accepted, Done, x) PROVE Among(accepted, Done', x)
  <2>1. PICK m \in 1 .. Done : accepted[m] = x
    BY <1>7 DEF Among
  <2>2. m \in 1 .. Taken
    BY <1>3, <2>1 DEF Done
  <2> QED BY <1>4, <2>1, <2>2 DEF Among
<1>8. unfinished' = Len(queue') + (IF worker'.event = Nothing THEN 0 ELSE 1)
  BY <1>2, <1>3
<1> QED BY <1>2, <1>5, <1>6, <1>7, <1>8

LEMMA FinishStep == ASSUME IInv, Finish PROVE IInv'
<1>1. /\ worker.pc = "deliver" /\ worker.event # Nothing /\ worker' = Idle
      /\ unfinished' = unfinished - 1 /\ handled' = handled \cup {worker.event}
      /\ UNCHANGED <<phase, emitted, handed, queue, recorded, received, accepted, due, timedOut>>
  BY DEF Finish, NextEvent, IInv, WorkerOK
<1>2. faults' \in 0 .. MaxFaults
  <2>1. Fault \/ UNCHANGED faults
    BY DEF Finish
  <2> QED BY <2>1, FaultFits
<1>3. /\ worker.event \in Event /\ worker.event \in ToSet(accepted)
      /\ unfinished = Len(queue) + 1 /\ Len(queue) \in Nat
  BY <1>1, AtHand, TypeFacts DEF IInv
<1>4. unfinished' = Len(queue)
  BY <1>1, <1>3
<1>5. /\ QueueOK' /\ WorkerOK'
      /\ worker' \in [event : Event \cup {Nothing}, pc : {"idle", "record", "deliver", "dead"},
                       link : BOOLEAN, todo : SUBSET Target, attempt : 0 .. MaxAttempts]
      /\ unfinished' = Len(queue') + (IF worker'.event = Nothing THEN 0 ELSE 1)
      /\ \A x : x = worker.event /\ x # Nothing => Among(accepted, Done', x)
      /\ \A x : Among(accepted, Done, x) => Among(accepted, Done', x)
  BY <1>1, <1>4, HandedBack
<1>6. TypeOK'
  BY <1>1, <1>2, <1>3, <1>5 DEF IInv, TypeOK
<1>7. ReceivedOK'
  BY <1>1, <1>5 DEF IInv, ReceivedOK, GotOK
<1>8. LinkOK' /\ DrainOK'
  BY <1>1 DEF IInv, LinkOK, DrainOK
<1> QED BY <1>5, <1>6, <1>7, <1>8 DEF IInv

LEMMA ShutdownStep == ASSUME IInv, Stop \/ Join PROVE IInv'
<1>1. UNCHANGED <<emitted, handed, queue, unfinished, worker, recorded, received,
                  accepted, handled, faults>>
  BY DEF Stop, Join
<1>2. QueueOK' /\ WorkerOK' /\ LinkOK'
  BY <1>1 DEF IInv, QueueOK, WorkerOK, LinkOK, Taken
<1>3. Done' = Done
  BY <1>1 DEF Done, Taken
<1>4. ReceivedOK'
  BY <1>1, <1>3 DEF IInv, ReceivedOK
<1>5. TypeOK' /\ DrainOK'
  <2>1. CASE Stop
    <3>1. phase' = "draining" /\ due' = ToSet(accepted) /\ timedOut' = timedOut /\ phase = "up"
      BY <2>1 DEF Stop
    <3>2. TypeOK'
      BY <1>1, <3>1 DEF IInv, TypeOK
    <3> QED BY <1>1, <3>1, <3>2 DEF IInv, DrainOK
  <2>2. CASE Join
    <3>1. /\ phase' = "joined" /\ due' = due /\ timedOut' \in BOOLEAN /\ phase = "draining"
          /\ timedOut' \/ unfinished = 0
      BY <2>2 DEF Join
    <3>2. TypeOK'
      BY <1>1, <3>1 DEF IInv, TypeOK
    <3>3. unfinished = 0 => due \subseteq handled
      <4> SUFFICES ASSUME unfinished = 0 PROVE due \subseteq handled
        OBVIOUS
      <4>1. Len(queue) = 0 /\ worker.event = Nothing /\ queue \in Seq(Event)
        BY TypeFacts DEF IInv
      <4>2. ToSet(queue) = {}
        BY <4>1 DEF ToSet
      <4>3. ToSet(accepted) \subseteq Event /\ due \subseteq ToSet(accepted)
        BY DEF IInv, QueueOK, TypeOK, ToSet
      <4> QED BY <3>1, <4>1, <4>2, <4>3, WebhookAssumption DEF IInv, DrainOK
    <3> QED BY <1>1, <3>1, <3>2, <3>3 DEF IInv, DrainOK
  <2> QED BY <2>1, <2>2
<1> QED BY <1>2, <1>4, <1>5 DEF IInv

LEMMA CancelStep == ASSUME IInv, Cancel PROVE IInv'
<1>1. /\ phase = "joined" /\ phase' = "down" /\ worker' = [Idle EXCEPT !.pc = "dead"]
      /\ unfinished' = (IF worker.event = Nothing THEN unfinished ELSE unfinished - 1)
      /\ UNCHANGED <<emitted, handed, queue, accepted, handled, due, timedOut, faults>>
  BY DEF Cancel
<1>2. unfinished' = Len(queue)
  BY <1>1, TypeFacts DEF IInv
<1>3. /\ QueueOK' /\ WorkerOK'
      /\ worker' \in [event : Event \cup {Nothing}, pc : {"idle", "record", "deliver", "dead"},
                       link : BOOLEAN, todo : SUBSET Target, attempt : 0 .. MaxAttempts]
      /\ unfinished' = Len(queue') + (IF worker'.event = Nothing THEN 0 ELSE 1)
      /\ \A x : x = worker.event /\ x # Nothing => Among(accepted, Done', x)
      /\ \A x : Among(accepted, Done, x) => Among(accepted, Done', x)
  BY <1>1, <1>2, HandedBack
<1>4. DrainOK'
  BY <1>1 DEF IInv, DrainOK
<1> DEFINE Good(got) == /\ Ordered(accepted, got)
                        /\ \A i \in 1 .. Len(got) :
                              /\ \/ Among(accepted, Done, got[i].event)
                                 \/ got[i].event = worker.event /\ worker.event # Nothing
                              /\ got[i].link => got[i].event \in Scheduled \cup recorded
<1>5. /\ recorded \subseteq recorded' /\ recorded' \subseteq Event \ Scheduled
      /\ received' \in [Target -> Seq(Notification)]
      /\ \A u \in Target : Good(received'[u])
  <2>1. recorded \subseteq Event \ Scheduled /\ received \in [Target -> Seq(Notification)]
    BY TypeFacts DEF IInv, TypeOK
  <2>2. \A u \in Target : Good(received[u])
    BY DEF IInv, ReceivedOK, GotOK, LinkOK, WorkerOK
  <2>3. CASE UNCHANGED <<recorded, received>>
    BY <2>1, <2>2, <2>3
  <2>4. CASE worker.pc = "record" /\ recorded' = recorded \cup {worker.event} /\ UNCHANGED received
    <3>1. worker.event \in Event \ Scheduled
      BY <2>4, TypeFacts DEF IInv, WorkerOK
    <3> QED BY <2>1, <2>2, <2>4, <3>1
  <2>5. ASSUME worker.pc = "deliver", UNCHANGED recorded, NEW t \in Target, Turn(t), Post(t, FALSE)
        PROVE  /\ received' \in [Target -> Seq(Notification)]
               /\ \A u \in Target : Good(received'[u])
    <3> DEFINE new == Append(received[t], [event |-> worker.event, link |-> worker.link, acked |-> FALSE])
    <3>1. new \in Seq(Notification) /\ Good(new)
      BY <2>5, PostOrdered DEF Turn, IInv, WorkerOK
    <3>2. /\ received' = [received EXCEPT ![t] = new] /\ received'[t] = new
          /\ \A u \in Target \ {t} : received'[u] = received[u]
      BY <2>1, <2>5 DEF Post
    <3> HIDE DEF Good
    <3> QED BY <2>1, <2>2, <3>1, <3>2
  <2> HIDE DEF Good
  <2> QED BY <2>1, <2>3, <2>4, <2>5 DEF Cancel
<1>6. TypeOK'
  BY <1>1, <1>3, <1>5 DEF IInv, TypeOK, Notification
<1>7. ReceivedOK'
  BY <1>1, <1>3, <1>5 DEF ReceivedOK, GotOK
<1>8. LinkOK'
  BY <1>5 DEF LinkOK
<1> QED BY <1>3, <1>4, <1>6, <1>7, <1>8 DEF IInv
--------------------------------------------------------------------------------
LEMMA NextIInv == IInv /\ [Next]_vars => IInv'
<1> SUFFICES ASSUME IInv, [Next]_vars PROVE IInv'
  OBVIOUS
<1>1. ASSUME NEW e \in Event, EmitOnLoop(e) \/ EmitInThread(e) PROVE IInv'
  BY <1>1, EmissionStep
<1>2. CASE EnqueueHanded
  <2>1. Head(handed) \in Event
    BY <1>2, TypeFacts DEF IInv, EnqueueHanded
  <2> QED BY <1>2, <2>1, EmissionStep
<1>3. CASE Work
  BY <1>3, TakeStep, RecordStep, DeliverStep, FinishStep DEF Work
<1>4. CASE Stop \/ Join \/ Cancel
  BY <1>4, ShutdownStep, CancelStep
<1>5. CASE UNCHANGED vars
  <2>1. UNCHANGED <<phase, queue, unfinished, worker, recorded, received,
                    accepted, handled, due, timedOut, faults>>
        /\ emitted' \subseteq Event /\ handed' \in Seq(Event)
    BY <1>5, TypeFacts DEF IInv, vars
  <2> QED BY <2>1, SameDispatch
<1> QED BY <1>1, <1>2, <1>3, <1>4, <1>5 DEF Next

LEMMA Always == Spec => []IInv
BY InitIInv, NextIInv, PTL DEF Spec

\* The dispatcher's state keeps its types, and its count of unfinished tasks is that of
\* the events in the queue and at hand, on which shutdown relies.
THEOREM WebhooksTypeCorrect == Spec => []TypeOK
<1>1. IInv => TypeOK
  BY DEF IInv
<1> QED BY <1>1, Always, PTL

\* A notification that links to a change links to one that is in the store.
THEOREM LinkResolvesAlways == Spec => []LinkResolves
<1>1. IInv => LinkResolves
  <2> SUFFICES ASSUME IInv PROVE LinkResolves
    OBVIOUS
  <2>1. \A t \in Target : DOMAIN received[t] = 1 .. Len(received[t])
    BY TypeFacts DEF IInv
  <2> QED BY <2>1 DEF IInv, LinkOK, LinkResolves
<1> QED BY <1>1, Always, PTL

\* A target gets the events in the order in which they were accepted, and an event it
\* acknowledged never again.
THEOREM InOrderAlways == Spec => []InOrder
<1>1. IInv => InOrder
  <2> SUFFICES ASSUME IInv PROVE InOrder
    OBVIOUS
  <2>1. \A t \in Target : DOMAIN received[t] = 1 .. Len(received[t])
    BY TypeFacts DEF IInv
  <2>2. DOMAIN accepted = 1 .. Len(accepted)
    BY DEF IInv, QueueOK
  <2> SUFFICES ASSUME NEW t \in Target, NEW i \in DOMAIN received[t], NEW j \in DOMAIN received[t], i < j
               PROVE  \/ received[t][i].event = received[t][j].event /\ ~received[t][i].acked
                      \/ \E m, n \in DOMAIN accepted :
                            /\ m < n /\ accepted[m] = received[t][i].event
                            /\ accepted[n] = received[t][j].event
    BY DEF InOrder
  <2>3. /\ i \in 1 .. Len(received[t]) /\ j \in 1 .. Len(received[t])
        /\ Ordered(accepted, received[t])
    BY <2>1 DEF IInv, ReceivedOK
  <2>4. \/ received[t][i].event = received[t][j].event /\ ~received[t][i].acked
        \/ Precedes(accepted, received[t][i].event, received[t][j].event)
    BY <2>3 DEF Ordered
  <2> QED BY <2>2, <2>4 DEF Precedes
<1> QED BY <1>1, Always, PTL

\* A shutdown that did not time out brought every event accepted before it to an end.
THEOREM DrainedAlways == Spec => []Drained
<1>1. IInv => Drained
  BY DEF IInv, DrainOK, Drained
<1> QED BY <1>1, Always, PTL
================================================================================
