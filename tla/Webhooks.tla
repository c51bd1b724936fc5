-------------------------------- MODULE Webhooks --------------------------------
(***************************************************************************)
(* The webhook dispatcher: DNS writes emit events, on the event loop or in *)
(* a worker thread, into a bounded queue; one worker takes them out,       *)
(* records manual changes in the store and posts to one target after the   *)
(* other; shutdown drains the queue for a while.                           *)
(***************************************************************************)
EXTENDS Integers, SequencesExt

CONSTANTS
    Event,             \* the DNS changes
    Scheduled,         \* those of the scheduler, which are in the store already
    Target,            \* the configured targets: their positions in the configuration
    Matches,           \* the targets each event is for
    Autorecord,        \* autorecord_manual_changes, and there is a store
    QueueSize,         \* webhooks.queue_size
    MaxAttempts,       \* webhooks.max_retries
    Nothing,           \* no event
    MaxFaults          \* bound

ASSUME WebhookAssumption ==
    /\ Scheduled \subseteq Event /\ Autorecord \in BOOLEAN /\ Nothing \notin Event
    /\ Target \subseteq Nat /\ Matches \in [Event -> SUBSET Target]
    /\ {QueueSize, MaxAttempts} \subseteq Nat \ {0} /\ MaxFaults \in Nat

VARIABLES
    phase,             \* "up"; stop waits ("draining"), goes on ("joined") and returns ("down")
    emitted,           \* the changes that happened
    handed,            \* events on their way from a thread (call_soon_threadsafe)
    queue, unfinished, \* the asyncio.Queue and its count of unfinished tasks
    worker,            \* the task _run
    recorded,          \* manual changes that are in the store
    received,          \* what each target got
    accepted, handled, \* history variables: the events that went into the queue, and came to an end,
    due, timedOut,     \* those accepted before stop, and whether its timeout passed
    faults

vars == <<phase, emitted, handed, queue, unfinished, worker, recorded, received,
          accepted, handled, due, timedOut, faults>>

Idle == [event |-> Nothing, pc |-> "idle", link |-> FALSE, todo |-> {}, attempt |-> 0]

\* Each event in the queue or being handled is counted once, else queue.join waits
\* for ever or too short.
TypeOK ==
    /\ phase \in {"up", "draining", "joined", "down"}
    /\ emitted \subseteq Event /\ handed \in Seq(Event)
    /\ queue \in Seq(Event) /\ Len(queue) <= QueueSize
    /\ unfinished = Len(queue) + (IF worker.event = Nothing THEN 0 ELSE 1)
    /\ worker \in [event : Event \cup {Nothing}, pc : {"idle", "record", "deliver", "dead"},
                   link : BOOLEAN, todo : SUBSET Target, attempt : 0 .. MaxAttempts]
    /\ recorded \subseteq Event \ Scheduled
    /\ received \in [Target -> Seq([event : Event, link : BOOLEAN, acked : BOOLEAN])]
    /\ handled \cup due \subseteq ToSet(accepted) /\ timedOut \in BOOLEAN
    /\ faults \in 0 .. MaxFaults

Init ==
    /\ phase = "up" /\ emitted = {} /\ handed = <<>> /\ queue = <<>> /\ unfinished = 0
    /\ worker = Idle /\ recorded = {} /\ received = [t \in Target |-> <<>>]
    /\ accepted = <<>> /\ handled = {} /\ due = {} /\ timedOut = FALSE /\ faults = 0

Fault == faults < MaxFaults /\ faults' = faults + 1
--------------------------------------------------------------------------------
(* Emission *)

\* _enqueue: into the queue, or dropped when it is full.
Enqueue(e) ==
    IF Len(queue) >= QueueSize
    THEN UNCHANGED <<queue, unfinished, accepted>>
    ELSE /\ queue' = Append(queue, e)
         /\ unfinished' = unfinished + 1
         /\ accepted' = Append(accepted, e)

\* emit, on the event loop.
EmitOnLoop(e) ==
    /\ e \notin emitted
    /\ emitted' = emitted \cup {e}
    /\ Enqueue(e)
    /\ UNCHANGED <<phase, handed, worker, recorded, received, handled, due, timedOut, faults>>

\* emit, in a thread: the loop is asked to enqueue, and there is none after stop.
EmitInThread(e) ==
    /\ e \notin emitted
    /\ emitted' = emitted \cup {e}
    /\ handed' = IF phase = "down" THEN handed ELSE Append(handed, e)
    /\ UNCHANGED <<phase, queue, unfinished, worker, recorded, received,
                   accepted, handled, due, timedOut, faults>>

EnqueueHanded ==
    /\ handed # <<>>
    /\ handed' = Tail(handed)
    /\ Enqueue(Head(handed))
    /\ UNCHANGED <<phase, emitted, worker, recorded, received, handled, due, timedOut, faults>>
--------------------------------------------------------------------------------
(* The worker *)

\* _run takes an event.
Take ==
    /\ worker.pc = "idle" /\ queue # <<>>
    /\ queue' = Tail(queue)
    /\ LET e == Head(queue)
       IN  worker' = [event |-> e, pc |-> IF e \in Scheduled THEN "deliver" ELSE "record",
                      link |-> TRUE, todo |-> Matches[e], attempt |-> 1]
    /\ UNCHANGED <<phase, emitted, handed, unfinished, recorded, received,
                   accepted, handled, due, timedOut, faults>>

\* Faulty: the identifier is kept although the change is not in the store.
RecordedKeepsId(ok) ==
    /\ worker' = [worker EXCEPT !.pc = "deliver"]
    /\ recorded' = IF ok THEN recorded \cup {worker.event} ELSE recorded

\* _autorecord is back: without a record the event loses its identifier.
Recorded(ok) ==
    /\ worker' = [worker EXCEPT !.pc = "deliver", !.link = ok]
    /\ recorded' = IF ok THEN recorded \cup {worker.event} ELSE recorded

Record ==
    /\ worker.pc = "record"
    /\ \/ Recorded(Autorecord) /\ UNCHANGED faults
       \/ Autorecord /\ Fault /\ Recorded(FALSE)
    /\ UNCHANGED <<phase, emitted, handed, queue, unfinished, received,
                   accepted, handled, due, timedOut>>

\* The targets have their turns in the order of the configuration.
Turn(t) == t \in worker.todo /\ \A u \in worker.todo : t <= u

\* What the target at hand gets, if anything.
Post(t, acked) ==
    received' = [received EXCEPT ![t] =
                    Append(@, [event |-> worker.event, link |-> worker.link, acked |-> acked])]

NextTarget(t) == worker' = [worker EXCEPT !.todo = @ \ {t}, !.attempt = 1]

\* Faulty: the event starts again with its first target.
TryAgainAll(t) ==
    IF worker.attempt < MaxAttempts
    THEN worker' = [worker EXCEPT !.attempt = @ + 1, !.todo = Matches[worker.event]]
    ELSE NextTarget(t)

\* After the backoff, up to max_retries times.
TryAgain(t) ==
    IF worker.attempt < MaxAttempts THEN worker' = [worker EXCEPT !.attempt = @ + 1] ELSE NextTarget(t)

\* _deliver, one attempt.
Deliver(t) ==
    /\ worker.pc = "deliver" /\ Turn(t)
    /\ \/ Post(t, TRUE) /\ NextTarget(t) /\ UNCHANGED faults
       \/ Fault /\ (Post(t, FALSE) \/ UNCHANGED received) /\ TryAgain(t)  \* an error, 5xx, 408, 425, 429
       \/ Fault /\ UNCHANGED received /\ NextTarget(t)      \* other 4xx, or it cannot be formatted
    /\ UNCHANGED <<phase, emitted, handed, queue, unfinished, recorded,
                   accepted, handled, due, timedOut>>

\* Faulty: task_done only without an exception.
NextEventUncounted(failed) ==
    /\ unfinished' = IF failed THEN unfinished ELSE unfinished - 1
    /\ worker' = Idle

\* Faulty: an exception ends the loop.
NextEventIfGood(failed) ==
    /\ unfinished' = unfinished - 1
    /\ worker' = IF failed THEN [Idle EXCEPT !.pc = "dead"] ELSE Idle

\* _run: task_done in any case, and the next event.
NextEvent(failed) ==
    /\ unfinished' = unfinished - 1
    /\ worker' = Idle

\* _handle is back, or an exception skips the other targets.
Finish ==
    /\ worker.pc = "deliver"
    /\ \/ worker.todo = {} /\ NextEvent(FALSE) /\ UNCHANGED faults
       \/ worker.todo # {} /\ Fault /\ NextEvent(TRUE)
    /\ handled' = handled \cup {worker.event}
    /\ UNCHANGED <<phase, emitted, handed, queue, recorded, received, accepted, due, timedOut>>
--------------------------------------------------------------------------------
(* Shutdown *)

Stop ==
    /\ phase = "up"
    /\ phase' = "draining"
    /\ due' = ToSet(accepted)
    /\ UNCHANGED <<emitted, handed, queue, unfinished, worker, recorded, received,
                   accepted, handled, timedOut, faults>>

\* Faulty: stop waits until the queue is empty.
JoinWhenEmpty ==
    /\ phase = "draining"
    /\ phase' = "joined"
    /\ \/ queue = <<>> /\ timedOut' = FALSE
       \/ timedOut' = TRUE
    /\ UNCHANGED <<emitted, handed, queue, unfinished, worker, recorded, received,
                   accepted, handled, due, faults>>

\* queue.join returns, or the timeout passes.
Join ==
    /\ phase = "draining"
    /\ phase' = "joined"
    /\ \/ unfinished = 0 /\ timedOut' = FALSE
       \/ timedOut' = TRUE
    /\ UNCHANGED <<emitted, handed, queue, unfinished, worker, recorded, received,
                   accepted, handled, due, faults>>

\* The worker is cancelled wherever it is; what it was doing may have had its effect.
Cancel ==
    /\ phase = "joined"
    /\ phase' = "down"
    /\ worker' = [Idle EXCEPT !.pc = "dead"]
    /\ unfinished' = IF worker.event = Nothing THEN unfinished ELSE unfinished - 1
    /\ \/ UNCHANGED <<recorded, received>>
       \/ worker.pc = "record" /\ recorded' = recorded \cup {worker.event} /\ UNCHANGED received
       \/ /\ worker.pc = "deliver" /\ UNCHANGED recorded
          /\ \E t \in Target : Turn(t) /\ Post(t, FALSE)
    /\ UNCHANGED <<emitted, handed, queue, accepted, handled, due, timedOut, faults>>
--------------------------------------------------------------------------------
Work == Take \/ Record \/ (\E t \in Target : Deliver(t)) \/ Finish

Next ==
    \/ \E e \in Event : EmitOnLoop(e) \/ EmitInThread(e)
    \/ EnqueueHanded
    \/ Work
    \/ Stop \/ Join \/ Cancel

Spec == Init /\ [][Next]_vars

\* The event loop runs the worker, and an attempt ends by its timeout.
FairSpec == Spec /\ WF_vars(Work)
--------------------------------------------------------------------------------
(* Properties *)

\* A notification that links to a change links to one that is in the store, also when the
\* store failed or the dispatcher was stopped in between.
LinkResolves ==
    \A t \in Target : \A i \in DOMAIN received[t] :
        received[t][i].link => received[t][i].event \in Scheduled \cup recorded

\* A target gets the events in the order in which they were accepted, and none again after
\* it acknowledged it, whatever fails and is tried again.
InOrder ==
    \A t \in Target : \A i, j \in DOMAIN received[t] : i < j =>
        LET a == received[t][i] b == received[t][j]
        IN  \/ a.event = b.event /\ ~a.acked
            \/ \E m, n \in DOMAIN accepted :
                  m < n /\ accepted[m] = a.event /\ accepted[n] = b.event

\* If stop did not time out, every event accepted before it was brought to an end.
Drained == phase = "down" /\ ~timedOut => due \subseteq handled

\* An event in the queue is brought to an end, whatever befalls the ones before it, unless
\* the dispatcher is stopped.
QueuedIsHandled ==
    \A e \in Event : e \in ToSet(queue) ~> e \in handled \/ phase # "up"
================================================================================
