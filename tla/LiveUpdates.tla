------------------------------ MODULE LiveUpdates ------------------------------
(***************************************************************************)
(* From a NOTIFY to the browsers: the listener, which coalesces the        *)
(* NOTIFYs of a zone into refreshes, and the hub, which sends what a       *)
(* refresh or an UPDATE changed to every subscribed WebSocket.             *)
(*                                                                         *)
(* All of it runs on the event loop, in steps that end at an await; only   *)
(* the refresh itself is in a thread.  A zone's contents are its version   *)
(* number; ZoneCache has the refresh in detail.                            *)
(***************************************************************************)
EXTENDS Integers, FiniteSets, SequencesExt

CONSTANTS
    Zone, Socket,
    All,               \* what a socket of /v1/ws subscribes to
    Wants,             \* what each socket subscribes to
    IpOf,              \* where it comes from
    NotCached,
    MaxConnections, MaxPerIp,                  \* live.max_connections, max_connections_per_ip
    MaxVersion, Budgets                        \* bounds: how often what may happen

ASSUME LiveAssumption ==
    /\ IsFiniteSet(Socket) /\ Wants \in [Socket -> Zone \cup {All}] /\ DOMAIN IpOf = Socket
    /\ All \notin Zone /\ NotCached \notin Nat
    /\ {MaxConnections, MaxPerIp, MaxVersion} \subseteq Nat
    /\ Budgets \subseteq [changes : Nat, writes : Nat, notifies : Nat, mishaps : Nat,
                          sockets : SUBSET Socket]

VARIABLES
    version,           \* the primary's version of each zone
    cached,            \* the cache's
    task,              \* the callback of each zone (_inflight), and what its refresh found
    pending,           \* _pending
    casts,             \* the broadcasts, each a task of the event loop
    byZone, all, ips,  \* _by_zone, _all, the keys of _client_ips
    sock,              \* where the handler of each socket is
    slow,              \* history variables: the sockets to which a send failed,
    owed,              \* the version of a cached zone for which a NOTIFY was accepted,
    said,              \* the one up to which the subscribers were told,
    unsaid,            \* the one up to which refreshes failed, or nobody was told
    budget             \* what may still happen

notifyVars == <<cached, task, pending>>
hubVars    == <<byZone, all, ips>>
tales      == <<owed, said, unsaid>>
vars == <<version, notifyVars, casts, hubVars, sock, slow, tales, budget>>

Version == 0 .. MaxVersion

\* due: who subscribed when it was scheduled (a history variable).
Cast == [zone : Zone, version : Version, pc : {"scheduled", "sending"}, due : SUBSET Socket,
         left : SUBSET Socket, dead : SUBSET Socket, got : SUBSET Socket]

Subscribers == all \cup UNION {byZone[z] : z \in Zone}

\* The limits hold, also per address, and addresses are kept of the subscribers only.
TypeOK ==
    /\ version \in [Zone -> Version]
    /\ cached \in [Zone -> Version \cup {NotCached}]
    /\ task \in [Zone -> [pc : {"none", "due", "refreshing", "refreshed"}, from : Version,
                          found : {"nothing", "changes", "error"}]]
    /\ \A z \in pending : task[z].pc # "none"
    /\ casts \in Seq(Cast)
    /\ sock \in [Socket -> {"new", "listening", "gone", "closed", "leaked"}]
    /\ ips = Subscribers
    /\ Cardinality(Subscribers) <= MaxConnections
    /\ \A s \in ips : Cardinality({t \in ips : IpOf[t] = IpOf[s]}) <= MaxPerIp
--------------------------------------------------------------------------------
Init ==
    /\ version = [z \in Zone |-> 0]
    /\ cached \in [Zone -> {0, NotCached}]
    /\ task = [z \in Zone |-> [pc |-> "none", from |-> 0, found |-> "nothing"]]
    /\ pending = {} /\ casts = <<>>
    /\ byZone = [z \in Zone |-> {}] /\ all = {} /\ ips = {}
    /\ sock = [s \in Socket |-> "new"] /\ slow = {}
    /\ owed = [z \in Zone |-> 0] /\ said = owed /\ unsaid = owed
    /\ budget \in Budgets

Mishap == budget.mishaps > 0 /\ budget' = [budget EXCEPT !.mishaps = @ - 1]

\* broadcast creates a task.
Scheduled(z, v) ==
    Append(casts, [zone |-> z, version |-> v, pc |-> "scheduled",
                   due |-> byZone[z] \cup all, left |-> {}, dead |-> {}, got |-> {}])
--------------------------------------------------------------------------------
(* Changes *)

\* Somebody else changes the zone at the primary.
Change(z) ==
    /\ version[z] < MaxVersion /\ budget.changes > 0
    /\ budget' = [budget EXCEPT !.changes = @ - 1]
    /\ version' = [version EXCEPT ![z] = @ + 1]
    /\ UNCHANGED <<notifyVars, casts, hubVars, sock, slow, tales>>

\* An UPDATE of this program is committed: _emit_change_event announces it, without a
\* serial.
Write(z) ==
    /\ version[z] < MaxVersion /\ budget.writes > 0
    /\ budget' = [budget EXCEPT !.writes = @ - 1]
    /\ version' = [version EXCEPT ![z] = @ + 1]
    /\ casts' = Scheduled(z, 0)
    /\ UNCHANGED <<notifyVars, hubVars, sock, slow, tales>>

\* The cache refreshes, loads or drops the zone for another reason, and tells nobody.
Silent(z) ==
    /\ Mishap
    /\ \E c \in {version[z], NotCached} : cached' = [cached EXCEPT ![z] = c]
    /\ unsaid' = [unsaid EXCEPT ![z] = version[z]]
    /\ UNCHANGED <<version, task, pending, casts, hubVars, sock, slow, owed, said>>
--------------------------------------------------------------------------------
(* The NOTIFY listener *)

\* Faulty: a NOTIFY during the refresh is taken to be served by it.
ScheduleCallbackOnce(z) ==
    /\ pending' = pending
    /\ task' = IF task[z].pc = "none" THEN [task EXCEPT ![z].pc = "due"] ELSE task

\* _schedule_callback
ScheduleCallback(z) ==
    IF task[z].pc # "none"
    THEN pending' = pending \cup {z} /\ UNCHANGED task
    ELSE task' = [task EXCEPT ![z].pc = "due"] /\ UNCHANGED pending

\* handle_notify accepts a NOTIFY.
Notify(z) ==
    /\ budget.notifies > 0
    /\ budget' = [budget EXCEPT !.notifies = @ - 1]
    /\ ScheduleCallback(z)
    /\ owed' = IF cached[z] \in 0 .. version[z] - 1 THEN [owed EXCEPT ![z] = version[z]] ELSE owed
    /\ UNCHANGED <<version, cached, casts, hubVars, sock, slow, said, unsaid>>

\* _coalesced_callback, when _invoke_callback is back: again if a NOTIFY arrived meanwhile.
\* Nothing is awaited after that look at _pending, so that its second look, after the task
\* is out of _inflight, finds nothing.
Again(z) ==
    /\ pending' = pending \ {z}
    /\ task' = [task EXCEPT ![z].pc = IF z \in pending THEN "due" ELSE "none"]

\* The cooldown is over: _handle_zone_notify, which only refreshes a cached zone.
StartCallback(z) ==
    /\ task[z].pc = "due"
    /\ IF cached[z] = NotCached THEN Again(z)
       ELSE task' = [task EXCEPT ![z].pc = "refreshing", ![z].from = version[z]]
            /\ UNCHANGED pending
    /\ UNCHANGED <<version, cached, casts, hubVars, sock, slow, tales, budget>>

\* refresh_zone_with_ops, in its thread.
Refresh(z) ==
    /\ task[z].pc = "refreshing"
    /\ cached' = [cached EXCEPT ![z] = version[z]]
    /\ task' = [task EXCEPT ![z].pc = "refreshed", ![z].from = version[z],
                            ![z].found = IF cached[z] = version[z] THEN "nothing" ELSE "changes"]
    /\ UNCHANGED <<version, pending, casts, hubVars, sock, slow, tales, budget>>

RefreshFails(z) ==
    /\ task[z].pc = "refreshing"
    /\ Mishap
    /\ task' = [task EXCEPT ![z].pc = "refreshed", ![z].found = "error"]
    /\ unsaid' = [unsaid EXCEPT ![z] = IF @ > task[z].from THEN @ ELSE task[z].from]
    /\ UNCHANGED <<version, cached, pending, casts, hubVars, sock, slow, owed, said>>

\* Back on the event loop: "zone_reload" or "zone_change" if there is news; an error is
\* logged.
EndCallback(z) ==
    /\ task[z].pc = "refreshed"
    /\ casts' = IF task[z].found = "changes" THEN Scheduled(z, task[z].from) ELSE casts
    /\ Again(z)
    /\ UNCHANGED <<version, cached, hubVars, sock, slow, tales, budget>>
--------------------------------------------------------------------------------
(* Subscriptions: the handlers of /v1/ws and /v1/zones/{zone}/ws *)

\* Faulty: one too many.
MaySubscribeTooMany(s) ==
    /\ Cardinality(Subscribers) <= MaxConnections
    /\ Cardinality({t \in ips : IpOf[t] = IpOf[s]}) <= MaxPerIp

\* _check_limits
MaySubscribe(s) ==
    /\ Cardinality(Subscribers) < MaxConnections
    /\ Cardinality({t \in ips : IpOf[t] = IpOf[s]}) < MaxPerIp

\* Faulty: the zone goes with its first subscriber.
DiscardAll(S) ==
    /\ byZone' = [z \in Zone |-> IF byZone[z] \cap S = {} THEN byZone[z] ELSE {}]
    /\ all' = all \ S
    /\ ips' = ips \ S

\* unsubscribe, unsubscribe_all, and the end of _broadcast
Discard(S) ==
    /\ byZone' = [z \in Zone |-> byZone[z] \ S]
    /\ all' = all \ S
    /\ ips' = ips \ S

Subscribe(s) ==
    /\ s \in budget.sockets /\ sock[s] = "new" /\ MaySubscribe(s)
    /\ byZone' = [z \in Zone |-> byZone[z] \cup {t \in {s} : Wants[t] = z}]
    /\ all' = all \cup {t \in {s} : Wants[t] = All}
    /\ ips' = ips \cup {s}
    /\ sock' = [sock EXCEPT ![s] = "listening"]
    /\ UNCHANGED <<version, notifyVars, casts, slow, tales, budget>>

\* _reject_limit
Reject(s) ==
    /\ s \in budget.sockets /\ sock[s] = "new" /\ ~MaySubscribe(s)
    /\ sock' = [sock EXCEPT ![s] = "closed"]
    /\ UNCHANGED <<version, notifyVars, casts, hubVars, slow, tales, budget>>

\* The browser goes, or its connection breaks.  When "subscribed" could not be sent yet,
\* the handler ends without unsubscribing.
Leave(s) ==
    /\ sock[s] = "listening"
    /\ \/ sock' = [sock EXCEPT ![s] = "gone"] /\ UNCHANGED budget
       \/ sock' = [sock EXCEPT ![s] = "leaked"] /\ Mishap
    /\ UNCHANGED <<version, notifyVars, casts, hubVars, slow, tales>>

\* The handler notices.
EndHandler(s) ==
    /\ sock[s] = "gone"
    /\ sock' = [sock EXCEPT ![s] = "closed"]
    /\ Discard({s})
    /\ UNCHANGED <<version, notifyVars, casts, slow, tales, budget>>
--------------------------------------------------------------------------------
(* The task of a broadcast *)

\* _broadcast looks who subscribes now.
StartCast(i) ==
    /\ casts[i].pc = "scheduled"
    /\ casts' = [casts EXCEPT ![i].pc = "sending", ![i].left = byZone[casts[i].zone] \cup all]
    /\ UNCHANGED <<version, notifyVars, hubVars, sock, slow, tales, budget>>

\* What becomes of a send: dead, or got, or, when it timed out, perhaps both.
Sent(i, s, dead, got) ==
    casts' = [casts EXCEPT ![i].left = @ \ {s}, ![i].dead = @ \cup dead, ![i].got = @ \cup got]

\* It sends to one socket after the other, in the order of a set.  Nobody notices at once
\* that a browser is gone.
Send(i) ==
    /\ casts[i].pc = "sending"
    /\ \E s \in casts[i].left :
          \/ /\ sock[s] = "listening"
             /\ Sent(i, s, {}, {s})
             /\ UNCHANGED <<slow, budget>>
          \/ /\ sock[s] = "listening"
             /\ Mishap
             /\ slow' = slow \cup {s}
             /\ \E got \in SUBSET {s} : Sent(i, s, {s}, got)
          \/ /\ sock[s] \in {"gone", "closed", "leaked"}
             /\ \E dead \in SUBSET {s} :
                   (dead = {} => sock[s] = "gone") /\ Sent(i, s, dead, {})
             /\ UNCHANGED <<slow, budget>>
    /\ UNCHANGED <<version, notifyVars, hubVars, sock, tales>>

\* The sockets it could not send to lose their subscription; their handlers run on.
EndCast(i) ==
    /\ casts[i].pc = "sending" /\ casts[i].left = {}
    /\ casts' = RemoveAt(casts, i)
    /\ Discard(casts[i].dead)
    /\ said' = [said EXCEPT ![casts[i].zone] = IF @ > casts[i].version THEN @ ELSE casts[i].version]
    /\ UNCHANGED <<version, notifyVars, sock, slow, owed, unsaid, budget>>
--------------------------------------------------------------------------------
Next ==
    \/ \E z \in Zone :
          \/ Change(z) \/ Write(z) \/ Silent(z) \/ Notify(z)
          \/ StartCallback(z) \/ Refresh(z) \/ RefreshFails(z) \/ EndCallback(z)
    \/ \E i \in DOMAIN casts : StartCast(i) \/ Send(i) \/ EndCast(i)
    \/ \E s \in Socket : Subscribe(s) \/ Reject(s) \/ Leave(s) \/ EndHandler(s)

Spec == Init /\ [][Next]_vars

\* The event loop runs its tasks; a refresh and a send end, by their timeouts if need be.
FairSpec ==
    /\ Spec
    /\ \A z \in Zone :
          WF_vars(StartCallback(z) \/ Refresh(z) \/ RefreshFails(z) \/ EndCallback(z))
    /\ WF_vars(\E i \in DOMAIN casts : StartCast(i) \/ Send(i) \/ EndCast(i))
--------------------------------------------------------------------------------
(* Properties *)

Subscribed(s) == sock[s] = "listening" /\ s \notin slow

\* A subscriber misses nothing: a broadcast reaches everyone who subscribed when it was
\* made, whoever else comes and goes while the sockets are served one by one, unless a
\* send failed.
NothingMissed ==
    \A i \in DOMAIN casts : casts[i].pc = "sending" =>
        \A s \in casts[i].due : Subscribed(s) => s \in casts[i].left \cup casts[i].got

\* A change that was announced by an accepted NOTIFY while the zone was cached is
\* broadcast to the end, however many NOTIFYs fell together, unless the refresh failed or
\* the cache had learnt of it in another way.
NotifiedIsTold ==
    \A z \in Zone, v \in Version : owed[z] = v ~> said[z] >= v \/ unsaid[z] >= v
================================================================================
