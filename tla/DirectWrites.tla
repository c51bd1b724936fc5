----------------------------- MODULE DirectWrites -----------------------------
(***************************************************************************)
(* The requests that write records at once: the RRset endpoints, atomic    *)
(* updates, nsupdate scripts, rollback and PTR creation; and drafts saved  *)
(* from an nsupdate script, when they are applied.  A request reads the    *)
(* cached zone, builds an UPDATE and waits for the answer; meanwhile other *)
(* requests and other clients of the server go on.                         *)
(*                                                                         *)
(* Reading the cache, building the message and sending it is one step of   *)
(* the event loop, and so is handling the answer.                          *)
(***************************************************************************)
EXTENDS DnsUpdate

CONSTANTS
    Request,
    PTR,               \* the record type the reverse endpoint writes
    Batches,           \* the operation lists atomic requests send
    Scripts,           \* the transactions nsupdate requests send
    IpLists,           \* the names of the addresses PTR requests name
    FirstSerial, Half, \* the server's first serial number; half of their range
    Start,             \* what the server's zone holds at first
    MaxSerial          \* bound: how often the zone changes, plus one

VARIABLES
    history,           \* the server: the contents of the zone at every serial
    copy,              \* the cached zone
    job                \* what each request is doing

vars == <<history, copy, job>>

Zone == history[Len(history)]
Current == Len(history)
Serial(i) == (FirstSerial + i - 1) % (2 * Half)

\* A serial of 0 stands for a zone that is not cached.
NoCopy == [serial |-> 0, records |-> {}]

Mode == {"skip_existing", "replace", "add_roundrobin"}
Kind == {"rrset", "atomic", "nsupdate", "draft", "rollback"} \cup Mode
Ops == {o \in [action : {"add", "delete", "replace"}, name : Name, type : Type,
               data : SUBSET Record, listed : BOOLEAN] :
            /\ <<o.name, o.type>> \in Owner /\ RRs(o.name, o.type, o.data) \subseteq Records
            /\ o.action # "delete" => o.data # {} /\ o.listed
            /\ o.data # {} => o.listed
            /\ o.type = CNAME => \A r, s \in o.data : r = s}

\* A transaction gives no name two CNAMEs.  (The code lets it; of two the server keeps the
\* last, an order that a merged add, whose data are a set, does not have.)
OneCname(ups) ==
    \A i, k \in DOMAIN ups :
        /\ ups[i].do = "add" /\ ups[i].type = CNAME /\ ups[k].do = "add" /\ ups[k].type = CNAME
        /\ ups[i].name = ups[k].name
        => ups[i].data = ups[k].data

ASSUME WritesAssumption ==
    /\ PTR \in Type \ {CNAME} /\ Start \subseteq Contents
    /\ MaxSerial \in Nat \ {0} /\ Half \in Nat /\ Half >= MaxSerial /\ FirstSerial \in 0 .. 2 * Half - 1
    /\ Batches \subseteq Seq(Ops) \ {<<>>}
    /\ IpLists \subseteq Seq({n \in Name : RRs(n, PTR, Record) \subseteq Records})
    /\ Scripts \subseteq Seq(Message)
    /\ \A script \in Scripts : \A i \in DOMAIN script : OneCname(script[i].ups)

NoMessage == [pre |-> {}, ups |-> <<>>]
NoJob == [at |-> "idle", kind |-> "rrset", msg |-> NoMessage, then |-> <<>>, edits |-> <<>>,
          todo |-> <<>>, data |-> {}, rcode |-> "none",
          seen |-> {}, draft |-> NoMessage, base |-> 0, target |-> 0]

\* seen, draft, base and target are history variables: the cached records the message
\* was built from, but for drafts; the transaction a draft was made from; for a rollback
\* the serials between which it reverses.
TypeOK ==
    /\ Current \in 1 .. MaxSerial /\ \A i \in DOMAIN history : history[i] \in Contents
    /\ copy.serial \in 0 .. Current /\ copy.records \subseteq Records
    /\ \A q \in Request :
        /\ job[q].at \in {"idle", "sent", "answered"} /\ job[q].kind \in Kind
        /\ job[q].at = "idle" => job[q] = NoJob
        /\ job[q].at # "idle" => job[q].msg \in Message
        /\ job[q].rcode \in {"none", "noerror", "prereq"}
        /\ job[q].at = "answered" <=> job[q].rcode # "none"
        /\ job[q].target <= job[q].base /\ job[q].base <= Current

Init ==
    /\ history \in {<<zone>> : zone \in Start}
    /\ copy = NoCopy
    /\ job = [q \in Request |-> NoJob]
--------------------------------------------------------------------------------
(* The cache (see ZoneCache for the steps of a refresh) *)

Transferred == [serial |-> Current, records |-> Zone]

\* The records that changed since the cached serial take their new state.
Patched(c) ==
    LET touched == UNION {history[i] \ history[j] : i, j \in c.serial .. Current}
    IN  [serial |-> Current, records |-> (c.records \ touched) \cup (Zone \cap touched)]

\* refresh_zone may fail.
Refreshed(c) ==
    {c, Transferred} \cup (IF c = NoCopy THEN {} ELSE {Patched(c)})

\* get_zone transfers a zone that is not cached.
Found(c) == IF c = NoCopy THEN Refreshed(c) ELSE {c}

\* Faulty: the next serial instead of the server's.
EditedGuess(c, edits) ==
    {[serial |-> c.serial + 1, records |-> FoldLeft(Cached, c.records, edits)]}

\* update_cache_after_*: the edits, then the server's serial, when it answers.
Edited(c, edits) ==
    {IF found = NoCopy THEN found
     ELSE [serial |-> s, records |-> FoldLeft(Cached, found.records, edits)] :
        found \in Found(c), s \in {Current} \cup (IF c = NoCopy THEN {} ELSE {c.serial})}
--------------------------------------------------------------------------------
(* What a request sends *)

Sent(kind, msg) == [NoJob EXCEPT !.at = "sent", !.kind = kind, !.msg = msg]

Operation(action, n, t, data) ==
    [action |-> action, name |-> n, type |-> t, data |-> data, listed |-> data # {}]

\* Faulty: whatever is there, the new PTR is created.
PtrJobAlways(j, n, view) ==
    LET add == Operation("add", n, PTR, j.data)
    IN  {[j EXCEPT !.at = "sent", !.msg = [NoMessage EXCEPT !.ups = UpdatesOf(add)],
                   !.edits = <<add>>]}

\* create_reverse_ptr for one address: nothing to send, or the UPDATE and how to go on.
PtrJob(j, n, view) ==
    LET there == RRsetOf(view, n, PTR)
        new   == Operation("add", n, PTR, j.data)
        all   == Operation("replace", n, PTR,
                           IF j.kind = "replace" THEN j.data ELSE there \cup j.data)
        send(msg, then, o) ==
            {[j EXCEPT !.at = "sent", !.msg = msg, !.then = then, !.edits = <<o>>]}
    IN  CASE there = {} -> send(PrepareAdd(new), <<>>, new)
          [] there # {} /\ j.kind = "replace" ->
                send(PrepareDelete(Operation("delete", n, PTR, {}), {}), <<PrepareAdd(new)>>, all)
          [] there # {} /\ j.kind = "add_roundrobin" /\ ~(j.data \subseteq there) ->
                send(PrepareReplace(all, {}), <<>>, all)
          [] OTHER -> {}

\* _execute_update: a transaction the cache says would be ignored is not sent.
TransactionJob(j, msg, view) ==
    IF CnameConflict(view, msg.ups) THEN {} ELSE {[j EXCEPT !.at = "sent", !.msg = msg]}

\* The first of the remaining addresses or transactions that sends something.
Proceed(j, view) ==
    LET next(i) == IF j.kind = "nsupdate" THEN TransactionJob(j, j.todo[i], view)
                                          ELSE PtrJob(j, j.todo[i], view)
        sending == {i \in DOMAIN j.todo : next(i) # {}}
        first   == {i \in sending : \A k \in sending : i <= k}
    IN  IF sending = {} THEN {NoJob}
        ELSE UNION {{[k EXCEPT !.todo = SubSeq(j.todo, i + 1, Len(j.todo)), !.seen = view] :
                        k \in next(i)} : i \in first}

\* The request begins with what it finds in the cache.
Begin(q, c, j) ==
    /\ job[q] = NoJob /\ j # NoJob
    /\ copy' = c
    /\ job' = [job EXCEPT ![q] = j]
    /\ UNCHANGED history

\* The message of one operation, which goes into the cache when it succeeds.
SendOne(q, o, msg, c) ==
    Begin(q, c, [Sent("rrset", msg) EXCEPT !.edits = <<o>>, !.seen = c.records])

\* add_rrset: refused when the cache has the RRset, or a CNAME conflict.
AddRequest(q, o, c) ==
    /\ o.action = "add"
    /\ RRsetOf(c.records, o.name, o.type) = {}
    /\ Conflicting(TypesAt(c.records, o.name), o.type) = {}
    /\ SendOne(q, o, PrepareAdd(o), c)

\* delete_rrset: refused when the cache lacks the RRset, or one of the records.
DeleteRequest(q, o, c) ==
    LET there == RRsetOf(c.records, o.name, o.type)
    IN  /\ o.action = "delete" /\ there # {} /\ o.data \subseteq there
        /\ SendOne(q, o, PrepareDelete(o, there), c)

\* replace_rrset: refused when the cache lacks the RRset.
ReplaceRequest(q, o, c) ==
    LET there == RRsetOf(c.records, o.name, o.type)
    IN  /\ o.action = "replace" /\ there # {}
        /\ SendOne(q, o, PrepareReplace(o, there), c)

\* atomic_update
AtomicUpdate(q, ops, c) ==
    /\ ~BuildError(ops, c.records)
    /\ Begin(q, c, [Sent("atomic", BuildUpdate(ops, c.records)) EXCEPT
                       !.edits = ops, !.seen = c.records])

\* execute_nsupdate
ExecuteNsupdate(q, script, c) ==
    \E j \in Proceed([NoJob EXCEPT !.kind = "nsupdate", !.todo = script], c.records) : Begin(q, c, j)

\* execute_change, for a draft saved by create_nsupdate_drafts (see Scheduler): the zone
\* is refreshed first.
ApplyDraft(q, msg, c) ==
    /\ \A i \in DOMAIN msg.ups : msg.ups[i].do # "clear"
    /\ ~CnameConflict(c.records, DraftUpdate(msg, c.records).ups)
    /\ Begin(q, c, [Sent("draft", DraftUpdate(msg, c.records)) EXCEPT
                       !.edits = OpsToAtomic(msg.ups), !.draft = msg])

\* create_reverse_ptr
CreateReversePtr(q, mode, ips, r, c) ==
    \E j \in Proceed([NoJob EXCEPT !.kind = mode, !.todo = ips, !.data = {r}], c.records) :
        Begin(q, c, j)

\* rollback_zone, when the server still has the changes since the target: one UPDATE
\* without prerequisites.  (It does not look at the cache.)
Rollback(q, target) ==
    LET ups == ReverseChanges(history, target, Current)
    IN  /\ SerialLt(Serial(target), Serial(Current), Half) /\ ups # <<>>
        /\ job[q] = NoJob
        /\ job' = [job EXCEPT ![q] =
                     [Sent("rollback", [pre |-> {}, ups |-> ups]) EXCEPT
                         !.base = Current, !.target = target]]
        /\ UNCHANGED <<history, copy>>
--------------------------------------------------------------------------------
(* The server, and what becomes of a message *)

Answered(q, rcode) == job' = [job EXCEPT ![q].at = "answered", ![q].rcode = rcode]

Written(zone) ==
    history' = IF zone = Zone THEN history ELSE Append(history, zone)

Execute(q) ==
    /\ job[q].at = "sent" /\ Accepts(Zone, job[q].msg)
    /\ LET zone == Result(Zone, job[q].msg)
       IN  /\ zone # Zone => Current < MaxSerial
           /\ Written(zone)
    /\ Answered(q, "noerror")
    /\ UNCHANGED copy

Refuse(q) ==
    /\ job[q].at = "sent" /\ ~Accepts(Zone, job[q].msg)
    /\ Answered(q, "prereq")
    /\ UNCHANGED <<history, copy>>

\* Another client of the server.
Other(u) ==
    /\ Current < MaxSerial /\ Carried(Zone, u) # Zone
    /\ Written(Carried(Zone, u))
    /\ UNCHANGED <<copy, job>>
--------------------------------------------------------------------------------
(* Handling the answer *)

\* The next transaction, the next address, or the end.
GoOn(q, c) ==
    \E j \in Proceed([NoJob EXCEPT !.kind = job[q].kind, !.todo = job[q].todo,
                                   !.data = job[q].data], c.records) :
        job' = [job EXCEPT ![q] = j]

\* The replacement of a PTR deletes first; then comes the UPDATE that adds.
Resent(j) == [j EXCEPT !.at = "sent", !.rcode = "none", !.msg = j.then[1], !.then = <<>>]

Succeeded(q) ==
    /\ job[q].at = "answered" /\ job[q].rcode = "noerror"
    /\ IF job[q].then # <<>>
       THEN /\ job' = [job EXCEPT ![q] = Resent(job[q])]
            /\ UNCHANGED copy
       ELSE \E c \in CASE job[q].kind = "nsupdate" -> {copy}
                       [] job[q].kind = "rollback" -> Refreshed(copy)
                       [] OTHER -> Edited(copy, job[q].edits) :
                copy' = c /\ GoOn(q, c)
    /\ UNCHANGED history

\* A prerequisite failed: most endpoints refresh the zone.
Rejected(q) ==
    /\ job[q].at = "answered" /\ job[q].rcode = "prereq"
    /\ \E c \in IF job[q].kind \in {"rrset", "atomic"} THEN Refreshed(copy) ELSE {copy} :
          copy' = c /\ GoOn(q, c)
    /\ UNCHANGED history

\* Another rcode, no connection, or an answer that never arrives: what was sent is given
\* up, and, as this depends on nothing else, at once.
Fail(q) ==
    /\ job[q].at # "idle" /\ GoOn(q, copy)
    /\ UNCHANGED <<history, copy>>

\* A reload, a NOTIFY, the background task; an invalidation or an eviction.
Reload == copy' \in Refreshed(copy) \cup {NoCopy} /\ UNCHANGED <<history, job>>
--------------------------------------------------------------------------------
RequestStep(q) ==
    \/ \E c \in Found(copy) :
        \/ \E o \in Ops : AddRequest(q, o, c) \/ DeleteRequest(q, o, c) \/ ReplaceRequest(q, o, c)
        \/ \E ops \in Batches : AtomicUpdate(q, ops, c)
        \/ \E script \in Scripts : ExecuteNsupdate(q, script, c)
        \/ \E mode \in Mode, ips \in IpLists, r \in Record : CreateReversePtr(q, mode, ips, r, c)
    \/ \E c \in Refreshed(copy), script \in Scripts :
        \E i \in DOMAIN script : ApplyDraft(q, script[i], c)
    \/ \E target \in 1 .. Current - 1 : Rollback(q, target)
    \/ Execute(q) \/ Refuse(q) \/ Succeeded(q) \/ Rejected(q) \/ Fail(q)

Next ==
    \/ \E q \in Request : RequestStep(q)
    \/ \E rr \in Records :
          Other(AddRRs(rr[1], rr[2], {rr[3]})) \/ Other(DeleteRRs(rr[1], rr[2], {rr[3]}))
    \/ Reload

Spec == Init /\ [][Next]_vars
--------------------------------------------------------------------------------
(* Properties *)

Named(q) == {<<job[q].edits[i].name, job[q].edits[i].type>> : i \in DOMAIN job[q].edits}

\* No lost update: when the server carries out the UPDATE of an RRset or an atomic
\* request, every RRset the request names is as the request saw it in the cache, however
\* old that was: nobody's change in between is overwritten.
NoLostUpdate ==
    [][\A q \in Request :
          Execute(q) /\ job[q].kind \in {"rrset", "atomic"} =>
              \A x \in Named(q) :
                  RRsetOf(Zone, x[1], x[2]) = RRsetOf(job[q].seen, x[1], x[2])]_vars

\* What the request will write into the cache is what the server made of the UPDATE:
\* nothing in it was silently ignored.  Not so for an atomic request that adds a CNAME,
\* for one that adds an RRset twice (the server has both sets of records, the cache the
\* last), for a delete with an empty list of records, and for a request that replaces the
\* apex NS or deletes all of it: the server says it did, and keeps it, and the cache drops it.
CnameInBatch(q) == job[q].kind = "atomic" /\ CNAME \in {x[2] : x \in Named(q)}
AddsTwice(q) ==
    \E i, k \in DOMAIN job[q].edits :
        /\ i # k /\ job[q].edits[i].action = "add" /\ job[q].edits[k].action = "add"
        /\ job[q].edits[i].name = job[q].edits[k].name
        /\ job[q].edits[i].type = job[q].edits[k].type
DeletesNone(q) ==
    \E i \in DOMAIN job[q].edits : LET o == job[q].edits[i] IN o.listed /\ o.data = {}
KeepsApex(q) ==
    \E i \in DOMAIN job[q].edits :
        LET o == job[q].edits[i]
        IN  /\ <<o.name, o.type>> \in Protected
            /\ \/ o.action = "replace"
               \/ RRsetOf(FoldLeft(Cached, job[q].seen, job[q].edits), o.name, o.type) = {}

EditIsEffect ==
    [][\A q \in Request :
          /\ Execute(q) /\ job[q].kind \in {"rrset", "atomic"}
          /\ ~CnameInBatch(q) /\ ~AddsTwice(q) /\ ~DeletesNone(q) /\ ~KeepsApex(q)
          => LET cached == FoldLeft(Cached, job[q].seen, job[q].edits)
             IN  \A x \in Named(q) :
                    RRsetOf(cached, x[1], x[2]) = RRsetOf(Zone', x[1], x[2])]_vars

\* Creating PTRs with skip_existing never touches a PTR RRset that exists, whatever the
\* cache knew; nor does any mode when the cache knew of none.
ExistingPtrKept ==
    [][\A q \in Request :
          /\ Execute(q) /\ job[q].kind \in Mode
          /\ \/ job[q].kind = "skip_existing"
             \/ \A n \in Name : RRsetOf(job[q].seen, n, PTR) = {}
          => \A n \in Name : RRsetOf(Zone, n, PTR) # {} =>
                 RRsetOf(Zone', n, PTR) = RRsetOf(Zone, n, PTR)]_vars

\* A draft saved from an nsupdate transaction does, when it is applied, what the
\* transaction would have done at that moment.
DraftKeepsMeaning ==
    [][\A q \in Request :
          Execute(q) /\ job[q].kind = "draft" => Zone' = Result(Zone, job[q].draft)]_vars

\* A rollback restores the zone as it was at the target serial, protected RRsets apart,
\* unless the zone changed after the request read the history.
RollbackRestores ==
    [][\A q \in Request :
          Execute(q) /\ job[q].kind = "rollback" /\ Current = job[q].base =>
              \A x \in Owner \ Protected :
                  RRsetOf(Zone', x[1], x[2]) = RRsetOf(history[job[q].target], x[1], x[2])]_vars
================================================================================
