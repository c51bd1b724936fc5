------------------------------- MODULE Scheduler -------------------------------
(***************************************************************************)
(* The scheduled-change service: the store, the scheduler loops and API    *)
(* requests that execute changes, the zone cache they read and the DNS     *)
(* server they write to.  Each action is one step between two awaits, or   *)
(* one answer of the DNS server.  A change has one operation here.         *)
(***************************************************************************)
EXTENDS ChangeStore, RRsetOps

CONSTANTS
    Worker,        \* scheduler loops, one per application instance
    Request,       \* API requests in progress at the same time
    Key,           \* RRset names; each in a zone of its own
    Target,        \* the RRset each change writes
    Faults         \* what may go wrong, from AllFaults

AllFaults ==
    {"crash",          \* a process dies or is shut down
     "lost_response",  \* the server applies an UPDATE whose answer never arrives
     "store_error",    \* a transaction on the store fails
     "slow",           \* an execution can outlast its lease
     "stale_cache",    \* a zone refresh fails, the cache is used as it is
     "shared_db",      \* instances share a PostgreSQL database
     "external"}       \* others write to the zone

ASSUME SchedulerAssumption ==
    /\ Op = Operation /\ Snapshot = RRset
    /\ Target \in [Change -> Key] /\ Faults \subseteq AllFaults
    /\ Worker \cap Request = {} /\ None \notin Worker \cup Request
    /\ \A s \in RRset : s # None
    /\ None \notin [op : Op, before : RRset] \cup [rrset : RRset, behind : RRset]

VARIABLES
    dns,           \* the records the server holds
    cache,         \* ZoneCache: a View, or None when the zone is not cached
    pc,            \* where each loop and request stands
    job,           \* its local variables
    done           \* history: the last UPDATE for the change the server carried out

procVars == <<pc, job>>
vars == <<now, row, dns, cache, pc, job, done>>

Exec == Worker \cup Request
ExecutingAt == {"claimed", "captured", "sent", "accepted", "failing"}
Executing(e) == pc[e] \in ExecutingAt

Label == ExecutingAt \cup
    {"idle", "polled", "retaining", "read", "revert_sent", "revert_accepted"}

Job == [change : {None} \cup Change, op : {None} \cup Op, base : {None} \cup RRset,
        deadline : {None} \cup Nat, old : {None} \cup Row]
NoJob == [change |-> None, op |-> None, base |-> None, deadline |-> None, old |-> None]

\* A cached RRset, and the records the server changed since the cached serial.
View == [rrset : RRset, behind : RRset]

\* The table, the zones and the local variables of every loop and request.
SchedulerTypeOK ==
    /\ TypeOK
    /\ dns \in [Key -> RRset] /\ cache \in [Key -> {None} \cup View]
    /\ pc \in [Exec -> Label]
    /\ job \in [Exec -> Job]
    /\ done \in [Change -> {None} \cup [op : Op, before : RRset]]

SchedulerInit ==
    /\ Init
    /\ dns \in [Key -> RRset] /\ cache = [k \in Key |-> None]
    /\ pc = [e \in Exec |-> "idle"] /\ job = [e \in Exec |-> NoJob]
    /\ done = [c \in Change |-> None]

Goto(e, label) == pc' = [pc EXCEPT ![e] = label]
Finish(e) == Goto(e, "idle") /\ job' = [job EXCEPT ![e] = NoJob]
Begin(e, label, j) == Goto(e, label) /\ job' = [job EXCEPT ![e] = j]
--------------------------------------------------------------------------------
(* The zone cache, as far as executions use it *)

\* A transfer of the zone: incremental from the cached serial on, or all of it.
Transferred(k) ==
    LET view == cache[k]
        all == [rrset |-> dns[k], behind |-> {}]
    IN  IF view = None THEN {all}
        ELSE {[rrset |-> (view.rrset \ view.behind) \cup (dns[k] \cap view.behind),
               behind |-> {}], all}

\* refresh_zone: what the cache can hold afterwards.
Refreshed(k) ==
    Transferred(k) \cup (IF "stale_cache" \in Faults THEN {cache[k]} ELSE {})

\* get_zone loads a zone that is not cached.
Loaded(k) == IF cache[k] = None THEN Refreshed(k) ELSE {cache[k]}

\* get_rrset: nothing, whether the zone is not cached or the RRset not there.
Seen(view) == IF view = None THEN {} ELSE view.rrset

\* update_cache_after_*: write the RRset, and take over the server's serial, as if
\* the cache now were what the server holds.
Overwritten(view, rrset) ==
    {[rrset |-> rrset, behind |-> {}]}
        \cup (IF "stale_cache" \in Faults THEN {[view EXCEPT !.rrset = rrset]} ELSE {})

\* apply_cache_updates: an add replaces the cached RRset; a delete of no records,
\* null or an empty list, takes either all of them or none from the cache.
Updated(op, view) ==
    IF view = None THEN {None}
    ELSE IF op.action # "delete" THEN Overwritten(view, op.data)
    ELSE Overwritten(view, Effect(op, view.rrset))
            \cup (IF op.data = {} THEN Overwritten(view, view.rrset) ELSE {})

Reverted(op, prior, view) ==
    IF view = None THEN {None}
    ELSE Overwritten(view, RevertCached(op, prior, view.rrset))

Outdated(view, changed) ==
    IF view = None THEN None ELSE [view EXCEPT !.behind = @ \cup changed]

\* The server now holds rrset; the cached serial stays what it is.
Serve(k, rrset) ==
    /\ dns' = [dns EXCEPT ![k] = rrset]
    /\ cache' = [cache EXCEPT ![k] = Outdated(@, (dns[k] \ rrset) \cup (rrset \ dns[k]))]

SetCache(k, values) == \E v \in values : cache' = [cache EXCEPT ![k] = v]

\* NOTIFY, or a reader that refreshes.
RefreshZone(k) ==
    /\ SetCache(k, Refreshed(k))
    /\ UNCHANGED <<now, row, dns, pc, job, done>>
--------------------------------------------------------------------------------
(* The scheduler loop (run_scheduler_loop) *)

\* The tick begins by expiring what is overdue.
ExpireTick(w) ==
    /\ pc[w] = "idle"
    /\ ExpireOverdue
    /\ Goto(w, "polled")
    /\ UNCHANGED <<now, dns, cache, job, done>>

\* Faulty: the lease is taken to end before it begins.
NewJobBackwards(c) ==
    [NoJob EXCEPT !.change = c, !.op = row[c].op, !.deadline = now - LeaseTTL]

NewJob(c) == [NoJob EXCEPT !.change = c, !.op = row[c].op, !.deadline = now + LeaseTTL]

Claim(w, c) ==
    /\ pc[w] = "polled"
    /\ ClaimDue(c)
    /\ Begin(w, "claimed", NewJob(c))
    /\ UNCHANGED <<now, dns, cache, done>>

IdleTick(w) ==
    /\ pc[w] = "polled"
    /\ ClaimNone
    /\ Goto(w, "retaining")
    /\ UNCHANGED <<now, dns, cache, job, done>>

\* run_retention deletes some changes, or is not due; then the loop sleeps.
Retain(w, gone) ==
    /\ pc[w] = "retaining"
    /\ Purge(gone)
    /\ Goto(w, "idle")
    /\ UNCHANGED <<now, dns, cache, job, done>>
--------------------------------------------------------------------------------
(* execute_change, by a loop or by an apply-now request *)

\* Refresh the cache and take the snapshot from it.
Capture(e) ==
    /\ pc[e] = "claimed"
    /\ LET k == Target[job[e].change]
       IN \E v \in Refreshed(k) :
             /\ cache' = [cache EXCEPT ![k] = v]
             /\ job' = [job EXCEPT ![e].base = SnapshotOf(job[e].op, Seen(v))]
    /\ Goto(e, "captured")
    /\ UNCHANGED <<now, row, dns, done>>

\* Once the snapshot is stored, the prerequisites are built from what the cache
\* holds by now; a CNAME conflict there is a build error.
SaveAndSend(e) ==
    /\ pc[e] = "captured"
    /\ SaveSnapshots(job[e].change, job[e].base)
    /\ \E v \in Loaded(Target[job[e].change]), label \in {"sent", "failing"} :
          /\ cache' = [cache EXCEPT ![Target[job[e].change]] = v]
          /\ Begin(e, label, [job[e] EXCEPT !.base = Seen(v)])
    /\ UNCHANGED <<now, dns, done>>

\* The server judges the prerequisites and carries the UPDATE out.
Deliver(e) ==
    LET op == job[e].op
        k  == Target[job[e].change]
    IN  /\ pc[e] = "sent"
        /\ PrereqHolds(op, job[e].base, dns[k])
        /\ Serve(k, Effect(op, dns[k]))
        /\ done' = [done EXCEPT ![job[e].change] =
              IF done[job[e].change] # None /\ done[job[e].change].op = op THEN @
              ELSE [op |-> op, before |-> dns[k]]]
        /\ Goto(e, "accepted")
        /\ UNCHANGED <<now, row, job>>

\* Faulty: a response code other than an error is a success.
RejectIgnored(e) ==
    LET k == Target[job[e].change]
    IN  /\ pc[e] = "sent"
        /\ ~PrereqHolds(job[e].op, job[e].base, dns[k])
        /\ Goto(e, "accepted")
        /\ UNCHANGED <<now, row, dns, cache, job, done>>

\* PrerequisiteFailedError: the cache is refreshed again.
Reject(e) ==
    LET k == Target[job[e].change]
    IN  /\ pc[e] = "sent"
        /\ ~PrereqHolds(job[e].op, job[e].base, dns[k])
        /\ SetCache(k, Refreshed(k))
        /\ Goto(e, "failing")
        /\ UNCHANGED <<now, row, dns, job, done>>

\* UpdateError: refused, or the server was not reached.
SendFails(e) ==
    /\ pc[e] = "sent"
    /\ Goto(e, "failing")
    /\ UNCHANGED <<now, row, dns, cache, job, done>>

\* The UPDATE was carried out, and this process takes it for a failure: the
\* answer is lost, or the outcome cannot be stored.
LoseOutcome(e) ==
    /\ Faults \cap {"lost_response", "store_error"} # {}
    /\ pc[e] = "accepted"
    /\ Goto(e, "failing")
    /\ UNCHANGED <<now, row, dns, cache, job, done>>

\* Faulty: an error while the cache is updated makes a failure of the success.
AppliedUnrecorded(e) ==
    LET k == Target[job[e].change]
    IN  /\ pc[e] = "accepted"
        /\ SetCache(k, UNION {Updated(job[e].op, v) : v \in Loaded(k)})
        /\ \/ MarkApplied(job[e].change) /\ Finish(e)
           \/ Goto(e, "failing") /\ UNCHANGED <<row, job>>
        /\ UNCHANGED <<now, dns, done>>

\* apply_cache_updates, then mark_applied; the audit event of a change that was
\* purged meanwhile has no row to refer to, which is an unexpected error.
Applied(e) ==
    LET k == Target[job[e].change]
    IN  /\ pc[e] = "accepted"
        /\ SetCache(k, UNION {Updated(job[e].op, v) : v \in Loaded(k)})
        /\ \/ MarkApplied(job[e].change) /\ Finish(e)
           \/ ~Exists(row[job[e].change]) /\ Goto(e, "failing") /\ UNCHANGED <<row, job>>
        /\ UNCHANGED <<now, dns, done>>

\* Bound: the last attempt within AttemptBound does not leave the row running.
MayRepeat(c) == row[c].attempts < AttemptBound

\* Every failure ends in mark_failed; a change that is gone, or an error of the
\* store, ends the execution all the same.
Failed(e) ==
    /\ pc[e] = "failing"
    /\ \/ MarkFailed(job[e].change, row[job[e].change])
       \/ ~Exists(row[job[e].change]) /\ UNCHANGED row
       \/ "store_error" \in Faults /\ MayRepeat(job[e].change) /\ UNCHANGED row
    /\ Finish(e)
    /\ UNCHANGED <<now, dns, cache, done>>

SaveFails(e) ==
    /\ "store_error" \in Faults
    /\ pc[e] = "captured"
    /\ Goto(e, "failing")
    /\ UNCHANGED <<now, row, dns, cache, job, done>>
--------------------------------------------------------------------------------
(* API requests *)

\* A request that checks a row before it writes it reads it first.  One process
\* serialises its transactions; instances sharing a database do not.
Shared == "shared_db" \in Faults

ReadRow(q, c) ==
    /\ Shared /\ pc[q] = "idle" /\ Exists(row[c])
    /\ Begin(q, "read", [NoJob EXCEPT !.change = c, !.old = row[c]])
    /\ UNCHANGED <<now, row, dns, cache, done>>

\* The status forbids the request, the row is gone, or nothing is to be written.
Refuse(q) ==
    /\ pc[q] = "read"
    /\ Finish(q)
    /\ UNCHANGED <<now, row, dns, cache, done>>

\* The row request q has in hand for change c.
Has(q, c, old) ==
    IF Shared THEN pc[q] = "read" /\ job[q].change = c /\ old = job[q].old
    ELSE pc[q] = "idle" /\ old = row[c]

Submit(c) ==
    /\ \/ \E at, expiry \in ClientTimes, op \in OpChoice : Create(c, at, expiry, op)
       \/ \E outcome \in {"applied", "failed"}, op \in OpChoice :
             RecordExternalChange(c, outcome, op)
    /\ UNCHANGED <<now, dns, cache, pc, job, done>>

Edit(q, c) ==
    /\ \E old \in {row[c], job[q].old} :
          /\ Has(q, c, old)
          /\ \E at, expiry \in ClientTimes \cup {Keep}, op \in OpChoice \cup {Keep} :
                Update(c, old, at, expiry, op)
    /\ Finish(q)
    /\ UNCHANGED <<now, dns, cache, done>>

CancelRequest(q, c) ==
    /\ \E old \in {row[c], job[q].old} : Has(q, c, old) /\ Cancel(c, old)
    /\ Finish(q)
    /\ UNCHANGED <<now, dns, cache, done>>

\* apply_scheduled_change: the request executes the change itself.
ApplyNow(q, c) ==
    /\ \E old \in {row[c], job[q].old} : Has(q, c, old) /\ MarkRunning(c, old)
    /\ Begin(q, "claimed", NewJob(c))
    /\ UNCHANGED <<now, dns, cache, done>>

\* revert_scheduled_change, up to the send: can_revert, then an UPDATE with no
\* prerequisites; an empty one is not sent.
BeginRevert(q, c) ==
    LET empty == NothingToRevert(row[c].op, row[c].snap)
    IN  /\ pc[q] = "idle"
        /\ row[c].status = "applied" /\ row[c].snap # NoSnapshot
        /\ Begin(q, IF empty THEN "revert_accepted" ELSE "revert_sent",
                 [NoJob EXCEPT !.change = c, !.op = row[c].op, !.base = row[c].snap])
        /\ IF empty THEN UNCHANGED cache ELSE SetCache(Target[c], Refreshed(Target[c]))
        /\ UNCHANGED <<now, row, dns, done>>

DeliverRevert(q) ==
    LET k == Target[job[q].change]
    IN  /\ pc[q] = "revert_sent"
        /\ Serve(k, RevertEffect(job[q].op, job[q].base, dns[k]))
        /\ Goto(q, "revert_accepted")
        /\ UNCHANGED <<now, row, job, done>>

\* An error, before or after the server acted: the change stays applied.
RevertFails(q) ==
    /\ \/ pc[q] = "revert_sent"
       \/ pc[q] = "revert_accepted" /\ Faults \cap {"crash", "lost_response", "store_error"} # {}
    /\ Finish(q)
    /\ UNCHANGED <<now, row, dns, cache, done>>

\* The cache is updated, unless nothing was sent; mark_reverted refuses a change no
\* longer applied.
FinishRevert(q) ==
    LET c == job[q].change
        k == Target[c]
        op == job[q].op
        prior == job[q].base
    IN  /\ pc[q] = "revert_accepted"
        /\ IF NothingToRevert(op, prior) THEN UNCHANGED cache
           ELSE SetCache(k, UNION {Reverted(op, prior, v) : v \in Loaded(k)})
        /\ \/ MarkReverted(c, row[c])
           \/ row[c].status # "applied" /\ UNCHANGED row
        /\ Finish(q)
        /\ UNCHANGED <<now, dns, done>>
--------------------------------------------------------------------------------
(* The environment *)

\* All the loops and requests of a process die with it.  A crash matters while a
\* change is executed: one between two ticks only delays the next tick, one during
\* a revert ends like RevertFails.
Process(e) == IF Shared THEN {e} ELSE Exec

Crash(e) ==
    /\ "crash" \in Faults
    /\ Executing(e) /\ \A f \in Process(e) : Executing(f) => MayRepeat(job[f].change)
    /\ pc' = [f \in Exec |-> IF f \in Process(e) THEN "idle" ELSE pc[f]]
    /\ job' = [f \in Exec |-> IF f \in Process(e) THEN NoJob ELSE job[f]]
    /\ cache' = IF Shared THEN cache ELSE [k \in Key |-> None]
    /\ UNCHANGED <<now, row, dns, done>>

External(k, rrset) ==
    /\ "external" \in Faults
    /\ Serve(k, rrset)
    /\ UNCHANGED <<now, row, pc, job, done>>

\* Unless "slow", no execution still going on outlasts its lease.
Pass ==
    /\ Tick
    /\ "slow" \notin Faults => \A e \in Exec : Executing(e) => now < job[e].deadline
    /\ UNCHANGED <<row, dns, cache, pc, job, done>>

LoopStep(w) ==
    \/ ExpireTick(w)
    \/ \E c \in Change : Claim(w, c)
    \/ IdleTick(w)
    \/ \E gone \in SUBSET Change : Retain(w, gone)

ExecuteStep(e) ==
    \/ Capture(e) \/ SaveAndSend(e)
    \/ Deliver(e) \/ Reject(e) \/ SendFails(e) \/ LoseOutcome(e)
    \/ Applied(e) \/ Failed(e) \/ SaveFails(e)

RequestStep(q) ==
    \/ \E c \in Change : ReadRow(q, c) \/ Edit(q, c) \/ CancelRequest(q, c)
                            \/ ApplyNow(q, c) \/ BeginRevert(q, c)
    \/ Refuse(q) \/ DeliverRevert(q) \/ RevertFails(q) \/ FinishRevert(q)

SchedulerNext ==
    \/ \E w \in Worker : LoopStep(w)
    \/ \E e \in Exec : ExecuteStep(e)
    \/ \E q \in Request : RequestStep(q)
    \/ \E c \in Change : Submit(c)
    \/ \E k \in Key : RefreshZone(k)
    \/ \E k \in Key, rrset \in RRset : External(k, rrset)
    \/ \E e \in Exec : Crash(e)
    \/ Pass

\* Loops and executions are tasks the event loop keeps running; time passes.
Fairness ==
    /\ \A w \in Worker : WF_vars(LoopStep(w))
    /\ \A e \in Exec : WF_vars(ExecuteStep(e))
    /\ WF_vars(Pass)

SchedulerSpec == SchedulerInit /\ [][SchedulerNext]_vars
FairSpec == SchedulerSpec /\ Fairness
--------------------------------------------------------------------------------
(* Properties *)

\* Lease claiming: no two loops or requests execute the same change at a time,
\* whatever crashes, lost answers and store errors do to the holder.
MutualExclusion ==
    \A e, f \in Exec :
        Executing(e) /\ Executing(f) /\ job[e].change = job[f].change => e = f

\* While a change is executed its row stays running under the lease taken for
\* that execution, and the operation being sent is the one stored: no edit,
\* cancellation, expiry, retention pass or other claim slips in between two awaits.
ExecutionHoldsLease ==
    \A e \in Exec : Executing(e) =>
        LET r == row[job[e].change]
        IN  r.status = "running" /\ r.leaseExpiresAt = job[e].deadline /\ r.op = job[e].op

\* Even when leases are outlasted and instances race for a row, no change is
\* reported applied without the server having carried out an operation of it.
AppliedWasDelivered ==
    \A c \in Change : row[c].status = "applied" /\ row[c].attempts > 0 => done[c] # None

\* The report and the server agree.  A change reported applied had the operation it lists
\* carried out, and can be reverted; and unless an answer is lost, a change is never
\* retried, failed, cancelled or expired after it took effect.
EffectIsReported ==
    \A c \in Change :
        /\ row[c].status = "applied" /\ row[c].attempts > 0 =>
              /\ done[c] # None /\ done[c].op = row[c].op
              /\ row[c].snap # NoSnapshot
        /\ done[c] # None =>
              \/ row[c].status \in {"applied", "reverted", "purged"}
              \/ \E e \in Exec : pc[e] = "accepted" /\ job[e].change = c

\* The stored snapshot of an applied delete or replace is the RRset that UPDATE
\* found: the prerequisites vouch for it.
SnapshotIsPriorState ==
    \A c \in Change :
        row[c].status = "applied" /\ row[c].attempts > 0 /\ row[c].op.auto =>
            row[c].snap = IF row[c].op.action = "add" THEN {} ELSE done[c].before

\* Reverting a change puts the RRset back to what it was before the change, when
\* nothing else wrote to it; an add must have carried its prerequisite.
RevertRestores ==
    \A c \in Change :
        row[c].status = "reverted" /\ (row[c].op.action = "add" => row[c].op.auto) =>
            dns[Target[c]] = done[c].before

\* Cancelled, expired and reverted are final: no late outcome, retry, edit or claim
\* brings such a change back.
FinalStaysFinal ==
    [][\A c \in Change : row[c].status \in {"cancelled", "expired", "reverted"} =>
          row'[c].status \in {row[c].status, "purged"}]_vars

\* The loop or request that executes c.
Holder(c) ==
    IF \E e \in Exec : Executing(e) /\ job[e].change = c
    THEN CHOOSE e \in Exec : Executing(e) /\ job[e].change = c
    ELSE None

Lifecycle == INSTANCE ChangeLifecycle
    WITH status <- [c \in Change |-> row[c].status],
         holder <- [c \in Change |-> Holder(c)],
         Nobody <- None

\* The store, the loops and the API together keep to the lifecycle of a change:
\* only its one holder decides what becomes of a change under execution.
Implements == Lifecycle!Spec

\* A change that is due, or whose holder died, does not stay so: it is claimed or
\* expires, in its turn.
DueIsTaken ==
    \A c \in Change : Due(row[c]) ~> ~Due(row[c])

\* A change with a schedule does not stay running when its process dies: the lease
\* runs out and a loop takes it over (unless the bounded clock stops before).
RunningIsReleased ==
    \A c \in Change :
        row[c].status = "running" /\ row[c].scheduledAt # None ~>
            row[c].status # "running" \/ row[c].leaseExpiresAt >= MaxTime
================================================================================
