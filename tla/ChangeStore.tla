------------------------------ MODULE ChangeStore ------------------------------
(***************************************************************************)
(* scheduler/store.py: the table of scheduled changes.  Every operator     *)
(* below is one store method, that is one transaction.  The specification  *)
(* at the end lets callers invoke any method at any time with any argument *)
(* the API accepts; Scheduler.tla restricts who calls what when.           *)
(*                                                                         *)
(* A method that reads the row before it writes takes the row it read as   *)
(* the argument "old".  Within one process the transaction lock makes that *)
(* the current row; see Scheduler.tla for instances sharing a database.    *)
(***************************************************************************)
EXTENDS Integers

CONSTANTS
    Change,          \* the change ids (uuids: an id is never used twice)
    Op,              \* what a change asks for: operation and prerequisite flag
    Snapshot,        \* what a pre-apply snapshot can hold
    NoSnapshot,      \* snapshot_at is null
    None,            \* a null timestamp
    Keep,            \* a field the PATCH request leaves out
    MaxAttempts,     \* scheduler.max_attempts
    RetryBackoff,    \* scheduler.retry_backoff
    LeaseTTL,        \* scheduler.lease_ttl
    ExpiryWindow,    \* scheduler.default_expiry_window
    PurgeStatuses,   \* retention.statuses
    ScheduleTimes,   \* the values clients give scheduled_at and not_valid_after
    OpChoice,        \* the operations clients ask for
    MaxTime,         \* bound: the clock stops here
    AttemptBound     \* bound: no claim or apply-now beyond this many attempts

ASSUME NullsAssumption ==
    /\ None \notin Nat /\ Keep \notin Nat /\ Keep # None
    /\ \A o \in Op : o # Keep /\ o # None
    /\ \A s \in Snapshot : s # NoSnapshot
ASSUME NumbersAssumption ==
    /\ MaxAttempts \in Nat /\ RetryBackoff \in Nat /\ LeaseTTL \in Nat
    /\ ExpiryWindow \in Nat /\ MaxTime \in Nat /\ AttemptBound \in Nat
    /\ ScheduleTimes \subseteq Nat
ASSUME OpChoiceAssumption == OpChoice \subseteq Op

\* RetentionSettings refuses any other status.
ASSUME PurgeAssumption ==
    PurgeStatuses \subseteq {"applied", "failed", "cancelled", "expired", "reverted"}

VARIABLES
    now,             \* the clock every method reads (_utcnow)
    row              \* scheduled_changes joined with its operation

storeVars == <<now, row>>

Status == {"draft", "scheduled", "running", "applied", "failed", "cancelled",
           "expired", "reverted"}
\* Faulty: a change can be edited while it is executed.
EditableRunning == {"draft", "scheduled", "failed", "running"}

Editable == {"draft", "scheduled", "failed"}
Missing == {"absent", "purged"}          \* not inserted yet; deleted by retention

Row == [status : Status \cup Missing,
        scheduledAt : {None} \cup Nat, notValidAfter : {None} \cup Nat,
        attempts : Nat, nextAttemptAt : {None} \cup Nat,
        leaseExpiresAt : {None} \cup Nat,
        op : {None} \cup Op, snap : {NoSnapshot} \cup Snapshot]

NoRow(s) == [status |-> s, scheduledAt |-> None, notValidAfter |-> None,
             attempts |-> 0, nextAttemptAt |-> None, leaseExpiresAt |-> None,
             op |-> None, snap |-> NoSnapshot]

Exists(r) == r.status \notin Missing

\* The columns of the table; a status is one of those the code names.
TypeOK ==
    /\ now \in Nat
    /\ row \in [Change -> Row]

Init ==
    /\ now = 0
    /\ row = [c \in Change |-> NoRow("absent")]
--------------------------------------------------------------------------------
(* Methods called by the API *)

\* create: "scheduled" iff a time is given; the expiry defaults to a window
\* after it.
Create(c, at, expiry, op) ==
    /\ row[c].status = "absent"
    /\ row' = [row EXCEPT ![c] =
          [NoRow("absent") EXCEPT
             !.status = IF at # None THEN "scheduled" ELSE "draft",
             !.scheduledAt = at,
             !.notValidAfter = IF expiry = None /\ at # None THEN at + ExpiryWindow ELSE expiry,
             !.op = op]]

\* record_external_change: a direct write, already carried out, is inserted in
\* its final status, with no schedule and no snapshot.
RecordExternalChange(c, outcome, op) ==
    /\ row[c].status = "absent"
    /\ outcome \in {"applied", "failed"}
    /\ row' = [row EXCEPT ![c] = [NoRow(outcome) EXCEPT !.op = op]]

\* Faulty: every PATCH writes scheduled_at, sent or not.
UpdateUnsentSchedule(c, old, at, expiry, op) ==
    /\ Exists(row[c]) /\ old.status \in Editable
    /\ row' = [row EXCEPT ![c].status = IF at # None THEN "scheduled" ELSE "draft",
                          ![c].scheduledAt = at]

\* update: the status follows from whether a schedule is left; attempts are kept.
\* A request that replaces the operations loses their snapshots.
Update(c, old, at, expiry, op) ==
    /\ Exists(row[c]) /\ old.status \in Editable
    /\ LET newAt == IF at = Keep THEN old.scheduledAt ELSE at
           windowed == expiry = Keep /\ at \notin {Keep, None} /\ old.notValidAfter = None
           rearmed == old.status = "failed" /\ newAt # None
       IN row' = [row EXCEPT ![c] = [row[c] EXCEPT
             !.status = IF newAt # None THEN "scheduled" ELSE "draft",
             !.scheduledAt = IF at = Keep THEN @ ELSE at,
             !.notValidAfter = IF windowed THEN at + ExpiryWindow
                               ELSE IF expiry = Keep THEN @ ELSE expiry,
             !.nextAttemptAt = IF rearmed THEN None ELSE @,
             !.op = IF op = Keep THEN @ ELSE op,
             !.snap = IF op = Keep THEN @ ELSE NoSnapshot]]

\* Faulty: a running change can be cancelled.
CancelRunning(c, old) ==
    /\ Exists(row[c]) /\ old.status \in {"draft", "scheduled", "failed", "running"}
    /\ row' = [row EXCEPT ![c].status = "cancelled", ![c].leaseExpiresAt = None]

\* cancel: the lease is cleared, the time of the next attempt is not.
Cancel(c, old) ==
    /\ Exists(row[c]) /\ old.status \in {"draft", "scheduled", "failed"}
    /\ row' = [row EXCEPT ![c].status = "cancelled", ![c].leaseExpiresAt = None]

\* Faulty: a change that ended can be applied again.
MarkRunningEnded(c, old) ==
    /\ Exists(row[c]) /\ old.status # "running"
    /\ row[c].attempts < AttemptBound
    /\ row' = [row EXCEPT ![c].status = "running", ![c].attempts = @ + 1,
                          ![c].leaseExpiresAt = now + LeaseTTL]

\* mark_running, for "apply now": neither the schedule nor the expiry matters.
MarkRunning(c, old) ==
    /\ Exists(row[c]) /\ old.status \in {"draft", "scheduled", "failed"}
    /\ row[c].attempts < AttemptBound
    /\ row' = [row EXCEPT ![c].status = "running", ![c].attempts = @ + 1,
                          ![c].leaseExpiresAt = now + LeaseTTL]

\* mark_reverted
MarkReverted(c, old) ==
    /\ Exists(row[c]) /\ old.status = "applied"
    /\ row' = [row EXCEPT ![c].status = "reverted", ![c].leaseExpiresAt = None]
--------------------------------------------------------------------------------
(* Methods called by the scheduler *)

Overdue(r) ==
    r.status = "scheduled" /\ r.notValidAfter # None /\ r.notValidAfter < now

Swept(r) ==
    IF Overdue(r) THEN [r EXCEPT !.status = "expired", !.leaseExpiresAt = None] ELSE r

\* expire_overdue
ExpireOverdue ==
    row' = [c \in Change |-> Swept(row[c])]

LeaseExpired(r) == r.leaseExpiresAt # None /\ r.leaseExpiresAt < now

\* Null, or reached.
Reached(t) == t # None => t <= now

\* Faulty: a running change is claimed without regard to its lease.
DueWhileLeased(r) ==
    /\ r.scheduledAt # None /\ Reached(r.scheduledAt) /\ Reached(r.nextAttemptAt)
    /\ r.status \in {"scheduled", "running"}

\* Faulty: running work is never taken over.
DueWhenScheduled(r) ==
    /\ r.scheduledAt # None /\ Reached(r.scheduledAt) /\ Reached(r.nextAttemptAt)
    /\ r.status = "scheduled"

\* The WHERE clause of claim_due: due work, and running work whose holder let
\* its lease run out.
Due(r) ==
    /\ r.scheduledAt # None /\ Reached(r.scheduledAt)
    /\ Reached(r.nextAttemptAt)
    /\ \/ r.status = "scheduled" /\ (r.leaseExpiresAt # None => LeaseExpired(r))
       \/ r.status = "running" /\ LeaseExpired(r)

\* Faulty: the row found is updated only if it is still "scheduled".
ClaimDueScheduled(c) ==
    /\ Due(Swept(row[c])) /\ row[c].status = "scheduled"
    /\ \A d \in Change : Due(Swept(row[d])) => row[c].scheduledAt <= row[d].scheduledAt
    /\ row[c].attempts < AttemptBound
    /\ row' = [d \in Change |->
                 IF d = c THEN [row[c] EXCEPT !.status = "running", !.attempts = @ + 1,
                                              !.leaseExpiresAt = now + LeaseTTL]
                 ELSE Swept(row[d])]

\* claim_due returns a change: expire the overdue ones, then take the due change
\* with the earliest schedule.
ClaimDue(c) ==
    /\ Due(Swept(row[c]))
    /\ \A d \in Change : Due(Swept(row[d])) => row[c].scheduledAt <= row[d].scheduledAt
    /\ row[c].attempts < AttemptBound
    /\ row' = [d \in Change |->
                 IF d = c THEN [row[c] EXCEPT !.status = "running", !.attempts = @ + 1,
                                              !.leaseExpiresAt = now + LeaseTTL]
                 ELSE Swept(row[d])]

\* claim_due returns nothing.
ClaimNone ==
    /\ \A c \in Change : ~Due(Swept(row[c]))
    /\ ExpireOverdue

\* save_operation_snapshots writes onto whatever operations the row now has.
SaveSnapshots(c, snapshot) ==
    row' = [row EXCEPT ![c].snap = IF Exists(row[c]) THEN snapshot ELSE @]

\* Faulty: the time of the retry survives the success.
MarkAppliedRetryKept(c) ==
    /\ Exists(row[c])
    /\ row' = [row EXCEPT ![c].status = "applied", ![c].leaseExpiresAt = None]

\* mark_applied looks at neither the status nor the lease holder.
MarkApplied(c) ==
    /\ Exists(row[c])
    /\ row' = [row EXCEPT ![c].status = "applied", ![c].nextAttemptAt = None,
                          ![c].leaseExpiresAt = None]

\* Faulty: a failure keeps the lease of the failed attempt.
MarkFailedLeaseKept(c, old) ==
    /\ Exists(row[c])
    /\ LET retry == old.attempts < MaxAttempts /\ old.scheduledAt # None
       IN row' = [row EXCEPT ![c].status = IF retry THEN "scheduled" ELSE "failed",
                             ![c].nextAttemptAt = IF retry THEN now + RetryBackoff ELSE None]

\* Faulty: an apply-now draft that fails is put back for a retry as well.
MarkFailedDraftRetried(c, old) ==
    /\ Exists(row[c])
    /\ LET retry == old.attempts < MaxAttempts
       IN row' = [row EXCEPT ![c].status = IF retry THEN "scheduled" ELSE "failed",
                             ![c].nextAttemptAt = IF retry THEN now + RetryBackoff ELSE None,
                             ![c].leaseExpiresAt = None]

\* Faulty: the last attempt is not used.
MarkFailedOneShort(c, old) ==
    /\ Exists(row[c])
    /\ LET retry == old.attempts + 1 < MaxAttempts /\ old.scheduledAt # None
       IN row' = [row EXCEPT ![c].status = IF retry THEN "scheduled" ELSE "failed",
                             ![c].nextAttemptAt = IF retry THEN now + RetryBackoff ELSE None,
                             ![c].leaseExpiresAt = None]

\* mark_failed: back to "scheduled" after a backoff while attempts are left and
\* there is a schedule; it too looks at neither the status nor the holder.
MarkFailed(c, old) ==
    /\ Exists(row[c])
    /\ LET retry == old.attempts < MaxAttempts /\ old.scheduledAt # None
       IN row' = [row EXCEPT
             ![c].status = IF retry THEN "scheduled" ELSE "failed",
             ![c].nextAttemptAt =
                 IF retry THEN now + RetryBackoff * old.attempts ELSE None,
             ![c].leaseExpiresAt = None]

\* _purgeable_filters, without the age cut and the order that retention adds.
Purgeable(r) ==
    /\ r.status \in PurgeStatuses
    /\ Reached(r.scheduledAt) /\ Reached(r.nextAttemptAt)

\* purge_by_age, purge_oldest: some of the purgeable changes are deleted.
Purge(gone) ==
    /\ \A c \in gone : Purgeable(row[c])
    /\ row' = [c \in Change |-> IF c \in gone THEN NoRow("purged") ELSE row[c]]
--------------------------------------------------------------------------------
(* Any caller, any time *)

ClientTimes == ScheduleTimes \cup {None}

ClientNext ==
    \E c \in Change :
        \/ \E at, expiry \in ClientTimes, op \in OpChoice : Create(c, at, expiry, op)
        \/ \E outcome \in {"applied", "failed"}, op \in OpChoice :
               RecordExternalChange(c, outcome, op)
        \/ \E at, expiry \in ClientTimes \cup {Keep}, op \in OpChoice \cup {Keep} :
               Update(c, row[c], at, expiry, op)
        \/ Cancel(c, row[c])
        \/ MarkRunning(c, row[c])
        \/ MarkReverted(c, row[c])

WorkerNext ==
    \/ ExpireOverdue
    \/ ClaimNone
    \/ \E gone \in SUBSET Change : Purge(gone)
    \/ \E c \in Change :
        \/ ClaimDue(c)
        \/ \E snapshot \in Snapshot : SaveSnapshots(c, snapshot)
        \/ MarkApplied(c)
        \/ MarkFailed(c, row[c])

Tick == now < MaxTime /\ now' = now + 1

Next ==
    \/ Tick /\ UNCHANGED row
    \/ (ClientNext \/ WorkerNext) /\ UNCHANGED now

Spec == Init /\ [][Next]_storeVars
--------------------------------------------------------------------------------
(* What the table promises whatever its callers do *)

\* A row carries a lease exactly while it is running: no method leaves a lease
\* behind that would hide a due change from claim_due, and none leaves a running
\* change without the lease whose end lets another worker take it over.
LeaseIffRunning ==
    \A c \in Change : row[c].status = "running" <=> row[c].leaseExpiresAt # None

\* A change waits for the scheduler exactly when it has a time to run at: edits,
\* retries and apply-now never strand a "scheduled" row that claim_due skips
\* because scheduled_at is null, nor leave a schedule on a draft.
ScheduledHasTime ==
    \A c \in Change :
        /\ row[c].status = "scheduled" => row[c].scheduledAt # None
        /\ row[c].status = "draft" => row[c].scheduledAt = None

\* A change with a schedule is given up only after max_attempts attempts, through
\* any mix of retries, edits, re-arming and apply-now.
FailedIsExhausted ==
    \A c \in Change :
        row[c].status = "failed" /\ row[c].scheduledAt # None
            => row[c].attempts >= MaxAttempts

\* Once a change is applied, failed or reverted no retry time is left on the row;
\* it would delay a later re-arming, and keep retention from deleting the row.
NoRetryLeftBehind ==
    \A c \in Change :
        row[c].status \in {"applied", "failed", "reverted"} => row[c].nextAttemptAt = None
================================================================================
