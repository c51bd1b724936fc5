--------------------------- MODULE ChangeStore_proofs ---------------------------
(***************************************************************************)
(* What the store promises holds for any number of changes, any settings   *)
(* and any callers.  Every invariant of ChangeStore is a condition on each *)
(* row by itself, so the proof looks at the rows a method writes (one      *)
(* lemma for each method), then at the table.                              *)
(***************************************************************************)
EXTENDS ChangeStore, TLAPS

\* A row keeps every promise.
RowOK(r) ==
    /\ r \in Row
    /\ Exists(r) => r.op \in Op
    /\ r.status = "running" <=> r.leaseExpiresAt # None
    /\ r.status = "scheduled" => r.scheduledAt # None
    /\ r.status = "draft" => r.scheduledAt = None
    /\ r.status = "failed" /\ r.scheduledAt # None => r.attempts >= MaxAttempts
    /\ r.status \in {"applied", "failed", "reverted"} => r.nextAttemptAt = None

\* The inductive invariant: every row keeps every promise.
Inv ==
    /\ now \in Nat
    /\ row = [c \in Change |-> row[c]]
    /\ \A c \in Change : RowOK(row[c])

--------------------------------------------------------------------------------
(* The rows the methods write *)

\* A row not inserted yet or deleted keeps every promise.
LEMMA NoRowOK ==
    ASSUME NEW s \in Missing
    PROVE  RowOK(NoRow(s))
BY NullsAssumption DEF RowOK, Exists, Missing, Row, NoRow, Status

\* A retry is scheduled at a time of the clock.
LEMMA RetryTime ==
    ASSUME NEW t \in Nat, NEW a \in Nat
    PROVE  t + RetryBackoff * a \in Nat
BY NumbersAssumption

\* What create inserts.
LEMMA CreateOK ==
    ASSUME NEW c \in Change, Inv,
           NEW at \in ClientTimes, NEW expiry \in ClientTimes, NEW op \in OpChoice,
           Create(c, at, expiry, op)
    PROVE  RowOK(row'[c])
<1> DEFINE exp == IF expiry = None /\ at # None THEN at + ExpiryWindow ELSE expiry
           new == [status |-> IF at # None THEN "scheduled" ELSE "draft",
                   scheduledAt |-> at, notValidAfter |-> exp, attempts |-> 0,
                   nextAttemptAt |-> None, leaseExpiresAt |-> None,
                   op |-> op, snap |-> NoSnapshot]
<1>1. at \in {None} \cup Nat /\ exp \in {None} \cup Nat
  BY NumbersAssumption DEF ClientTimes
<1>2. row'[c] = new
  BY DEF Create, NoRow, Inv
<1>3. op \in Op
  BY OpChoiceAssumption
<1> QED
  BY <1>1, <1>2, <1>3, NullsAssumption DEF RowOK, Exists, Missing, Row, Status

\* What record_external_change inserts.
LEMMA RecordExternalChangeOK ==
    ASSUME NEW c \in Change, Inv, NEW outcome \in {"applied", "failed"}, NEW op \in OpChoice,
           RecordExternalChange(c, outcome, op)
    PROVE  RowOK(row'[c])
<1>1. row'[c] = [status |-> outcome, scheduledAt |-> None, notValidAfter |-> None,
                 attempts |-> 0, nextAttemptAt |-> None, leaseExpiresAt |-> None,
                 op |-> op, snap |-> NoSnapshot]
  BY DEF RecordExternalChange, NoRow, Inv
<1>2. op \in Op
  BY OpChoiceAssumption
<1> QED
  BY <1>1, <1>2, NullsAssumption DEF RowOK, Exists, Missing, Row, Status

\* What a PATCH leaves, whatever fields it sends.
LEMMA UpdateOK ==
    ASSUME NEW c \in Change, Inv,
           NEW at \in ClientTimes \cup {Keep}, NEW expiry \in ClientTimes \cup {Keep},
           NEW op \in OpChoice \cup {Keep},
           Update(c, row[c], at, expiry, op)
    PROVE  RowOK(row'[c])
<1> DEFINE r == row[c]
           newAt == IF at = Keep THEN r.scheduledAt ELSE at
           windowed == expiry = Keep /\ at \notin {Keep, None} /\ r.notValidAfter = None
           exp == IF windowed THEN at + ExpiryWindow
                  ELSE IF expiry = Keep THEN r.notValidAfter ELSE expiry
           next == IF r.status = "failed" /\ newAt # None THEN None ELSE r.nextAttemptAt
           newOp == IF op = Keep THEN r.op ELSE op
           newSnap == IF op = Keep THEN r.snap ELSE NoSnapshot
           stat == IF newAt # None THEN "scheduled" ELSE "draft"
<1>1. RowOK(r)
  BY DEF Inv
<1>a. at \in {None, Keep} \cup Nat /\ expiry \in {None, Keep} \cup Nat
  BY NumbersAssumption DEF ClientTimes
<1>b. /\ r.scheduledAt \in {None} \cup Nat /\ r.notValidAfter \in {None} \cup Nat
      /\ r.nextAttemptAt \in {None} \cup Nat
  BY <1>1 DEF Update, RowOK, Row
<1>c. newAt \in {None} \cup Nat /\ next \in {None} \cup Nat
  BY <1>a, <1>b
<1>d. at \in Nat => at + ExpiryWindow \in Nat
  BY NumbersAssumption
<1>e. exp \in {None} \cup Nat
  BY <1>a, <1>b, <1>d
<1>2. newAt \in {None} \cup Nat /\ exp \in {None} \cup Nat /\ next \in {None} \cup Nat
  BY <1>c, <1>e
<1>3. newOp \in Op /\ newSnap \in {NoSnapshot} \cup Snapshot
  BY <1>1, OpChoiceAssumption DEF Update, RowOK, Row
<1>4. r.status \in Editable
  BY DEF Update
<1>5. r.leaseExpiresAt = None
  BY <1>1, <1>4 DEF RowOK, Editable
<1>6. row'[c] = [r EXCEPT !.status = stat, !.scheduledAt = newAt, !.notValidAfter = exp,
                          !.nextAttemptAt = next, !.op = newOp, !.snap = newSnap]
  <2>1. r \in Row /\ c \in DOMAIN row
    BY <1>1 DEF Inv, RowOK
  <2>2. row'[c] = [r EXCEPT
            !.status = stat, !.scheduledAt = IF at = Keep THEN @ ELSE at,
            !.notValidAfter = IF windowed THEN at + ExpiryWindow
                              ELSE IF expiry = Keep THEN @ ELSE expiry,
            !.nextAttemptAt = IF r.status = "failed" /\ newAt # None THEN None ELSE @,
            !.op = IF op = Keep THEN @ ELSE op,
            !.snap = IF op = Keep THEN @ ELSE NoSnapshot]
    BY <2>1, Zenon DEF Update
  <2> QED
    BY <2>1, <2>2 DEF Row
<1>7. \/ stat = "scheduled" /\ newAt # None
      \/ stat = "draft" /\ newAt = None
  OBVIOUS
<1> HIDE DEF newAt, exp, next, newOp, newSnap, stat
<1>8. row'[c] \in Row
  BY <1>1, <1>2, <1>3, <1>6, <1>7 DEF RowOK, Row, Status
<1> QED
  BY <1>1, <1>3, <1>5, <1>6, <1>7, <1>8 DEF RowOK, Row

\* Cancelling ends a change without a lease.
LEMMA CancelOK ==
    ASSUME NEW c \in Change, Inv, Cancel(c, row[c])
    PROVE  RowOK(row'[c])
<1>1. RowOK(row[c]) /\ Exists(row[c])
  BY DEF Inv, Cancel
<1>2. row'[c] = [row[c] EXCEPT !.status = "cancelled", !.leaseExpiresAt = None]
  BY DEF Inv, Cancel
<1> QED
  BY <1>1, <1>2 DEF RowOK, Exists, Missing, Row, Status

\* Both ways to start an execution set the lease together with the status.
LEMMA LeasedOK ==
    ASSUME NEW r, RowOK(r), Exists(r), now \in Nat
    PROVE  RowOK([r EXCEPT !.status = "running", !.attempts = @ + 1,
                           !.leaseExpiresAt = now + LeaseTTL])
<1>1. now + LeaseTTL \in Nat /\ now + LeaseTTL # None /\ r.attempts + 1 \in Nat
  BY NumbersAssumption, NullsAssumption DEF RowOK, Exists, Missing, Row
<1>2. /\ r.scheduledAt \in {None} \cup Nat /\ r.notValidAfter \in {None} \cup Nat
      /\ r.nextAttemptAt \in {None} \cup Nat /\ r.op \in Op
      /\ r.snap \in {NoSnapshot} \cup Snapshot
  BY DEF RowOK, Row
<1> DEFINE new == [r EXCEPT !.status = "running", !.attempts = @ + 1,
                            !.leaseExpiresAt = now + LeaseTTL]
<1>3. r \in Row
  BY DEF RowOK
<1>4. new \in Row
  BY <1>1, <1>3 DEF Row, Status
<1>5. new.status = "running" /\ new.leaseExpiresAt = now + LeaseTTL /\ new.op = r.op
  BY <1>3 DEF Row
<1> HIDE DEF new
<1>6. RowOK(new)
  BY <1>1, <1>2, <1>4, <1>5 DEF RowOK
<1> QED
  BY <1>6 DEF new

\* Apply-now.
LEMMA MarkRunningOK ==
    ASSUME NEW c \in Change, Inv, MarkRunning(c, row[c])
    PROVE  RowOK(row'[c])
<1>1. RowOK(row[c])
  BY DEF Inv
<1>2. row'[c] = [row[c] EXCEPT !.status = "running", !.attempts = @ + 1,
                               !.leaseExpiresAt = now + LeaseTTL]
  BY <1>1 DEF MarkRunning, Inv, RowOK, Exists, Missing, Row
<1> QED
  BY <1>1, <1>2, LeasedOK DEF MarkRunning, Inv

\* A reverted change was applied: it has no retry time.
LEMMA MarkRevertedOK ==
    ASSUME NEW c \in Change, Inv, MarkReverted(c, row[c])
    PROVE  RowOK(row'[c])
BY DEF MarkReverted, Inv, RowOK, Exists, Missing, Row, Status

\* The sweep expires only scheduled rows.
LEMMA SweptOK ==
    ASSUME NEW r, RowOK(r)
    PROVE  RowOK(Swept(r))
BY DEF Swept, Overdue, RowOK, Exists, Missing, Row, Status

\* A snapshot changes nothing else.
LEMMA SaveSnapshotsOK ==
    ASSUME NEW c \in Change, Inv, NEW snapshot \in Snapshot, SaveSnapshots(c, snapshot)
    PROVE  RowOK(row'[c])
BY DEF SaveSnapshots, Inv, RowOK, Exists, Missing, Row

\* Success clears the lease and the time of a retry.
LEMMA MarkAppliedOK ==
    ASSUME NEW c \in Change, Inv, MarkApplied(c)
    PROVE  RowOK(row'[c])
BY DEF MarkApplied, Inv, RowOK, Exists, Missing, Row, Status

\* Failure puts back only a change that has a schedule and attempts left.
LEMMA MarkFailedOK ==
    ASSUME NEW c \in Change, Inv, MarkFailed(c, row[c])
    PROVE  RowOK(row'[c])
<1> DEFINE r == row[c]
           retry == r.attempts < MaxAttempts /\ r.scheduledAt # None
           next == IF retry THEN now + RetryBackoff * r.attempts ELSE None
<1>1. RowOK(r) /\ now \in Nat
  BY DEF Inv
<1>2. r.attempts \in Nat
  BY <1>1 DEF RowOK, Exists, Missing, Row
<1>3. now + RetryBackoff * r.attempts \in Nat
  BY <1>1, <1>2, RetryTime
<1>4. next \in {None} \cup Nat /\ (~retry => next = None)
  BY <1>3
<1>5. row'[c] = [r EXCEPT !.status = IF retry THEN "scheduled" ELSE "failed",
                          !.nextAttemptAt = next, !.leaseExpiresAt = None]
  BY <1>1 DEF MarkFailed, Inv, RowOK, Exists, Missing, Row
<1>6. ~retry /\ r.scheduledAt # None => r.attempts >= MaxAttempts
  BY <1>2, NumbersAssumption
<1> HIDE DEF next
<1>9. r.op \in Op
  BY <1>1 DEF MarkFailed, RowOK
<1>7. CASE retry
  <2>1. row'[c] = [r EXCEPT !.status = "scheduled", !.nextAttemptAt = next,
                            !.leaseExpiresAt = None]
    BY <1>5, <1>7
  <2>2. row'[c] \in Row
    BY <1>1, <1>4, <2>1 DEF RowOK, Row, Status
  <2> QED
    BY <1>1, <1>7, <1>9, <2>1, <2>2 DEF RowOK, Row
<1>8. CASE ~retry
  <2>1. row'[c] = [r EXCEPT !.status = "failed", !.nextAttemptAt = None,
                            !.leaseExpiresAt = None]
    BY <1>4, <1>5, <1>8
  <2>2. row'[c] \in Row
    BY <1>1, <2>1 DEF RowOK, Row, Status
  <2> HIDE DEF retry
  <2> QED
    BY <1>1, <1>6, <1>8, <1>9, <2>1, <2>2 DEF RowOK, Row
<1> QED
  BY <1>7, <1>8
--------------------------------------------------------------------------------
(* The table *)

\* The step writes at most row c.
OnlyRow(c) ==
    row' = [d \in Change |-> row'[d]] /\ \A d \in Change \ {c} : row'[d] = row[d]

\* A method that writes one row, and leaves it right, keeps the invariant.
LEMMA OneRow ==
    ASSUME Inv, NEW c \in Change, UNCHANGED now, OnlyRow(c), RowOK(row'[c])
    PROVE  Inv'
BY DEF Inv, OnlyRow

\* An empty table keeps every promise.
THEOREM InvInit == Init => Inv
<1> SUFFICES ASSUME Init PROVE Inv
  OBVIOUS
<1>1. \A c \in Change : row[c] = NoRow("absent")
  BY DEF Init
<1> QED
  BY <1>1, NoRowOK DEF Init, Inv, Missing

\* The calls of the API keep the invariant.
LEMMA ClientStep ==
    ASSUME Inv, ClientNext, UNCHANGED now
    PROVE  Inv'
<1>1. PICK c \in Change :
          \/ \E at, expiry \in ClientTimes, op \in OpChoice : Create(c, at, expiry, op)
          \/ \E outcome \in {"applied", "failed"}, op \in OpChoice :
                 RecordExternalChange(c, outcome, op)
          \/ \E at, expiry \in ClientTimes \cup {Keep}, op \in OpChoice \cup {Keep} :
                 Update(c, row[c], at, expiry, op)
          \/ Cancel(c, row[c])
          \/ MarkRunning(c, row[c])
          \/ MarkReverted(c, row[c])
  BY DEF ClientNext
<1>2. RowOK(row'[c])
  BY <1>1, CreateOK, RecordExternalChangeOK, UpdateOK, CancelOK, MarkRunningOK,
     MarkRevertedOK
<1>3. OnlyRow(c)
  <2>1. CASE \E at, expiry \in ClientTimes, op \in OpChoice : Create(c, at, expiry, op)
    BY <2>1 DEF Create, OnlyRow, Inv
  <2>2. CASE \E outcome \in {"applied", "failed"}, op \in OpChoice :
                 RecordExternalChange(c, outcome, op)
    BY <2>2 DEF RecordExternalChange, OnlyRow, Inv
  <2>3. CASE \E at, expiry \in ClientTimes \cup {Keep}, op \in OpChoice \cup {Keep} :
                 Update(c, row[c], at, expiry, op)
    <3>1. PICK at \in ClientTimes \cup {Keep}, expiry \in ClientTimes \cup {Keep},
               op \in OpChoice \cup {Keep} : Update(c, row[c], at, expiry, op)
      BY <2>3
    <3>2. row' = [d \in Change |-> row'[d]]
      BY <3>1 DEF Update, Inv
    <3>3. ASSUME NEW d \in Change \ {c} PROVE row'[d] = row[d]
      BY <3>1 DEF Update, Inv
    <3> QED
      BY <3>2, <3>3 DEF OnlyRow
  <2>4. CASE Cancel(c, row[c])
    BY <2>4 DEF Cancel, OnlyRow, Inv
  <2>5. CASE MarkRunning(c, row[c])
    BY <2>5 DEF MarkRunning, OnlyRow, Inv
  <2>6. CASE MarkReverted(c, row[c])
    BY <2>6 DEF MarkReverted, OnlyRow, Inv
  <2> QED
    BY <1>1, <2>1, <2>2, <2>3, <2>4, <2>5, <2>6
<1> QED
  BY <1>2, <1>3, OneRow

\* The calls of the scheduler keep the invariant.
LEMMA WorkerStep ==
    ASSUME Inv, WorkerNext, UNCHANGED now
    PROVE  Inv'
<1>1. \A c \in Change : RowOK(Swept(row[c]))
  BY SweptOK DEF Inv
<1>2. CASE ExpireOverdue \/ ClaimNone
  BY <1>1, <1>2 DEF ExpireOverdue, ClaimNone, Inv
<1>3. CASE \E gone \in SUBSET Change : Purge(gone)
  <2>1. RowOK(NoRow("purged"))
    BY NoRowOK DEF Missing
  <2> QED
    BY <1>3, <2>1 DEF Purge, Inv
<1>4. CASE \E c \in Change : ClaimDue(c)
  <2>1. PICK c \in Change : ClaimDue(c)
    BY <1>4
  <2>2. RowOK([row[c] EXCEPT !.status = "running", !.attempts = @ + 1,
                             !.leaseExpiresAt = now + LeaseTTL])
    <3>1. Exists(row[c])
      BY <2>1 DEF ClaimDue, Due, Swept, Overdue, Exists, Missing
    <3> QED
      BY <3>1, LeasedOK DEF Inv
  <2> QED
    BY <1>1, <2>1, <2>2 DEF ClaimDue, Inv
<1>5. CASE \E c \in Change : \/ \E snapshot \in Snapshot : SaveSnapshots(c, snapshot)
                             \/ MarkApplied(c) \/ MarkFailed(c, row[c])
  <2>1. PICK c \in Change : \/ \E snapshot \in Snapshot : SaveSnapshots(c, snapshot)
                            \/ MarkApplied(c) \/ MarkFailed(c, row[c])
    BY <1>5
  <2>2. RowOK(row'[c])
    BY <2>1, SaveSnapshotsOK, MarkAppliedOK, MarkFailedOK
  <2>3. OnlyRow(c)
    BY <2>1 DEF SaveSnapshots, MarkApplied, MarkFailed, OnlyRow, Inv
  <2> QED
    BY <2>2, <2>3, OneRow
<1> QED
  BY <1>2, <1>3, <1>4, <1>5 DEF WorkerNext

\* Every call, and the clock, keep the invariant.
THEOREM InvNext == Inv /\ [Next]_storeVars => Inv'
<1> SUFFICES ASSUME Inv, [Next]_storeVars PROVE Inv'
  OBVIOUS
<1>1. CASE Tick /\ UNCHANGED row
  BY <1>1 DEF Tick, Inv
<1>2. CASE ClientNext /\ UNCHANGED now
  BY <1>2, ClientStep
<1>3. CASE WorkerNext /\ UNCHANGED now
  BY <1>3, WorkerStep
<1>4. CASE UNCHANGED storeVars
  BY <1>4 DEF Inv, storeVars
<1> QED
  BY <1>1, <1>2, <1>3, <1>4 DEF Next

\* The inductive invariant holds of every behaviour of the store.
THEOREM Invariance == Spec => []Inv
BY InvInit, InvNext, PTL DEF Spec

--------------------------------------------------------------------------------
(* The invariants the runs check *)

\* Type correctness, for any callers.
THEOREM TypeCorrect == Spec => []TypeOK
<1>1. Inv => TypeOK
  BY DEF Inv, RowOK, TypeOK
<1> QED
  BY <1>1, Invariance, PTL

\* A row carries a lease exactly while it is running, for any callers.
THEOREM LeaseIffRunningAlways == Spec => []LeaseIffRunning
<1>1. Inv => LeaseIffRunning
  BY DEF Inv, RowOK, LeaseIffRunning
<1> QED
  BY <1>1, Invariance, PTL

\* What is scheduled has a time to run at, and a draft has none.
THEOREM ScheduledHasTimeAlways == Spec => []ScheduledHasTime
<1>1. Inv => ScheduledHasTime
  BY DEF Inv, RowOK, ScheduledHasTime
<1> QED
  BY <1>1, Invariance, PTL

\* A change with a schedule fails for good only after max_attempts attempts.
THEOREM FailedIsExhaustedAlways == Spec => []FailedIsExhausted
<1>1. Inv => FailedIsExhausted
  BY DEF Inv, RowOK, FailedIsExhausted
<1> QED
  BY <1>1, Invariance, PTL

\* What is applied, failed or reverted has no retry time left.
THEOREM NoRetryLeftBehindAlways == Spec => []NoRetryLeftBehind
<1>1. Inv => NoRetryLeftBehind
  BY DEF Inv, RowOK, NoRetryLeftBehind
<1> QED
  BY <1>1, Invariance, PTL
================================================================================
