------------------------- MODULE ChangeLifecycle_proofs -------------------------
(***************************************************************************)
(* What becomes of a change, for any number of changes, loops, requests    *)
(* and records, and any settings: it keeps to its lifecycle, what is       *)
(* reported of it is what the server did, and a revert restores what the   *)
(* change found.                                                           *)
(***************************************************************************)
EXTENDS Scheduler_proofs
--------------------------------------------------------------------------------
(* Who holds a change *)

\* What the lifecycle sees of the service.
Statuses == [c \in Change |-> row[c].status]
Holders  == [c \in Change |-> Holder(c)]

\* Whoever executes a change is its holder, and a holder executes.
HoldersFit ==
    \A c \in Change :
        /\ Holder(c) = None \/ (/\ Holder(c) \in Exec /\ Executing(Holder(c))
                                /\ job[Holder(c)].change = c)
        /\ \A e \in Exec : Executing(e) /\ job[e].change = c => Holder(c) = e

\* The two loops or requests of two executions of a change are one.
LEMMA HoldersFitNow == Safe => HoldersFit
<1> SUFFICES ASSUME Safe, NEW c \in Change
             PROVE  /\ Holder(c) = None \/ (/\ Holder(c) \in Exec /\ Executing(Holder(c))
                                            /\ job[Holder(c)].change = c)
                    /\ \A e \in Exec : Executing(e) /\ job[e].change = c => Holder(c) = e
  BY DEF HoldersFit
<1>1. CASE \E e \in Exec : Executing(e) /\ job[e].change = c
  <2>1. Holder(c) = CHOOSE e \in Exec : Executing(e) /\ job[e].change = c
    BY <1>1 DEF Holder
  <2>2. Holder(c) \in Exec /\ Executing(Holder(c)) /\ job[Holder(c)].change = c
    BY <1>1, <2>1
  <2> QED BY <2>2 DEF Safe, MutualExclusion
<1>2. CASE ~\E e \in Exec : Executing(e) /\ job[e].change = c
  BY <1>2 DEF Holder
<1> QED BY <1>1, <1>2

LEMMA HoldersFitNext == Safe' => HoldersFit'
<1> SUFFICES ASSUME Safe', NEW c \in Change
             PROVE  /\ Holder(c)' = None \/ (/\ Holder(c)' \in Exec /\ Executing(Holder(c))'
                                             /\ job'[Holder(c)'].change = c)
                    /\ \A e \in Exec : Executing(e)' /\ job'[e].change = c => Holder(c)' = e
  BY DEF HoldersFit
<1>1. CASE \E e \in Exec : Executing(e)' /\ job'[e].change = c
  <2>1. Holder(c)' = CHOOSE e \in Exec : Executing(e)' /\ job'[e].change = c
    BY <1>1 DEF Holder
  <2>2. Holder(c)' \in Exec /\ Executing(Holder(c))' /\ job'[Holder(c)'].change = c
    BY <1>1, <2>1 DEF Executing
  <2> QED BY <2>2 DEF Safe, MutualExclusion
<1>2. CASE ~\E e \in Exec : Executing(e)' /\ job'[e].change = c
  BY <1>2 DEF Holder
<1> QED BY <1>1, <1>2
--------------------------------------------------------------------------------
(* Who executes what, from one state to the next *)

\* The loops and requests but those of S execute what they did.
Unmoved(S) ==
    \A e \in Exec \ S : /\ Executing(e)' <=> Executing(e)
                        /\ Executing(e) => job'[e].change = job[e].change

LEMMA HoldersStay ==
    ASSUME Safe, Safe', Unmoved({})
    PROVE  UNCHANGED Holders
<1>1. HoldersFit /\ HoldersFit'
  BY HoldersFitNow, HoldersFitNext
<1>2. ASSUME NEW c \in Change PROVE Holder(c)' = Holder(c)
  <2>1. CASE Holder(c) = None
    <3>1. \A e \in Exec : Executing(e)' => job'[e].change # c
      BY <1>1, <2>1, SchedulerAssumption DEF HoldersFit, Unmoved, Exec
    <3> QED BY <2>1, <3>1 DEF Holder
  <2>2. CASE Holder(c) # None
    <3>1. PICK f \in Exec : f = Holder(c) /\ Executing(f) /\ job[f].change = c
      BY <1>1, <2>2 DEF HoldersFit
    <3>2. Executing(f)' /\ job'[f].change = c
      BY <3>1 DEF Unmoved
    <3>3. Holder(c)' = f
      BY <1>1, <3>2 DEF HoldersFit
    <3> QED BY <3>1, <3>3
  <2> QED BY <2>1, <2>2
<1> QED BY <1>2 DEF Holders

\* e gives up what it executes.
LEMMA HolderEnds ==
    ASSUME Safe, Safe', NEW e \in Exec, Unmoved({e}), Executing(e), ~Executing(e)'
    PROVE  /\ Holders[job[e].change] = e
           /\ Holders' = [Holders EXCEPT ![job[e].change] = None]
<1>1. /\ HoldersFit /\ HoldersFit' /\ job[e].change \in Change
  BY HoldersFitNow, HoldersFitNext DEF Safe, Typed, Shaped, JobOK, Executing
<1>2. Holder(job[e].change) = e
  BY <1>1 DEF HoldersFit
<1>3. ASSUME NEW c \in Change
      PROVE  Holder(c)' = IF c = job[e].change THEN None ELSE Holder(c)
  <2>1. CASE c = job[e].change \/ Holder(c) = None
    <3>1. \A f \in Exec : Executing(f) /\ job[f].change = c => f = e
      BY <1>1, <1>2, <2>1, SchedulerAssumption DEF HoldersFit, Exec
    <3>2. \A f \in Exec : Executing(f)' => job'[f].change # c
      BY <3>1 DEF Unmoved
    <3>3. Holder(c)' = None
      BY <3>2 DEF Holder
    <3> QED BY <2>1, <3>3
  <2>2. CASE c # job[e].change /\ Holder(c) # None
    <3>1. PICK f \in Exec : f = Holder(c) /\ Executing(f) /\ job[f].change = c
      BY <1>1, <2>2 DEF HoldersFit
    <3>2. Executing(f)' /\ job'[f].change = c
      BY <2>2, <3>1 DEF Unmoved
    <3>3. Holder(c)' = f
      BY <1>1, <3>2 DEF HoldersFit
    <3> QED BY <2>2, <3>1, <3>3
  <2> QED BY <2>1, <2>2
<1>4. Holders' = [c \in Change |-> IF c = job[e].change THEN None ELSE Holders[c]]
  BY <1>3 DEF Holders
<1> QED BY <1>1, <1>2, <1>4 DEF Holders

\* e takes up c, which nobody executes.
LEMMA HolderBegins ==
    ASSUME Safe, Safe', NEW e \in Exec, NEW c \in Change, Unmoved({e}),
           ~Executing(e), Executing(e)', job'[e].change = c
    PROVE  /\ \A d \in Change : Holders[d] # e
           /\ Holders[c] = None
           /\ Holders' = [Holders EXCEPT ![c] = e]
<1>1. /\ HoldersFit /\ HoldersFit'
  BY HoldersFitNow, HoldersFitNext
<1>2. \A d \in Change : Holder(d) # e
  BY <1>1, SchedulerAssumption DEF HoldersFit, Exec
<1>3. ASSUME Holder(c) # None PROVE FALSE
  <2>1. PICK f \in Exec : f = Holder(c) /\ Executing(f) /\ job[f].change = c
    BY <1>1, <1>3 DEF HoldersFit
  <2>2. f # e /\ Executing(f)' /\ job'[f].change = c
    BY <2>1 DEF Unmoved
  <2> QED BY <2>2 DEF Safe, MutualExclusion
<1>4. ASSUME NEW d \in Change PROVE Holder(d)' = IF d = c THEN e ELSE Holder(d)
  <2>1. CASE d = c
    BY <1>1, <2>1 DEF HoldersFit
  <2>2. CASE d # c /\ Holder(d) = None
    <3>1. \A f \in Exec : ~(Executing(f) /\ job[f].change = d)
      BY <1>1, <2>2, SchedulerAssumption DEF HoldersFit, Exec
    <3>2. \A f \in Exec : ~(Executing(f)' /\ job'[f].change = d)
      BY <2>2, <3>1 DEF Unmoved
    <3>3. Holder(d)' = None
      BY <3>2 DEF Holder
    <3> QED BY <2>2, <3>3
  <2>3. CASE d # c /\ Holder(d) # None
    <3>1. PICK f \in Exec : f = Holder(d) /\ Executing(f) /\ job[f].change = d
      BY <1>1, <2>3 DEF HoldersFit
    <3>2. Executing(f)' /\ job'[f].change = d
      BY <2>3, <3>1 DEF Unmoved
    <3>3. Holder(d)' = f
      BY <1>1, <3>2 DEF HoldersFit
    <3> QED BY <2>3, <3>1, <3>3
  <2> QED BY <2>1, <2>2, <2>3
<1>5. Holders' = [d \in Change |-> IF d = c THEN e ELSE Holders[d]]
  BY <1>4 DEF Holders
<1> QED BY <1>2, <1>3, <1>5 DEF Holders

\* A change that is not running is not held.
LEMMA Unheld ==
    ASSUME Safe, NEW c \in Change, row[c].status # "running"
    PROVE  Holders[c] = None
<1>1. Holder(c) = None
  BY HoldersFitNow, NotExecuted DEF HoldersFit
<1> QED BY <1>1 DEF Holders
--------------------------------------------------------------------------------
(* Every step of the service is one of the lifecycle *)

\* The lifecycle's step, in terms of statuses and holders.
LStep == [Lifecycle!Next]_(Lifecycle!lifecycleVars)

LEMMA Stutter ==
    ASSUME UNCHANGED <<Statuses, Holders>>
    PROVE  LStep
BY DEF LStep, Statuses, Holders, Lifecycle!lifecycleVars

\* What a change gets a new status without being held.
LEMMA Becomes ==
    ASSUME Safe, NEW S \in SUBSET Change, NEW s,
           \A c \in S : row[c].status # "running" /\ row'[c].status = s,
           \A c \in Change \ S : row'[c].status = row[c].status
    PROVE  Lifecycle!Become(S, s)
<1>1. \A c \in S : Holders[c] = None
  BY Unheld
<1>2. Statuses' = [c \in Change |-> IF c \in S THEN s ELSE Statuses[c]]
  BY DEF Statuses
<1> QED BY <1>1, <1>2 DEF Lifecycle!Become, Lifecycle!Held, Statuses, Holders

LEMMA LoopRefines ==
    ASSUME Safe, Safe', NEW w \in Worker, LoopStep(w)
    PROVE  LStep
<1>1. w \in Exec /\ Typed
  BY DEF Exec, Safe
<1>2. CASE ExpireTick(w) \/ IdleTick(w)
  <2>0. PICK late \in SUBSET Change : late = {c \in Change : Overdue(row[c])}
    OBVIOUS
  <2>1. ExpireOverdue
    BY <1>2 DEF ExpireTick, IdleTick, ClaimNone
  <2>2. /\ \A c \in late : row[c].status = "scheduled" /\ row'[c].status = "expired"
        /\ \A c \in Change \ late : row'[c].status = row[c].status
    BY <1>1, <2>0, <2>1 DEF ExpireOverdue, Swept, Overdue, Typed, Shaped, Inv, RowOK, Row
  <2>3. Unmoved({})
    BY <1>1, <1>2, Labels DEF ExpireTick, IdleTick, Goto, Unmoved, Executing, Typed, Shaped
  <2>4. UNCHANGED Holders /\ Lifecycle!Become(late, "expired")
    BY <2>2, <2>3, HoldersStay, Becomes
  <2>5. late \subseteq Lifecycle!Scheduled /\ late \in SUBSET Change
    BY <2>2 DEF Lifecycle!Scheduled
  <2>6. Lifecycle!Expire(late)
    BY <2>4, <2>5 DEF Lifecycle!Expire, Holders
  <2> QED BY <2>5, <2>6 DEF LStep, Lifecycle!Next
<1>3. ASSUME NEW gone \in SUBSET Change, Retain(w, gone) PROVE LStep
  <2>1. /\ \A c \in gone : row[c].status \in Lifecycle!Ended /\ row'[c].status = "purged"
        /\ \A c \in Change \ gone : row'[c].status = row[c].status
    BY <1>3, PurgeAssumption DEF Retain, Purge, Purgeable, NoRow, Lifecycle!Ended
  <2>2. Unmoved({})
    BY <1>1, <1>3, Labels DEF Retain, Goto, Unmoved, Executing, Typed, Shaped
  <2>3. UNCHANGED Holders /\ Lifecycle!Become(gone, "purged")
    BY <2>1, <2>2, HoldersStay, Becomes DEF Lifecycle!Ended
  <2>4. Lifecycle!Forget(gone)
    BY <2>1, <2>3 DEF Lifecycle!Forget, Holders
  <2> QED BY <2>4 DEF LStep, Lifecycle!Next
<1>4. ASSUME NEW c \in Change, Claim(w, c) PROVE LStep
  <2>0. PICK late \in SUBSET Change : late = {d \in Change : Overdue(row[d])}
    OBVIOUS
  <2>1. Swept(row[c]) = row[c] /\ row[c].status \in {"scheduled", "running"}
    BY <1>1, <1>4, ClaimedRow DEF Claim, Typed
  <2>2. c \notin late
    BY <1>1, <2>0, <2>1 DEF Swept, Overdue, Typed, Shaped, Inv, RowOK, Row
  <2>3. \A d \in late : row[d].status = "scheduled"
    BY <2>0 DEF Overdue
  <2>4. \A d \in Change : row'[d].status = IF d = c THEN "running" ELSE
                             IF d \in late THEN "expired" ELSE row[d].status
    BY <1>1, <1>4, <2>0 DEF Claim, ClaimDue, Swept, Overdue, Typed, Shaped, Inv, RowOK, Row
  <2>5. /\ Unmoved({w}) /\ ~Executing(w) /\ Executing(w)' /\ job'[w].change = c
    BY <1>1, <1>4, Labels
       DEF Claim, Begin, Goto, NewJob, NoJob, Unmoved, Executing, Typed, Shaped
  <2>6. /\ \A d \in Change : Holders[d] # w
        /\ Holders[c] = None /\ Holders' = [Holders EXCEPT ![c] = w]
    BY <1>1, <2>5, HolderBegins
  <2>7. \A d \in late : Holders[d] = None
    BY <2>3, Unheld
  <2>8. Statuses' = [d \in Change |-> IF d = c THEN "running" ELSE
                       IF d \in late THEN "expired" ELSE Statuses[d]]
    BY <2>4 DEF Statuses
  <2>9. /\ late \subseteq Lifecycle!Scheduled \ {c} /\ late \in SUBSET Change
        /\ row[c].status \in Lifecycle!Pending \cup {"running"}
    BY <2>1, <2>2, <2>3 DEF Lifecycle!Scheduled, Lifecycle!Pending
  <2>10. Lifecycle!Acquire(w, c, late)
    BY <2>6, <2>7, <2>8, <2>9
       DEF Lifecycle!Acquire, Lifecycle!Busy, Lifecycle!Held, Statuses, Holders
  <2> QED BY <1>1, <2>9, <2>10 DEF LStep, Lifecycle!Next
<1> QED BY <1>2, <1>3, <1>4 DEF LoopStep

\* An execution writes the status of its own change at most once, when it ends.
LEMMA ExecuteRefines ==
    ASSUME Safe, Safe', NEW e \in Exec, ExecuteStep(e)
    PROVE  LStep
<1>1. PICK c \in Change : c = job[e].change
  BY DEF ExecuteStep, Capture, SaveAndSend, Deliver, Reject, SendFails, LoseOutcome, Applied,
     Failed, SaveFails, Safe, Typed, Shaped, JobOK, ExecutingAt
<1>2. /\ Executing(e) /\ row[c].status = "running" /\ row[c] \in Row /\ Exists(row[c])
      /\ \A f \in Exec \ {e} : pc'[f] = pc[f] /\ job'[f] = job[f]
  <2>1. /\ Executing(e) /\ \A f \in Exec \ {e} : pc'[f] = pc[f] /\ job'[f] = job[f]
    BY DEF ExecuteStep, Capture, SaveAndSend, Deliver, Reject, SendFails, LoseOutcome, Applied,
       Failed, SaveFails, Executing, ExecutingAt, Finish, Begin, Goto, Safe, Typed, Shaped
  <2> QED BY <1>1, <2>1, NotExecuted DEF Safe, Typed, Shaped, Inv, RowOK, Exists, Missing
<1>3. Unmoved({e})
  BY <1>2 DEF Unmoved, Executing
<1>4. ASSUME UNCHANGED Statuses, Executing(e)', job'[e].change = c PROVE LStep
  BY <1>1, <1>2, <1>3, <1>4, HoldersStay, Stutter DEF Unmoved
<1>5. ASSUME NEW s \in {"applied", "scheduled", "failed"}, ~Executing(e)',
             Statuses' = [Statuses EXCEPT ![c] = s]
      PROVE  LStep
  <2>1. Holders[c] = e /\ Holders' = [Holders EXCEPT ![c] = None]
    BY <1>1, <1>2, <1>3, <1>5, HolderEnds
  <2>2. Lifecycle!Conclude(e, c)
    BY <1>5, <2>1 DEF Lifecycle!Conclude, Statuses, Holders
  <2> QED BY <2>2 DEF LStep, Lifecycle!Next
<1>6. CASE \/ Capture(e) \/ Deliver(e) \/ Reject(e) \/ SendFails(e) \/ LoseOutcome(e)
           \/ SaveFails(e)
  <2>1. UNCHANGED Statuses
    BY <1>6 DEF Capture, Deliver, Reject, SendFails, LoseOutcome, SaveFails, Statuses
  <2>2. Executing(e)' /\ job'[e].change = c
    BY <1>1, <1>6, Labels DEF Capture, Deliver, Reject, SendFails, LoseOutcome, SaveFails, Goto,
       Executing, Safe, Typed, Shaped, Job
  <2> QED BY <1>4, <2>1, <2>2
<1>7. CASE SaveAndSend(e)
  <2>1. UNCHANGED Statuses
    BY <1>1, <1>7 DEF SaveAndSend, SaveSnapshots, Statuses, Safe, Typed, Shaped, Inv, RowOK, Row
  <2>2. Executing(e)' /\ job'[e].change = c
    BY <1>1, <1>7, Labels DEF SaveAndSend, Begin, Goto, Executing, Safe, Typed, Shaped, Job
  <2> QED BY <1>4, <2>1, <2>2
<1>8. CASE Applied(e)
  <2>1. MarkApplied(c) /\ Finish(e)
    BY <1>1, <1>2, <1>8 DEF Applied
  <2>2. ~Executing(e)'
    BY <2>1, Labels DEF Finish, Goto, Executing, Safe, Typed, Shaped
  <2>3. Statuses' = [Statuses EXCEPT ![c] = "applied"]
    BY <2>1 DEF MarkApplied, Statuses, Safe, Typed, Shaped, Inv, RowOK, Row
  <2> QED BY <1>5, <2>2, <2>3
<1>9. CASE Failed(e)
  <2>1. ~Executing(e)'
    BY <1>9, Labels DEF Failed, Finish, Goto, Executing, Safe, Typed, Shaped
  <2>2. CASE MarkFailed(c, row[c])
    <3>1. PICK s \in {"scheduled", "failed"} : Statuses' = [Statuses EXCEPT ![c] = s]
      <4>1. PICK s \in {"scheduled", "failed"} :
               row'[c].status = s /\ \A d \in Change \ {c} : row'[d].status = row[d].status
        BY <1>2, <2>2 DEF MarkFailed, Row, Safe, Typed, Shaped, Inv
      <4> QED BY <4>1 DEF Statuses
    <3> QED BY <1>5, <2>1, <3>1
  <2>3. CASE UNCHANGED row
    <3>1. Holders' = [Holders EXCEPT ![c] = None] /\ UNCHANGED Statuses
      BY <1>1, <1>2, <1>3, <2>1, <2>3, HolderEnds DEF Statuses
    <3>2. \A d \in Change : Holders[d] = e <=> d = c
      BY <1>1, <1>2, HoldersFitNow, SchedulerAssumption DEF HoldersFit, Holders, Exec
    <3>3. Holders' = [d \in Change |-> IF Holders[d] \in {e} THEN None ELSE Holders[d]]
      BY <3>1, <3>2 DEF Holders
    <3>4. Lifecycle!Drop({e})
      BY <3>1, <3>3 DEF Lifecycle!Drop, Statuses, Holders
    <3> QED BY <3>4 DEF LStep, Lifecycle!Next
  <2> QED BY <1>1, <1>2, <1>9, <2>2, <2>3 DEF Failed
<1> QED BY <1>6, <1>7, <1>8, <1>9 DEF ExecuteStep

\* A request takes a change up, or writes a row nobody holds.
LEMMA RequestRefines ==
    ASSUME "shared_db" \notin Faults, Safe, Safe', NEW q \in Request, RequestStep(q)
    PROVE  LStep
<1>1. q \in Exec /\ Typed
  BY DEF Exec, Safe
<1>2. ASSUME NEW c \in Change, ApplyNow(q, c) PROVE LStep
  <2>1. MarkRunning(c, row[c]) /\ Begin(q, "claimed", NewJob(c)) /\ pc[q] = "idle"
    BY <1>2 DEF ApplyNow, Has, Shared
  <2>2. /\ row[c].status \in Lifecycle!Pending
        /\ Statuses' = [Statuses EXCEPT ![c] = "running"]
    BY <1>1, <2>1 DEF MarkRunning, Statuses, Typed, Shaped, Inv, RowOK, Row, Lifecycle!Pending
  <2>3. Unmoved({q}) /\ ~Executing(q) /\ Executing(q)' /\ job'[q].change = c
    BY <1>1, <2>1, Labels DEF Begin, Goto, NewJob, NoJob, Unmoved, Executing, Typed, Shaped
  <2>4. /\ \A d \in Change : Holders[d] # q
        /\ Holders[c] = None /\ Holders' = [Holders EXCEPT ![c] = q]
    BY <1>1, <2>3, HolderBegins
  <2>5. Statuses' = [d \in Change |-> IF d = c THEN "running"
                       ELSE IF d \in {} THEN "expired" ELSE Statuses[d]]
    BY <2>2 DEF Statuses
  <2>6. Lifecycle!Acquire(q, c, {})
    BY <2>2, <2>4, <2>5
       DEF Lifecycle!Acquire, Lifecycle!Busy, Lifecycle!Held, Statuses, Holders
  <2> QED BY <1>1, <2>6 DEF LStep, Lifecycle!Next
<1>3. ASSUME ~\E c \in Change : ApplyNow(q, c) PROVE UNCHANGED Holders
  <2>1. /\ ~Executing(q) /\ ~Executing(q)'
        /\ \A f \in Exec \ {q} : pc'[f] = pc[f] /\ job'[f] = job[f]
    BY <1>1, <1>3, Labels DEF RequestStep, ReadRow, Edit, CancelRequest, BeginRevert, Refuse,
       DeliverRevert, RevertFails, FinishRevert, Finish, Begin, Goto, Has, Shared, Executing, Typed, Shaped
  <2>2. Unmoved({})
    BY <2>1 DEF Unmoved, Executing
  <2> QED BY <2>2, HoldersStay
<1>4. ASSUME NEW c \in Change, Edit(q, c) \/ CancelRequest(q, c), UNCHANGED Holders
      PROVE  LStep
  <2>1. PICK s \in {"draft", "scheduled", "cancelled"} :
          /\ row[c].status \in Lifecycle!Pending /\ row'[c].status = s
          /\ \A d \in Change \ {c} : row'[d].status = row[d].status
    <3>1. CASE CancelRequest(q, c)
      <4>1. Cancel(c, row[c])
        BY <3>1 DEF CancelRequest, Has, Shared
      <4> QED BY <1>1, <4>1 DEF Cancel, Typed, Shaped, Inv, RowOK, Row, Lifecycle!Pending
    <3>2. CASE Edit(q, c)
      <4>1. PICK at, expiry, op : Update(c, row[c], at, expiry, op)
        BY <3>2 DEF Edit, Has, Shared
      <4>2. row[c].status \in Lifecycle!Pending /\ row \in [Change -> Row]
        BY <1>1, <4>1 DEF Update, Editable, Lifecycle!Pending, Typed, Inv, RowOK
      <4>3. PICK s \in {"draft", "scheduled"} : row'[c].status = s
        BY <4>1, <4>2 DEF Update, Row
      <4>4. \A d \in Change \ {c} : row'[d] = row[d]
        BY <4>1, <4>2 DEF Update
      <4> QED BY <4>2, <4>3, <4>4
    <3> QED BY <1>4, <3>1, <3>2
  <2>2. row[c].status # "running"
    BY <2>1 DEF Lifecycle!Pending
  <2>3. Lifecycle!Become({c}, s)
    BY <2>1, <2>2, Becomes
  <2>4. Lifecycle!Edit(c)
    BY <1>4, <2>1, <2>3 DEF Lifecycle!Edit, Holders
  <2> QED BY <2>4 DEF LStep, Lifecycle!Next
<1>5. ASSUME FinishRevert(q), UNCHANGED Holders PROVE LStep
  <2>1. PICK c \in Change : c = job[q].change
    BY <1>1, <1>5 DEF FinishRevert, Typed, Shaped, JobOK
  <2>2. CASE MarkReverted(c, row[c])
    <3>1. /\ row[c].status = "applied" /\ row'[c].status = "reverted"
          /\ \A d \in Change \ {c} : row'[d].status = row[d].status
      BY <1>1, <2>2 DEF MarkReverted, Typed, Shaped, Inv, RowOK, Row
    <3>2. Lifecycle!Become({c}, "reverted")
      BY <3>1, Becomes
    <3>3. Lifecycle!Revert(c)
      BY <1>5, <3>1, <3>2 DEF Lifecycle!Revert, Holders
    <3> QED BY <3>3 DEF LStep, Lifecycle!Next
  <2>3. CASE UNCHANGED row
    BY <1>5, <2>3, Stutter DEF Statuses
  <2> QED BY <1>5, <2>1, <2>2, <2>3 DEF FinishRevert
<1>6. ASSUME \/ Refuse(q) \/ DeliverRevert(q) \/ RevertFails(q)
             \/ \E c \in Change : ReadRow(q, c) \/ BeginRevert(q, c),
             UNCHANGED Holders
      PROVE  LStep
  BY <1>6, Stutter DEF Refuse, DeliverRevert, RevertFails, ReadRow, BeginRevert, Statuses
<1> QED BY <1>2, <1>3, <1>4, <1>5, <1>6 DEF RequestStep

LEMMA NextRefines ==
    ASSUME Faults \cap {"slow", "shared_db"} = {}, Safe, Safe', [SchedulerNext]_vars
    PROVE  LStep
<1>1. Typed
  BY DEF Safe
<1>2. ASSUME UNCHANGED <<pc, job>> PROVE UNCHANGED Holders
  <2>1. Unmoved({})
    BY <1>2 DEF Unmoved, Executing
  <2> QED BY <2>1, HoldersStay
<1>3. ASSUME NEW c \in Change, Submit(c) PROVE LStep
  <2>1. PICK s \in {"draft", "scheduled", "applied", "failed"} :
          /\ row[c].status = "absent" /\ row'[c].status = s
          /\ \A d \in Change \ {c} : row'[d].status = row[d].status
    <3>1. CASE \E at, expiry \in ClientTimes, op \in OpChoice : Create(c, at, expiry, op)
      <4>1. PICK at, expiry, op : Create(c, at, expiry, op)
        BY <3>1
      <4>2. row'[c].status \in {"draft", "scheduled"} /\ row[c].status = "absent"
        BY <1>1, <4>1 DEF Create, NoRow, Typed, Shaped, Inv
      <4>3. \A d \in Change \ {c} : row'[d] = row[d]
        BY <1>1, <4>1 DEF Create, Typed, Shaped, Inv
      <4> QED BY <4>2, <4>3
    <3>2. CASE \E outcome \in {"applied", "failed"}, op \in OpChoice :
                  RecordExternalChange(c, outcome, op)
      BY <1>1, <3>2 DEF RecordExternalChange, NoRow, Typed, Shaped, Inv
    <3> QED BY <1>3, <3>1, <3>2 DEF Submit
  <2>2. Lifecycle!Become({c}, s) /\ UNCHANGED Holders
    BY <1>2, <1>3, <2>1, Becomes DEF Submit
  <2>3. Lifecycle!Submit(c)
    BY <2>1, <2>2 DEF Lifecycle!Submit, Holders
  <2> QED BY <2>3 DEF LStep, Lifecycle!Next
<1>4. CASE \/ \E k \in Key : RefreshZone(k)
           \/ \E k \in Key, rrset \in RRset : External(k, rrset)
           \/ Pass \/ UNCHANGED vars
  <2>1. UNCHANGED <<row, pc, job>>
    BY <1>4 DEF RefreshZone, External, Pass, vars
  <2> QED BY <1>2, <2>1, Stutter DEF Statuses
<1>5. ASSUME NEW e \in Exec, Crash(e) PROVE LStep
  <2>1. \A f \in Exec : ~Executing(f)'
    BY <1>5, Labels DEF Crash, Process, Shared, Executing
  <2>2. \A c \in Change : Holder(c)' = None
    BY <2>1 DEF Holder
  <2>3. \A c \in Change : Holders[c] = None \/ Holders[c] \in Exec
    BY HoldersFitNow DEF HoldersFit, Holders
  <2>4. Holders' = [c \in Change |-> IF Holders[c] \in Exec THEN None ELSE Holders[c]]
    BY <2>2, <2>3 DEF Holders
  <2>5. UNCHANGED Statuses
    BY <1>5 DEF Crash, Statuses
  <2>6. Lifecycle!Drop(Exec)
    BY <2>4, <2>5 DEF Lifecycle!Drop, Statuses, Holders
  <2> QED BY <2>6 DEF LStep, Lifecycle!Next
<1> QED BY <1>3, <1>4, <1>5, LoopRefines, ExecuteRefines, RequestRefines DEF SchedulerNext

LEMMA InitRefines == SchedulerInit => Lifecycle!Init
<1> SUFFICES ASSUME SchedulerInit PROVE Lifecycle!Init
  OBVIOUS
<1>1. \A e \in Exec : ~Executing(e)
  BY Labels DEF SchedulerInit, Executing
<1>2. \A c \in Change : row[c].status = "absent"
  BY DEF SchedulerInit, Init, NoRow
<1> QED BY <1>1, <1>2 DEF Lifecycle!Init, Holder

\* The store, the loops, the executions and the API together implement the lifecycle of
\* a change, as long as no execution outlasts its lease and one process serialises the
\* transactions: whatever crashes or fails, a change under execution has one holder, and
\* only he decides what becomes of it.
THEOREM ImplementsAlways ==
    ASSUME Faults \cap {"slow", "shared_db"} = {}
    PROVE  SchedulerSpec => Implements
<1>1. Safe /\ [SchedulerNext]_vars => Safe'
  BY SafeNext
<1>2. Safe /\ Safe' /\ [SchedulerNext]_vars => [Lifecycle!Next]_(Lifecycle!lifecycleVars)
  BY NextRefines DEF LStep
<1> QED
  BY <1>1, <1>2, SafeInit, InitRefines, PTL DEF SchedulerSpec, Implements, Lifecycle!Spec
--------------------------------------------------------------------------------
(* What is reported of a change *)

Over == {"applied", "reverted", "purged"}

\* The server carried out what e has in hand.
Answered(e) == done[job[e].change] # None /\ done[job[e].change].op = job[e].op

\* The inductive invariant: the operation an execution sends has its snapshot stored, and
\* the answer it holds is for that operation.
EffectOK ==
    /\ EffectIsReported
    /\ \A e \in Exec :
          /\ pc[e] \in {"sent", "accepted"} => row[job[e].change].snap # NoSnapshot
          /\ pc[e] = "accepted" => Answered(e)

\* Nobody executes c.
Free(c) == \A e \in Exec : Executing(e) => job[e].change # c

\* The row of c is left alone, or it is nobody's and no outcome comes of it,
Unaffected(c) ==
    \/ row'[c] = row[c]
    \/ /\ Free(c)
       /\ row[c].status \in Over => row'[c].status \in Over
       /\ row'[c].status = "applied" => row'[c].attempts = 0

\* and it ends only by being purged.
Aside(c) ==
    \/ row'[c] = row[c]
    \/ /\ Unaffected(c)
       /\ row[c].status \in Over => row'[c].status = "purged"
       /\ row'[c].status # "reverted"

\* What a loop or request does while it has an RRset at hand.
InHand == {"captured", "sent", "accepted", "revert_sent", "revert_accepted"}

\* Nobody comes to a label of S, and nobody lets go of an answer.
Quiet(S) ==
    \A e \in Exec :
        /\ pc'[e] \in S => pc'[e] = pc[e] /\ job'[e] = job[e]
        /\ pc[e] = "accepted" => pc'[e] = "accepted" /\ job'[e] = job[e]

LEMMA QuietStep ==
    ASSUME Shaped, NEW e \in Exec, NEW S, NEW label, label \notin S, pc[e] # "accepted",
           pc' = [pc EXCEPT ![e] = label],
           UNCHANGED job \/ \E j : job' = [job EXCEPT ![e] = j]
    PROVE  Quiet(S)
<1>1. \A f \in Exec \ {e} : pc'[f] = pc[f] /\ job'[f] = job[f]
  BY DEF Shaped
<1>2. pc'[e] = label
  BY DEF Shaped
<1> QED BY <1>1, <1>2 DEF Quiet

\* The executor of a change that has no answer yet: the change had no effect.
LEMMA NotYet ==
    ASSUME Safe, EffectOK, NEW e \in Exec, Executing(e), pc[e] # "accepted"
    PROVE  done[job[e].change] = None
<1>1. row[job[e].change].status = "running" /\ job[e].change \in Change
  BY DEF Safe, Holds, Typed, Shaped, JobOK, Executing
<1>2. ~\E f \in Exec : pc[f] = "accepted" /\ job[f].change = job[e].change
  BY Labels DEF Safe, MutualExclusion, Executing
<1> QED BY <1>1, <1>2 DEF EffectOK, EffectIsReported

LEMMA EffectAside ==
    ASSUME Safe, EffectOK, \A c \in Change : Unaffected(c), Quiet({"sent", "accepted"}),
           UNCHANGED done
    PROVE  EffectOK'
<1>1. ASSUME NEW c \in Change
      PROVE  /\ row'[c].status = "applied" /\ row'[c].attempts > 0 =>
                   /\ done'[c] # None /\ done'[c].op = row'[c].op
                   /\ row'[c].snap # NoSnapshot
             /\ done'[c] # None =>
                   \/ row'[c].status \in {"applied", "reverted", "purged"}
                   \/ \E e \in Exec : pc'[e] = "accepted" /\ job'[e].change = c
  <2>1. CASE row'[c] = row[c]
    BY <2>1 DEF EffectOK, EffectIsReported, Quiet
  <2>2. CASE row'[c] # row[c]
    <3>1. ~(row'[c].status = "applied" /\ row'[c].attempts > 0)
      BY <2>2 DEF Unaffected
    <3>2. ASSUME done'[c] # None PROVE row'[c].status \in Over
      <4>1. \A e \in Exec : ~(pc[e] = "accepted" /\ job[e].change = c)
        BY <2>2, Labels DEF Unaffected, Free, Executing
      <4>2. row[c].status \in Over
        BY <3>2, <4>1 DEF EffectOK, EffectIsReported, Over
      <4> QED BY <2>2, <4>2 DEF Unaffected
    <3> QED BY <3>1, <3>2 DEF Over
  <2> QED BY <2>1, <2>2
<1>2. EffectIsReported'
  BY <1>1 DEF EffectIsReported
<1>3. ASSUME NEW e \in Exec, pc'[e] \in {"sent", "accepted"}
      PROVE  /\ pc'[e] = pc[e] /\ job'[e] = job[e]
             /\ row'[job[e].change] = row[job[e].change]
  <2>1. pc'[e] = pc[e] /\ job'[e] = job[e]
    BY <1>3 DEF Quiet
  <2>2. Executing(e) /\ job[e].change \in Change
    BY <1>3, <2>1, Labels DEF Executing, Safe, Typed, Shaped, JobOK
  <2> QED BY <2>1, <2>2 DEF Unaffected, Free
<1> QED BY <1>2, <1>3 DEF EffectOK, Answered

\* A loop does not meddle with what is executed or over.
LEMMA LoopAside ==
    ASSUME Safe, NEW w \in Worker, LoopStep(w)
    PROVE  /\ \A c \in Change : Aside(c)
           /\ Quiet(InHand) /\ UNCHANGED <<dns, cache, done>>
<1>1. w \in Exec /\ Shaped
  BY DEF Exec, Safe, Typed
<1>2. ASSUME NEW c \in Change, row'[c] = Swept(row[c]) PROVE Aside(c)
  <2>1. CASE Overdue(row[c])
    <3>1. row[c].status = "scheduled" /\ row'[c].status = "expired"
      BY <1>1, <1>2, <2>1 DEF Swept, Overdue, Shaped, StoreShaped, RowShaped, Row
    <3>2. Free(c)
      BY <3>1, NotExecuted DEF Free
    <3> QED BY <3>1, <3>2 DEF Aside, Unaffected, Over
  <2>2. CASE ~Overdue(row[c])
    BY <1>2, <2>2 DEF Swept, Aside
  <2> QED BY <2>1, <2>2
<1>3. CASE ExpireTick(w) \/ IdleTick(w)
  <2>1. \A c \in Change : Aside(c)
    BY <1>2, <1>3 DEF ExpireTick, IdleTick, ClaimNone, ExpireOverdue
  <2>2. Quiet(InHand)
    BY <1>1, <1>3, QuietStep DEF ExpireTick, IdleTick, Goto, InHand
  <2> QED BY <1>3, <2>1, <2>2 DEF ExpireTick, IdleTick
<1>4. ASSUME NEW gone \in SUBSET Change, Retain(w, gone)
      PROVE  /\ \A c \in Change : Aside(c)
             /\ Quiet(InHand) /\ UNCHANGED <<dns, cache, done>>
  <2>1. ASSUME NEW c \in Change PROVE Aside(c)
    <3>1. CASE c \in gone
      <4>1. row'[c].status = "purged" /\ row[c].status # "running"
        BY <1>4, <3>1, PurgeAssumption DEF Retain, Purge, Purgeable, NoRow
      <4>2. Free(c)
        BY <4>1, NotExecuted DEF Free
      <4> QED BY <4>1, <4>2 DEF Aside, Unaffected, Over
    <3>2. CASE c \notin gone
      BY <1>4, <3>2 DEF Retain, Purge, Aside
    <3> QED BY <3>1, <3>2
  <2>2. Quiet(InHand)
    BY <1>1, <1>4, QuietStep DEF Retain, Goto, InHand
  <2> QED BY <1>4, <2>1, <2>2 DEF Retain
<1>5. ASSUME NEW x \in Change, Claim(w, x)
      PROVE  /\ \A c \in Change : Aside(c)
             /\ Quiet(InHand) /\ UNCHANGED <<dns, cache, done>>
  <2>1. row[x].status = "scheduled" \/ (row[x].status = "running" /\ LeaseExpired(row[x]))
    BY <1>1, <1>5, ClaimedRow DEF Claim
  <2>2. row'[x].status = "running"
    BY <1>1, <1>5 DEF Claim, ClaimDue, Shaped, StoreShaped, RowShaped, Row
  <2>3. Free(x)
    BY <2>1, NotExecuted DEF Free
  <2>4. Aside(x)
    BY <2>1, <2>2, <2>3 DEF Aside, Unaffected, Over
  <2>5. \A c \in Change \ {x} : row'[c] = Swept(row[c])
    BY <1>5 DEF Claim, ClaimDue
  <2>6. Quiet(InHand)
    BY <1>1, <1>5, QuietStep DEF Claim, Begin, Goto, InHand
  <2> QED BY <1>2, <1>5, <2>4, <2>5, <2>6 DEF Claim
<1> QED BY <1>3, <1>4, <1>5 DEF LoopStep

\* Nor does a request, but for a revert,
LEMMA RequestAside ==
    ASSUME "shared_db" \notin Faults, Safe, NEW q \in Request,
           \/ \E c \in Change : \/ ReadRow(q, c) \/ Edit(q, c) \/ CancelRequest(q, c)
                                \/ ApplyNow(q, c)
           \/ Refuse(q) \/ RevertFails(q)
    PROVE  /\ \A c \in Change : Aside(c)
           /\ Quiet(InHand) /\ UNCHANGED <<dns, cache, done>>
<1>1. q \in Exec /\ Shaped
  BY DEF Exec, Safe, Typed
<1>2. ASSUME NEW x \in Change, Edit(q, x) \/ CancelRequest(q, x) \/ ApplyNow(q, x)
      PROVE  /\ \A c \in Change : Aside(c)
             /\ Quiet(InHand) /\ UNCHANGED <<dns, cache, done>>
  <2>1. /\ row[x].status \in {"draft", "scheduled", "failed"}
        /\ row'[x].status \in {"draft", "scheduled", "cancelled", "running"}
        /\ \A c \in Change \ {x} : row'[c] = row[c]
    <3>0. row[x] \in Row /\ row = [c \in Change |-> row[c]]
      BY <1>1 DEF Shaped, StoreShaped, RowShaped
    <3>1. CASE Edit(q, x)
      <4>1. PICK at, expiry, op : Update(x, row[x], at, expiry, op)
        BY <3>1 DEF Edit, Has, Shared
      <4> QED BY <3>0, <4>1 DEF Update, Editable, Row
    <3>2. CASE CancelRequest(q, x)
      <4>1. Cancel(x, row[x])
        BY <3>2 DEF CancelRequest, Has, Shared
      <4> QED BY <3>0, <4>1 DEF Cancel, Row
    <3>3. CASE ApplyNow(q, x)
      <4>1. MarkRunning(x, row[x])
        BY <3>3 DEF ApplyNow, Has, Shared
      <4> QED BY <3>0, <4>1 DEF MarkRunning, Row
    <3> QED BY <1>2, <3>1, <3>2, <3>3
  <2>2. Free(x)
    BY <2>1, NotExecuted DEF Free
  <2>3. \A c \in Change : Aside(c)
    BY <2>1, <2>2 DEF Aside, Unaffected, Over
  <2>4. Quiet(InHand)
    BY <1>1, <1>2, QuietStep
       DEF Edit, CancelRequest, ApplyNow, Has, Shared, Finish, Begin, Goto, InHand
  <2> QED BY <1>2, <2>3, <2>4 DEF Edit, CancelRequest, ApplyNow
<1>3. CASE RevertFails(q) \/ Refuse(q)
  <2>1. Quiet(InHand)
    BY <1>1, <1>3, QuietStep DEF RevertFails, Refuse, Finish, Goto, InHand
  <2> QED BY <1>3, <2>1 DEF RevertFails, Refuse, Aside
<1>4. ASSUME NEW c \in Change, ReadRow(q, c) PROVE FALSE
  BY <1>4 DEF ReadRow, Shared
<1> QED BY <1>2, <1>3, <1>4

\* nor a client that submits a change.
LEMMA SubmitAside ==
    ASSUME Safe, NEW x \in Change, Submit(x)
    PROVE  /\ \A c \in Change : Aside(c)
           /\ Quiet(InHand) /\ UNCHANGED <<dns, cache, done>>
<1>0. row = [c \in Change |-> row[c]]
  BY DEF Safe, Typed, Shaped, StoreShaped
<1>1. /\ row[x].status = "absent" /\ \A c \in Change \ {x} : row'[c] = row[c]
      /\ row'[x].status \in {"draft", "scheduled", "applied", "failed"}
      /\ row'[x].status = "applied" => row'[x].attempts = 0
  <2>1. CASE \E at, expiry \in ClientTimes, op \in OpChoice : Create(x, at, expiry, op)
    <3>1. PICK at, expiry, op : Create(x, at, expiry, op)
      BY <2>1
    <3>2. row'[x].status \in {"draft", "scheduled"} /\ row[x].status = "absent"
      BY <1>0, <3>1 DEF Create, NoRow
    <3> QED BY <1>0, <3>1, <3>2 DEF Create
  <2>2. CASE \E outcome \in {"applied", "failed"}, op \in OpChoice :
                RecordExternalChange(x, outcome, op)
    BY <1>0, <2>2 DEF RecordExternalChange, NoRow
  <2> QED BY <2>1, <2>2 DEF Submit
<1>2. Free(x)
  BY <1>1, NotExecuted DEF Free
<1>3. \A c \in Change : Aside(c)
  BY <1>1, <1>2 DEF Aside, Unaffected, Over
<1> QED BY <1>3 DEF Submit, Quiet

\* A step of an execution: what it reports is what the server did.
LEMMA ExecuteEffect ==
    ASSUME Faults \cap {"slow", "shared_db", "crash", "lost_response", "store_error"} = {},
           Safe, EffectOK, NEW e \in Exec, ExecuteStep(e)
    PROVE  EffectOK'
<1> DEFINE c == job[e].change
<1>1. /\ Executing(e) /\ c \in Change /\ row[c].status = "running" /\ row[c].op = job[e].op
      /\ row[c] \in Row /\ row = [d \in Change |-> row[d]]
      /\ Shaped /\ Exists(row[c])
  <2>1. Executing(e)
    BY DEF ExecuteStep, Capture, SaveAndSend, Deliver, Reject, SendFails, LoseOutcome, Applied,
       Failed, SaveFails, Executing, ExecutingAt
  <2> QED BY <2>1 DEF Safe, Holds, Typed, Shaped, StoreShaped, RowShaped, JobOK, Executing,
             Exists, Missing
<1>2. \A f \in Exec \ {e} : Executing(f) => job[f].change \in Change \ {c}
  BY <1>1 DEF Safe, MutualExclusion, Shaped, JobOK, Executing
<1>3. CASE Capture(e) \/ Reject(e) \/ SendFails(e) \/ SaveFails(e)
  <2>1. \A d \in Change : Unaffected(d)
    BY <1>3 DEF Capture, Reject, SendFails, SaveFails, Unaffected
  <2>2. Quiet({"sent", "accepted"})
    <3>1. CASE Capture(e)
      <4>1. PICK j : job' = [job EXCEPT ![e] = j]
        BY <1>1, <3>1 DEF Capture, Shaped
      <4> QED BY <1>1, <3>1, <4>1, QuietStep DEF Capture, Goto
    <3> QED BY <1>1, <1>3, <3>1, QuietStep DEF Reject, SendFails, SaveFails, Goto
  <2> QED BY <1>3, <2>1, <2>2, EffectAside DEF Capture, Reject, SendFails, SaveFails
<1>4. CASE SaveAndSend(e)
  <2>1. /\ row'[c].status = row[c].status /\ row'[c].snap = job[e].base
        /\ \A d \in Change \ {c} : row'[d] = row[d]
    BY <1>1, <1>4 DEF SaveAndSend, SaveSnapshots, Row
  <2>2. job[e].base # NoSnapshot
    BY <1>1, <1>4, SchedulerAssumption, NullsAssumption DEF SaveAndSend, Shaped, JobOK
  <2>3. /\ UNCHANGED done /\ pc[e] = "captured" /\ pc'[e] # "accepted" /\ job'[e].change = c
        /\ \A f \in Exec \ {e} : pc'[f] = pc[f] /\ job'[f] = job[f]
    BY <1>1, <1>4 DEF SaveAndSend, Begin, Goto, Shaped, Job
  <2>4. EffectIsReported'
    BY <1>1, <2>1, <2>3 DEF EffectOK, EffectIsReported
  <2>5. ASSUME NEW f \in Exec
        PROVE  /\ pc'[f] \in {"sent", "accepted"} => row'[job'[f].change].snap # NoSnapshot
               /\ pc'[f] = "accepted" => Answered(f)'
    <3>1. CASE f = e
      BY <2>1, <2>2, <2>3, <3>1
    <3>2. CASE f # e /\ pc'[f] \in {"sent", "accepted"}
      <4>1. job[f].change \in Change \ {c}
        BY <1>2, <2>3, <3>2, Labels DEF Executing
      <4> QED BY <2>1, <2>3, <3>2, <4>1 DEF EffectOK, Answered
    <3> QED BY <3>1, <3>2
  <2> QED BY <2>4, <2>5 DEF EffectOK
<1>5. CASE Deliver(e)
  <2>1. /\ pc[e] = "sent" /\ pc' = [pc EXCEPT ![e] = "accepted"] /\ UNCHANGED <<row, job>>
    BY <1>5 DEF Deliver, Goto
  <2>2. /\ done'[c] # None /\ done'[c].op = job[e].op
        /\ \A d \in Change \ {c} : done'[d] = done[d]
    <3>1. dns[Target[c]] \in RRset /\ job[e].op \in Op
      BY <1>1, SchedulerAssumption DEF Shaped, JobOK, Executing
    <3>2. [op |-> job[e].op, before |-> dns[Target[c]]] # None
      BY <1>1, <3>1, SchedulerAssumption
    <3> QED BY <1>1, <1>5, <3>2 DEF Deliver, Shaped
  <2>3. pc'[e] = "accepted" /\ \A f \in Exec \ {e} : pc'[f] = pc[f]
    BY <2>1 DEF Shaped, Safe, Typed
  <2>4. EffectIsReported'
    <3>1. ASSUME NEW d \in Change \ {c}, done'[d] # None
          PROVE  \/ row'[d].status \in {"applied", "reverted", "purged"}
                 \/ \E f \in Exec : pc'[f] = "accepted" /\ job'[f].change = d
      BY <2>1, <2>2, <2>3, <3>1 DEF EffectOK, EffectIsReported
    <3> QED BY <1>1, <2>1, <2>2, <2>3, <3>1 DEF EffectOK, EffectIsReported
  <2>5. ASSUME NEW f \in Exec, pc'[f] \in {"sent", "accepted"}
        PROVE  row'[job'[f].change].snap # NoSnapshot /\ (pc'[f] = "accepted" => Answered(f)')
    <3>1. CASE f = e
      BY <2>1, <2>2, <3>1 DEF EffectOK, Answered
    <3>2. CASE f # e
      <4>1. job[f].change \in Change \ {c}
        BY <1>2, <2>3, <2>5, <3>2, Labels DEF Executing
      <4> QED BY <2>1, <2>2, <2>3, <2>5, <3>2, <4>1 DEF EffectOK, Answered
    <3> QED BY <3>1, <3>2
  <2> QED BY <2>4, <2>5 DEF EffectOK
<1>6. CASE Applied(e)
  <2>1. /\ pc[e] = "accepted" /\ MarkApplied(c) /\ Finish(e) /\ UNCHANGED done
    BY <1>1, <1>6 DEF Applied
  <2>2. /\ row'[c].status = "applied" /\ row'[c].op = row[c].op /\ row'[c].snap = row[c].snap
        /\ \A d \in Change \ {c} : row'[d] = row[d]
    BY <1>1, <2>1 DEF MarkApplied, Row
  <2>3. /\ pc'[e] = "idle" /\ \A f \in Exec \ {e} : pc'[f] = pc[f] /\ job'[f] = job[f]
    BY <1>1, <2>1 DEF Finish, Goto, Shaped
  <2>4. row[c].snap # NoSnapshot /\ done[c] # None /\ done[c].op = row[c].op
    BY <1>1, <2>1 DEF EffectOK, Answered
  <2>5. EffectIsReported'
    <3>1. ASSUME NEW d \in Change \ {c}, done'[d] # None
          PROVE  \/ row'[d].status \in {"applied", "reverted", "purged"}
                 \/ \E f \in Exec : pc'[f] = "accepted" /\ job'[f].change = d
      BY <2>1, <2>2, <2>3, <3>1 DEF EffectOK, EffectIsReported
    <3> QED BY <2>1, <2>2, <2>4, <3>1 DEF EffectOK, EffectIsReported
  <2>6. ASSUME NEW f \in Exec, pc'[f] \in {"sent", "accepted"}
        PROVE  row'[job'[f].change].snap # NoSnapshot /\ (pc'[f] = "accepted" => Answered(f)')
    <3>1. f # e /\ pc[f] \in {"sent", "accepted"} /\ job'[f] = job[f] /\ pc'[f] = pc[f]
      BY <2>3, <2>6
    <3>2. job[f].change \in Change \ {c}
      BY <1>2, <3>1, Labels DEF Executing
    <3> QED BY <2>1, <2>2, <3>1, <3>2 DEF EffectOK, Answered
  <2> QED BY <2>5, <2>6 DEF EffectOK
<1>7. CASE Failed(e)
  <2>1. /\ pc[e] = "failing" /\ MarkFailed(c, row[c]) /\ Finish(e) /\ UNCHANGED done
    BY <1>1, <1>7 DEF Failed
  <2>2. /\ row'[c].status \in {"scheduled", "failed"}
        /\ \A d \in Change \ {c} : row'[d] = row[d]
    BY <1>1, <2>1 DEF MarkFailed, Row
  <2>3. /\ pc'[e] = "idle" /\ \A f \in Exec \ {e} : pc'[f] = pc[f] /\ job'[f] = job[f]
    BY <1>1, <2>1 DEF Finish, Goto, Shaped
  <2>4. done[c] = None
    BY <1>1, <2>1, NotYet
  <2>5. EffectIsReported'
    <3>1. ASSUME NEW d \in Change \ {c}, done'[d] # None
          PROVE  \/ row'[d].status \in {"applied", "reverted", "purged"}
                 \/ \E f \in Exec : pc'[f] = "accepted" /\ job'[f].change = d
      BY <2>1, <2>2, <2>3, <3>1 DEF EffectOK, EffectIsReported
    <3> QED BY <2>1, <2>2, <2>4, <3>1 DEF EffectOK, EffectIsReported
  <2>6. ASSUME NEW f \in Exec, pc'[f] \in {"sent", "accepted"}
        PROVE  row'[job'[f].change].snap # NoSnapshot /\ (pc'[f] = "accepted" => Answered(f)')
    <3>1. f # e /\ pc[f] \in {"sent", "accepted"} /\ job'[f] = job[f] /\ pc'[f] = pc[f]
      BY <2>3, <2>6
    <3>2. job[f].change \in Change \ {c}
      BY <1>2, <3>1, Labels DEF Executing
    <3> QED BY <2>1, <2>2, <3>1, <3>2 DEF EffectOK, Answered
  <2> QED BY <2>5, <2>6 DEF EffectOK
<1>8. ~LoseOutcome(e)
  BY DEF LoseOutcome
<1> QED BY <1>3, <1>4, <1>5, <1>6, <1>7, <1>8 DEF ExecuteStep

\* A step of a revert.
LEMMA RevertEffectOK ==
    ASSUME Safe, EffectOK, NEW q \in Request,
           DeliverRevert(q) \/ FinishRevert(q) \/ \E c \in Change : BeginRevert(q, c)
    PROVE  EffectOK'
<1>1. q \in Exec /\ Shaped
  BY DEF Exec, Safe, Typed
<1>2. \A c \in Change : Unaffected(c)
  <2>1. CASE FinishRevert(q)
    <3>1. PICK x \in Change : x = job[q].change
      BY <1>1, <2>1 DEF FinishRevert, Shaped, JobOK
    <3>2. CASE MarkReverted(x, row[x])
      <4>1. /\ row[x].status = "applied" /\ row'[x].status = "reverted"
            /\ \A c \in Change \ {x} : row'[c] = row[c]
        BY <1>1, <3>2 DEF MarkReverted, Shaped, StoreShaped, RowShaped, Row
      <4>2. Free(x)
        BY <4>1, NotExecuted DEF Free
      <4> QED BY <4>1, <4>2 DEF Unaffected, Over
    <3> QED BY <2>1, <3>1, <3>2 DEF FinishRevert, Unaffected
  <2>2. CASE DeliverRevert(q) \/ \E c \in Change : BeginRevert(q, c)
    BY <2>2 DEF DeliverRevert, BeginRevert, Unaffected
  <2> QED BY <2>1, <2>2
<1>3. Quiet({"sent", "accepted"})
  <2>1. CASE DeliverRevert(q) \/ FinishRevert(q)
    BY <1>1, <2>1, QuietStep DEF DeliverRevert, FinishRevert, Finish, Goto
  <2>2. ASSUME NEW c \in Change, BeginRevert(q, c) PROVE Quiet({"sent", "accepted"})
    <3>1. PICK label \in {"revert_sent", "revert_accepted"} : \E j : Begin(q, label, j)
      BY <2>2 DEF BeginRevert
    <3> QED BY <1>1, <2>2, <3>1, QuietStep DEF BeginRevert, Begin, Goto
  <2> QED BY <2>1, <2>2
<1> QED BY <1>2, <1>3, EffectAside DEF DeliverRevert, FinishRevert, BeginRevert

LEMMA EffectNext ==
    ASSUME Faults \cap {"slow", "shared_db", "crash", "lost_response", "store_error"} = {},
           Safe, EffectOK, [SchedulerNext]_vars
    PROVE  EffectOK'
<1>1. ASSUME \A c \in Change : Aside(c), Quiet(InHand), UNCHANGED done PROVE EffectOK'
  <2>1. Quiet({"sent", "accepted"})
    BY <1>1 DEF Quiet, InHand
  <2> QED BY <1>1, <2>1, EffectAside DEF Aside, Unaffected
<1>2. ASSUME NEW q \in Request, RequestStep(q) PROVE EffectOK'
  BY <1>1, <1>2, RequestAside, RevertEffectOK DEF RequestStep
<1>3. CASE \/ \E k \in Key : RefreshZone(k)
           \/ \E k \in Key, rrset \in RRset : External(k, rrset)
           \/ Pass \/ UNCHANGED vars
  BY <1>1, <1>3 DEF RefreshZone, External, Pass, vars, Aside, Quiet
<1>4. ~\E e \in Exec : Crash(e)
  BY DEF Crash
<1> QED BY <1>1, <1>2, <1>3, <1>4, LoopAside, ExecuteEffect, SubmitAside DEF SchedulerNext

LEMMA EffectInit == SchedulerInit => EffectOK
BY DEF SchedulerInit, Init, NoRow, EffectOK, EffectIsReported

\* The report and the server agree: a change reported applied took effect, with the
\* operation it lists, and can be reverted; and no change that took effect is taken for
\* one that did not.  For this every answer must arrive and be stored; others may write
\* to the zone and the cache may be stale.
THEOREM EffectIsReportedAlways ==
    ASSUME Faults \cap {"slow", "shared_db", "crash", "lost_response", "store_error"} = {}
    PROVE  SchedulerSpec => []EffectIsReported
<1>1. Safe /\ EffectOK /\ [SchedulerNext]_vars => Safe' /\ EffectOK'
  BY SafeNext, EffectNext
<1>2. EffectOK => EffectIsReported
  BY DEF EffectOK
<1> QED
  BY <1>1, <1>2, SafeInit, EffectInit, PTL DEF SchedulerSpec

--------------------------------------------------------------------------------
(* What a revert restores *)

\* The inverse operations of a revert undo an operation, given the snapshot of the
\* RRset it met; an add must have met no RRset.
THEOREM RevertInverts ==
    ASSUME NEW op \in Operation, NEW rrset \in RRset, op.action = "add" => rrset = {}
    PROVE  RevertEffect(op, SnapshotOf(op, rrset), Effect(op, rrset)) = rrset
<1>1. CASE op.action = "add"
  BY <1>1 DEF RevertEffect, RevertDeletes, RevertAdds, SnapshotOf, Effect
<1>2. CASE op.action = "delete"
  BY <1>2 DEF RevertEffect, RevertDeletes, RevertAdds, SnapshotOf, Effect
<1>3. CASE op.action = "replace"
  BY <1>3 DEF RevertEffect, RevertDeletes, RevertAdds, SnapshotOf, Effect
<1> QED
  BY <1>1, <1>2, <1>3 DEF Operation

\* Undone twice, an operation is undone.
LEMMA RevertAgain ==
    ASSUME NEW op \in Operation, NEW rrset \in RRset, op.action = "add" => rrset = {}
    PROVE  RevertEffect(op, SnapshotOf(op, rrset), rrset) = rrset
BY DEF Operation, RevertEffect, RevertDeletes, RevertAdds, SnapshotOf

\* When the automatic prerequisites of an operation are those of the RRset its
\* snapshot shows and the server finds them to hold, reverting restores what the
\* server held: a stale snapshot cannot be restored, an add cannot take away
\* records it did not bring.
THEOREM PrerequisitesProtectRevert ==
    ASSUME NEW op \in Operation, op.auto, NEW view \in RRset, NEW rrset \in RRset,
           view # {} \/ op.action = "add",
           PrereqHolds(op, view, rrset)
    PROVE  RevertEffect(op, SnapshotOf(op, view), Effect(op, rrset)) = rrset
<1>1. CASE op.action = "add"
  <2>1. rrset = {}
    BY <1>1 DEF PrereqHolds
  <2>2. SnapshotOf(op, view) = SnapshotOf(op, rrset)
    BY <1>1 DEF SnapshotOf
  <2> QED
    BY <2>1, <2>2, RevertInverts
<1>2. CASE op.action # "add"
  <2>1. rrset = view
    BY <1>2 DEF PrereqHolds
  <2> QED
    BY <1>2, <2>1, RevertInverts
<1> QED
  BY <1>1, <1>2

\* A change that was never attempted has no snapshot, and is not running.
CountedRow(r) == r.attempts = 0 => r.snap = NoSnapshot /\ r.status # "running"
Counted == \A c \in Change : CountedRow(row[c])

LEMMA CountedNext ==
    ASSUME "shared_db" \notin Faults, Safe, Counted, [SchedulerNext]_vars
    PROVE  Counted'
<1>0. /\ Shaped /\ row = [c \in Change |-> row[c]]
      /\ \A c \in Change : row[c] \in Row /\ CountedRow(row[c])
  BY DEF Safe, Typed, Shaped, StoreShaped, RowShaped, Counted
<1>1. ASSUME NEW x \in Change, CountedRow(row'[x]), \A c \in Change \ {x} : row'[c] = row[c]
      PROVE  Counted'
  BY <1>0, <1>1 DEF Counted
<1>2. \A c \in Change : CountedRow(Swept(row[c])) /\ CountedRow(NoRow("purged"))
  BY <1>0 DEF CountedRow, Swept, Overdue, NoRow, Row
<1>3. ASSUME NEW w \in Worker, LoopStep(w) PROVE Counted'
  <2>1. CASE ExpireTick(w) \/ IdleTick(w)
    BY <1>2, <2>1 DEF ExpireTick, IdleTick, ClaimNone, ExpireOverdue, Counted
  <2>2. CASE \E gone \in SUBSET Change : Retain(w, gone)
    BY <1>0, <1>2, <2>2 DEF Retain, Purge, Counted
  <2>3. ASSUME NEW c \in Change, Claim(w, c) PROVE Counted'
    <3>1. row'[c].attempts = row[c].attempts + 1 /\ row[c].attempts \in Nat
      BY <1>0, <2>3 DEF Claim, ClaimDue, Row
    <3>2. CountedRow(row'[c])
      BY <3>1 DEF CountedRow
    <3> QED BY <1>2, <2>3, <3>2 DEF Claim, ClaimDue, Counted
  <2> QED BY <1>3, <2>1, <2>2, <2>3 DEF LoopStep
<1>4. ASSUME NEW e \in Exec, ExecuteStep(e) PROVE Counted'
  <2>1. CASE SaveAndSend(e)
    <3>1. PICK c \in Change : c = job[e].change /\ row[c].status = "running"
      BY <2>1, Labels DEF SaveAndSend, Safe, Holds, Executing, Typed, Shaped, JobOK
    <3>2. /\ row'[c].attempts = row[c].attempts /\ row'[c].status = row[c].status
          /\ \A d \in Change \ {c} : row'[d] = row[d]
      BY <1>0, <2>1, <3>1 DEF SaveAndSend, SaveSnapshots, Row
    <3> QED BY <1>0, <1>1, <3>1, <3>2 DEF CountedRow
  <2>2. CASE Applied(e) \/ Failed(e)
    <3>1. PICK c \in Change : c = job[e].change
      BY <1>0, <2>2, Labels DEF Applied, Failed, Shaped, JobOK
    <3>2. CASE MarkApplied(c) \/ MarkFailed(c, row[c])
      <4>1. /\ row'[c].attempts = row[c].attempts /\ row'[c].snap = row[c].snap
            /\ row'[c].status \in {"applied", "scheduled", "failed"}
            /\ \A d \in Change \ {c} : row'[d] = row[d]
        BY <1>0, <3>2 DEF MarkApplied, MarkFailed, Row
      <4> QED BY <1>0, <1>1, <4>1 DEF CountedRow
    <3> QED BY <1>0, <2>2, <3>1, <3>2 DEF Applied, Failed, Counted
  <2>3. CASE Capture(e) \/ Deliver(e) \/ Reject(e) \/ SendFails(e) \/ LoseOutcome(e)
             \/ SaveFails(e)
    BY <1>0, <2>3 DEF Capture, Deliver, Reject, SendFails, LoseOutcome, SaveFails, Counted
  <2> QED BY <1>4, <2>1, <2>2, <2>3 DEF ExecuteStep
<1>5. ASSUME NEW q \in Request, RequestStep(q) PROVE Counted'
  <2>1. ASSUME NEW c \in Change, Edit(q, c) PROVE Counted'
    <3>1. PICK at, expiry, op : Update(c, row[c], at, expiry, op)
      BY <2>1 DEF Edit, Has, Shared
    <3>2. /\ row'[c].attempts = row[c].attempts
          /\ row'[c].snap = row[c].snap \/ row'[c].snap = NoSnapshot
          /\ row'[c].status # "running" /\ \A d \in Change \ {c} : row'[d] = row[d]
      <4>1. row' = [row EXCEPT ![c] = row'[c]]
        BY <1>0, <3>1 DEF Update
      <4>2. row'[c].attempts = row[c].attempts
        BY <1>0, <3>1 DEF Update, Row
      <4>3. row'[c].snap = row[c].snap \/ row'[c].snap = NoSnapshot
        BY <1>0, <3>1 DEF Update, Row
      <4>4. row'[c].status # "running"
        BY <1>0, <3>1 DEF Update, Row
      <4> QED BY <1>0, <4>1, <4>2, <4>3, <4>4
    <3> QED BY <1>0, <1>1, <3>2 DEF CountedRow
  <2>2. ASSUME NEW c \in Change, CancelRequest(q, c) \/ ApplyNow(q, c) PROVE Counted'
    <3>1. Cancel(c, row[c]) \/ MarkRunning(c, row[c])
      BY <2>2 DEF CancelRequest, ApplyNow, Has, Shared
    <3>2. /\ \/ row'[c].attempts = row[c].attempts /\ row'[c].snap = row[c].snap
                /\ row'[c].status # "running"
             \/ row'[c].attempts = row[c].attempts + 1
          /\ \A d \in Change \ {c} : row'[d] = row[d]
      <4>1. CASE Cancel(c, row[c])
        BY <1>0, <4>1 DEF Cancel, Row
      <4>2. CASE MarkRunning(c, row[c])
        BY <1>0, <4>2 DEF MarkRunning, Row
      <4> QED BY <3>1, <4>1, <4>2
    <3>3. row[c].attempts \in Nat
      BY <1>0 DEF Row
    <3> QED BY <1>0, <1>1, <3>2, <3>3 DEF CountedRow
  <2>3. CASE FinishRevert(q)
    <3>1. PICK c \in Change : c = job[q].change
      BY <1>0, <2>3, Labels DEF FinishRevert, Shaped, JobOK, Exec
    <3>2. CASE MarkReverted(c, row[c])
      <4>1. /\ row'[c].attempts = row[c].attempts /\ row'[c].snap = row[c].snap
            /\ row'[c].status # "running" /\ \A d \in Change \ {c} : row'[d] = row[d]
        BY <1>0, <3>2 DEF MarkReverted, Row
      <4> QED BY <1>0, <1>1, <4>1 DEF CountedRow
    <3> QED BY <1>0, <2>3, <3>1, <3>2 DEF FinishRevert, Counted
  <2>4. CASE \/ Refuse(q) \/ DeliverRevert(q) \/ RevertFails(q)
             \/ \E c \in Change : ReadRow(q, c) \/ BeginRevert(q, c)
    BY <1>0, <2>4 DEF Refuse, DeliverRevert, RevertFails, ReadRow, BeginRevert, Counted
  <2> QED BY <1>5, <2>1, <2>2, <2>3, <2>4 DEF RequestStep
<1>6. ASSUME NEW c \in Change, Submit(c) PROVE Counted'
  <2>1. CASE \E at, expiry \in ClientTimes, op \in OpChoice : Create(c, at, expiry, op)
    <3>1. PICK at, expiry, op : Create(c, at, expiry, op)
      BY <2>1
    <3>2. /\ row'[c].snap = NoSnapshot /\ row'[c].status # "running"
          /\ \A d \in Change \ {c} : row'[d] = row[d]
      BY <1>0, <3>1 DEF Create, NoRow
    <3> QED BY <1>1, <3>2 DEF CountedRow
  <2>2. CASE \E outcome \in {"applied", "failed"}, op \in OpChoice :
                RecordExternalChange(c, outcome, op)
    <3>1. /\ row'[c].snap = NoSnapshot /\ row'[c].status # "running"
          /\ \A d \in Change \ {c} : row'[d] = row[d]
      BY <1>0, <2>2 DEF RecordExternalChange, NoRow
    <3> QED BY <1>1, <3>1 DEF CountedRow
  <2> QED BY <1>6, <2>1, <2>2 DEF Submit
<1>7. CASE \/ \E k \in Key : RefreshZone(k)
           \/ \E k \in Key, rrset \in RRset : External(k, rrset)
           \/ \E e \in Exec : Crash(e)
           \/ Pass \/ UNCHANGED vars
  BY <1>0, <1>7 DEF RefreshZone, External, Crash, Pass, vars, Counted
<1> QED BY <1>3, <1>4, <1>5, <1>6, <1>7 DEF SchedulerNext

LEMMA CountedInit == SchedulerInit => Counted
BY DEF SchedulerInit, Init, NoRow, Counted, CountedRow

\* Each change writes an RRset of its own.
OwnTargets == \A c, d \in Change : Target[c] = Target[d] => c = d

\* An add undoes nothing but what it did only if its prerequisite was sent.
Undoable(op) == op.action = "add" => op.auto

\* What the UPDATE for c should have found in its snapshot.
Prior(c) == SnapshotOf(done[c].op, done[c].before)

UpToDate(k) == [rrset |-> dns[k], behind |-> {}]

\* Until c takes effect, the cache shows its RRset as it is.
CacheFits(c) == done[c] = None => cache[Target[c]] \in {None, UpToDate(Target[c])}

\* Then its RRset is either what the change made of it or what it was before.
DoneFits(c) ==
    done[c] # None =>
        /\ done[c].op.action = "add" /\ done[c].op.auto => done[c].before = {}
        /\ Undoable(done[c].op) =>
              dns[Target[c]] \in {done[c].before, Effect(done[c].op, done[c].before)}

\* The snapshot of an applied change is what it found; once it is reverted that is back.
RowFits(c) ==
    /\ row[c].status = "applied" /\ row[c].attempts > 0 => row[c].snap = Prior(c)
    /\ row[c].status = "reverted" =>
          /\ done[c] # None /\ done[c].op = row[c].op
          /\ Undoable(row[c].op) => dns[Target[c]] = done[c].before

\* What an execution and a revert have at hand, step by step.
JobFits(e) ==
    LET c == job[e].change
    IN  /\ pc[e] = "captured" => job[e].base = SnapshotOf(job[e].op, dns[Target[c]])
        /\ pc[e] = "sent" => row[c].snap = SnapshotOf(job[e].op, dns[Target[c]])
        /\ pc[e] = "accepted" => row[c].snap = Prior(c)
        /\ pc[e] \in {"revert_sent", "revert_accepted"} =>
              /\ Answered(e) /\ job[e].base = Prior(c)
              /\ row[c].status \in Over
              /\ row[c].status = "applied" => row[c].attempts > 0
        /\ pc[e] = "revert_accepted" /\ Undoable(job[e].op) => dns[Target[c]] = done[c].before

Fits ==
    /\ \A c \in Change : CacheFits(c) /\ DoneFits(c) /\ RowFits(c)
    /\ \A e \in Exec : JobFits(e)

\* A refresh that succeeds leaves nothing stale.
LEMMA CacheNow ==
    ASSUME Faults = {}, Shaped, NEW k \in Key, cache[k] \in {None, UpToDate(k)},
           NEW v \in Refreshed(k) \cup Loaded(k)
    PROVE  v = UpToDate(k)
<1>1. dns[k] \in RRset
  BY DEF Shaped
<1>2. CASE cache[k] = None
  BY <1>2 DEF Refreshed, Loaded, Transferred, UpToDate
<1>3. CASE cache[k] = UpToDate(k) /\ cache[k] # None
  <2>1. (cache[k].rrset \ cache[k].behind) \cup (dns[k] \cap cache[k].behind) = dns[k]
    BY <1>1, <1>3 DEF UpToDate
  <2> QED BY <1>3, <2>1 DEF Refreshed, Loaded, Transferred, UpToDate
<1> QED BY <1>2, <1>3

LEMMA CacheStays ==
    ASSUME Faults = {}, Shaped, Fits, UNCHANGED <<dns, done>>, NEW k \in Key,
           \/ UNCHANGED cache
           \/ \E v \in Refreshed(k) \cup Loaded(k) : cache' = [cache EXCEPT ![k] = v]
    PROVE  \A c \in Change : CacheFits(c)'
<1> SUFFICES ASSUME NEW c \in Change, done[c] = None, ~UNCHANGED cache
             PROVE  cache'[Target[c]] \in {None, UpToDate(Target[c])}
  BY DEF Fits, CacheFits, UpToDate
<1>1. PICK v \in Refreshed(k) \cup Loaded(k) : cache' = [cache EXCEPT ![k] = v]
  OBVIOUS
<1>2. cache[Target[c]] \in {None, UpToDate(Target[c])} /\ Target[c] \in Key
  BY SchedulerAssumption DEF Fits, CacheFits
<1>3. Target[c] = k => v = UpToDate(k)
  BY <1>2, CacheNow
<1> QED BY <1>1, <1>2, <1>3 DEF Shaped

\* The RRset of c is in the hands of its executor alone.
LEMMA Alone ==
    ASSUME Safe, Fits, NEW e \in Exec, Executing(e), NEW f \in Exec \ {e}, pc[f] \in InHand
    PROVE  job[f].change \in Change /\ job[f].change # job[e].change
<1>1. job[f].change \in Change
  BY DEF Safe, Typed, Shaped, JobOK, ExecutingAt, InHand
<1>2. CASE Executing(f)
  BY <1>1, <1>2 DEF Safe, MutualExclusion
<1>3. CASE ~Executing(f)
  <2>1. row[job[f].change].status \in Over
    BY <1>3 DEF Executing, ExecutingAt, InHand, Fits, JobFits
  <2>2. row[job[e].change].status = "running"
    BY DEF Safe, Holds
  <2> QED BY <1>1, <2>1, <2>2 DEF Over
<1> QED BY <1>2, <1>3

\* The row of d is left aside, or its new state fits.
Fitting(d) ==
    \/ Aside(d)
    \/ /\ RowFits(d)'
       /\ \A f \in Exec : pc'[f] \in InHand /\ job'[f].change = d => JobFits(f)'

\* A step that writes to no RRset.
LEMMA FitsAside ==
    ASSUME Safe, EffectOK, Fits, Shaped', UNCHANGED <<dns, done>>,
           \A c \in Change : CacheFits(c)' /\ Fitting(c),
           \A f \in Exec : pc'[f] \in InHand =>
               (pc'[f] = pc[f] /\ job'[f] = job[f]) \/ JobFits(f)'
    PROVE  Fits'
<1>1. ASSUME NEW c \in Change PROVE DoneFits(c)'
  BY DEF Fits, DoneFits
<1>2. ASSUME NEW c \in Change PROVE RowFits(c)'
  <2>1. CASE row'[c] = row[c]
    BY <2>1 DEF Fits, RowFits, Prior
  <2>2. CASE row'[c] # row[c] /\ Aside(c)
    BY <2>2 DEF Aside, Unaffected, RowFits
  <2> QED BY <2>1, <2>2 DEF Fitting
<1>3. ASSUME NEW f \in Exec, pc'[f] \in InHand, pc'[f] = pc[f], job'[f] = job[f],
             Aside(job[f].change)
      PROVE  JobFits(f)'
  <2> DEFINE c == job[f].change
  <2>1. JobFits(f) /\ c \in Change
    BY <1>3 DEF Fits, Safe, Typed, Shaped, JobOK, ExecutingAt, InHand
  <2>2. CASE row'[c] = row[c]
    BY <1>3, <2>1, <2>2 DEF JobFits, Answered, Prior
  <2>3. CASE row'[c] # row[c]
    <3>1. pc[f] \in {"revert_sent", "revert_accepted"}
      BY <1>3, <2>3 DEF Aside, Unaffected, Free, Executing, ExecutingAt, InHand
    <3>2. row'[c].status = "purged"
      BY <1>3, <2>1, <2>3, <3>1 DEF Aside, JobFits
    <3> QED BY <1>3, <2>1, <3>1, <3>2 DEF JobFits, Answered, Prior, Over
  <2> QED BY <2>2, <2>3
<1>4. ASSUME NEW f \in Exec PROVE JobFits(f)'
  <2>1. CASE pc'[f] \notin InHand
    BY <2>1 DEF JobFits, InHand
  <2>2. CASE pc'[f] \in InHand /\ pc'[f] = pc[f] /\ job'[f] = job[f]
    <3>1. job[f].change \in Change
      BY <2>2 DEF Safe, Typed, Shaped, JobOK, ExecutingAt, InHand
    <3> QED BY <1>3, <2>2, <3>1 DEF Fitting
  <2> QED BY <2>1, <2>2
<1> QED BY <1>1, <1>2, <1>4 DEF Fits

\* A step that writes to the RRset of c, which is no other's.
LEMMA FitsElsewhere ==
    ASSUME OwnTargets, Safe, Fits, Shaped', UNCHANGED row, NEW c \in Change,
           \A d \in Change \ {c} : done'[d] = done[d],
           \A k \in Key \ {Target[c]} : dns'[k] = dns[k] /\ cache'[k] = cache[k],
           \A f \in Exec : pc'[f] \in InHand =>
               (pc'[f] = pc[f] /\ job'[f] = job[f] /\ job[f].change # c) \/ JobFits(f)',
           CacheFits(c)', DoneFits(c)', RowFits(c)'
    PROVE  Fits'
<1>1. \A d \in Change \ {c} : Target[d] \in Key \ {Target[c]}
  BY SchedulerAssumption DEF OwnTargets
<1>2. ASSUME NEW d \in Change \ {c} PROVE CacheFits(d)' /\ DoneFits(d)' /\ RowFits(d)'
  <2>1. /\ done'[d] = done[d] /\ row'[d] = row[d]
        /\ dns'[Target[d]] = dns[Target[d]] /\ cache'[Target[d]] = cache[Target[d]]
    BY <1>1
  <2>2. CacheFits(d) /\ DoneFits(d) /\ RowFits(d)
    BY DEF Fits
  <2>3. CacheFits(d)'
    BY <2>1, <2>2 DEF CacheFits, UpToDate
  <2>4. DoneFits(d)'
    BY <2>1, <2>2 DEF DoneFits
  <2>5. RowFits(d)'
    BY <2>1, <2>2 DEF RowFits, Prior
  <2> QED BY <2>3, <2>4, <2>5
<1>3. ASSUME NEW f \in Exec PROVE JobFits(f)'
  <2>1. CASE pc'[f] \notin InHand
    BY <2>1 DEF JobFits, InHand
  <2>2. CASE pc'[f] \in InHand /\ pc'[f] = pc[f] /\ job'[f] = job[f] /\ job[f].change # c
    <3>1. job[f].change \in Change \ {c}
      BY <2>2 DEF Safe, Typed, Shaped, JobOK, ExecutingAt, InHand
    <3> QED BY <1>1, <2>2, <3>1 DEF Fits, JobFits, Answered, Prior
  <2> QED BY <2>1, <2>2
<1> QED BY <1>2, <1>3 DEF Fits

\* A step of an execution.
LEMMA ExecuteFits ==
    ASSUME Faults = {}, OwnTargets, Safe, EffectOK, Fits, Shaped', NEW e \in Exec, ExecuteStep(e)
    PROVE  Fits'
<1>0. PICK c \in Change : c = job[e].change
  BY DEF ExecuteStep, Capture, SaveAndSend, Deliver, Reject, SendFails, LoseOutcome, Applied,
     Failed, SaveFails, ExecutingAt, Safe, Typed, Shaped, JobOK
<1> DEFINE k == Target[c]
<1>1. /\ Executing(e) /\ c = job[e].change /\ k \in Key
      /\ row[c].status = "running" /\ row[c].op = job[e].op
      /\ row[c] \in Row /\ row = [d \in Change |-> row[d]]
      /\ Shaped /\ Exists(row[c]) /\ JobFits(e)
      /\ job[e] \in Job /\ job[e].op \in Operation /\ dns[k] \in RRset
  <2>1. Executing(e)
    BY DEF ExecuteStep, Capture, SaveAndSend, Deliver, Reject, SendFails, LoseOutcome, Applied,
       Failed, SaveFails, Executing, ExecutingAt
  <2>2. k \in Key /\ job[e].op \in Operation
    BY <2>1, SchedulerAssumption DEF Safe, Typed, Shaped, JobOK, Executing
  <2> QED BY <1>0, <2>1, <2>2 DEF Safe, Holds, Typed, Shaped, StoreShaped, RowShaped, Executing,
             Exists, Missing, Fits
<1>2. /\ pc'[e] \in Label /\ \A f \in Exec \ {e} : pc'[f] = pc[f] /\ job'[f] = job[f]
  BY <1>1 DEF ExecuteStep, Capture, SaveAndSend, Deliver, Reject, SendFails, LoseOutcome,
     Applied, Failed, SaveFails, Finish, Begin, Goto, Shaped
<1>3. \A f \in Exec \ {e} : pc[f] \in InHand => job[f].change \in Change \ {c}
  BY <1>1, Alone
<1>4. pc[e] # "accepted" => done[c] = None
  BY <1>1, NotYet
<1> HIDE DEF k
<1>5. ASSUME UNCHANGED <<row, dns, done>>, JobFits(e)',
             \/ UNCHANGED cache
             \/ \E v \in Refreshed(k) \cup Loaded(k) : cache' = [cache EXCEPT ![k] = v]
      PROVE  Fits'
  <2>1. \A d \in Change : CacheFits(d)'
    BY <1>1, <1>5, CacheStays
  <2>2. \A d \in Change : Fitting(d)
    BY <1>5 DEF Fitting, Aside
  <2> QED BY <1>2, <1>5, <2>1, <2>2, FitsAside
<1>6. ASSUME UNCHANGED <<dns, done>>, RowFits(c)', pc'[e] \in InHand => JobFits(e)',
             \A d \in Change \ {c} : row'[d] = row[d], \A d \in Change : CacheFits(d)'
      PROVE  Fits'
  <2>1. ASSUME NEW f \in Exec, pc'[f] \in InHand, job'[f].change = c PROVE JobFits(f)'
    BY <1>2, <1>3, <1>6, <2>1
  <2>2. \A d \in Change : Fitting(d)
    BY <1>1, <1>6, <2>1 DEF Fitting, Aside
  <2> QED BY <1>2, <1>6, <2>2, FitsAside
<1>7. CASE Capture(e)
  <2>1. PICK v \in Refreshed(k) :
           /\ cache' = [cache EXCEPT ![k] = v]
           /\ job' = [job EXCEPT ![e].base = SnapshotOf(job[e].op, Seen(v))]
    BY <1>1, <1>7 DEF Capture, k
  <2>2. v = UpToDate(k)
    <3>1. cache[k] \in {None, UpToDate(k)}
      BY <1>1, <1>4, <1>7 DEF Capture, Fits, CacheFits, k
    <3> QED BY <1>1, <3>1, CacheNow
  <2>3. v \in View
    BY <1>1, <2>2 DEF UpToDate, View, RRset
  <2>4. Seen(v) = dns[k]
    BY <2>2, <2>3, SchedulerAssumption DEF Seen, UpToDate, View
  <2>5. /\ job'[e].base = SnapshotOf(job[e].op, dns[k]) /\ job'[e].op = job[e].op
        /\ job'[e].change = c /\ pc'[e] = "captured"
    BY <1>1, <1>7, <2>1, <2>4 DEF Capture, Goto, Shaped, Job
  <2>6. JobFits(e)'
    BY <1>1, <1>7, <2>5 DEF Capture, JobFits, k
  <2> QED BY <1>5, <1>7, <2>1, <2>6 DEF Capture
<1>8. CASE SaveAndSend(e)
  <2>1. /\ row'[c].status = row[c].status /\ row'[c].snap = job[e].base
        /\ \A d \in Change \ {c} : row'[d] = row[d]
    BY <1>1, <1>8 DEF SaveAndSend, SaveSnapshots, Row
  <2>2. PICK v \in Loaded(k), label \in {"sent", "failing"} :
          /\ cache' = [cache EXCEPT ![k] = v]
          /\ Begin(e, label, [job[e] EXCEPT !.base = Seen(v)])
    BY <1>1, <1>8 DEF SaveAndSend, k
  <2>3. /\ UNCHANGED <<dns, done>> /\ pc[e] = "captured" /\ pc'[e] \in {"sent", "failing"}
        /\ job'[e].change = c /\ job'[e].op = job[e].op
    BY <1>1, <1>8, <2>2 DEF SaveAndSend, Begin, Goto, Shaped, Job
  <2>4. RowFits(c)'
    BY <1>1, <2>1 DEF RowFits
  <2>5. JobFits(e)'
    BY <1>1, <2>1, <2>3 DEF JobFits
  <2>6. \A d \in Change : CacheFits(d)'
    BY <1>1, <2>2, <2>3, CacheStays
  <2> QED BY <1>6, <2>1, <2>3, <2>4, <2>5, <2>6
<1>9. CASE Deliver(e)
  <2>1. /\ pc[e] = "sent" /\ UNCHANGED <<row, job>> /\ pc' = [pc EXCEPT ![e] = "accepted"]
        /\ PrereqHolds(job[e].op, job[e].base, dns[k]) /\ Serve(k, Effect(job[e].op, dns[k]))
    BY <1>1, <1>9 DEF Deliver, Goto, k
  <2>2. /\ done' = [done EXCEPT ![c] = [op |-> job[e].op, before |-> dns[k]]]
        /\ done'[c].op = job[e].op /\ done'[c].before = dns[k]
    BY <1>1, <1>4, <1>9, <2>1 DEF Deliver, Shaped, k
  <2>3. /\ dns'[k] = Effect(job[e].op, dns[k])
        /\ \A x \in Key \ {k} : dns'[x] = dns[x] /\ cache'[x] = cache[x]
    BY <1>1, <2>1 DEF Serve, Shaped
  <2>4. CacheFits(c)'
    <3>1. [op |-> job[e].op, before |-> dns[k]] # None
      BY <1>1, SchedulerAssumption
    <3> QED BY <1>1, <2>2, <3>1 DEF CacheFits, Shaped
  <2>5. DoneFits(c)'
    <3>1. job[e].op.action = "add" /\ job[e].op.auto => dns[k] = {}
      BY <2>1 DEF PrereqHolds
    <3> QED BY <2>2, <2>3, <3>1 DEF DoneFits, k
  <2>6. RowFits(c)'
    BY <1>1, <2>1 DEF RowFits
  <2>7. JobFits(e)'
    <3>1. row[c].snap = SnapshotOf(job[e].op, dns[k]) /\ pc'[e] = "accepted"
      BY <1>1, <2>1 DEF JobFits, Shaped, k
    <3>2. job'[e].change = c /\ row'[c] = row[c]
      BY <1>1, <2>1
    <3> QED BY <2>2, <3>1, <3>2 DEF JobFits, Prior
  <2>8. \A f \in Exec \ {e} : pc'[f] = pc[f] /\ job'[f] = job[f]
    BY <1>2
  <2>9. \A f \in Exec : pc'[f] \in InHand =>
            (pc'[f] = pc[f] /\ job'[f] = job[f] /\ job[f].change # c) \/ JobFits(f)'
    BY <1>3, <2>7, <2>8
  <2>10. \A d \in Change \ {c} : done'[d] = done[d]
    BY <1>1, <2>2 DEF Shaped
  <2> QED BY <1>1, <2>1, <2>3, <2>4, <2>5, <2>6, <2>9, <2>10, FitsElsewhere DEF k
<1>10. CASE Reject(e)
  <2>1. /\ pc'[e] = "failing" /\ UNCHANGED <<row, dns, done>>
        /\ \E v \in Refreshed(k) : cache' = [cache EXCEPT ![k] = v]
    BY <1>1, <1>10 DEF Reject, Goto, SetCache, Shaped, k
  <2> QED BY <1>5, <2>1 DEF JobFits
<1>11. CASE SendFails(e)
  <2>1. pc'[e] = "failing" /\ UNCHANGED <<row, dns, cache, done>>
    BY <1>1, <1>11 DEF SendFails, Goto, Shaped
  <2> QED BY <1>5, <2>1 DEF JobFits
<1>12. CASE Applied(e)
  <2>1. /\ pc[e] = "accepted" /\ MarkApplied(c) /\ Finish(e) /\ UNCHANGED <<dns, done>>
        /\ \E v : cache' = [cache EXCEPT ![k] = v]
    BY <1>1, <1>12 DEF Applied, SetCache, k
  <2>2. /\ row'[c].status = "applied" /\ row'[c].snap = row[c].snap
        /\ \A d \in Change \ {c} : row'[d] = row[d]
    BY <1>1, <2>1 DEF MarkApplied, Row
  <2>3. pc'[e] = "idle"
    BY <1>1, <2>1 DEF Finish, Goto, Shaped
  <2>4. RowFits(c)'
    BY <1>1, <2>1, <2>2 DEF RowFits, JobFits, Prior
  <2>5. \A d \in Change : CacheFits(d)'
    <3>1. done[c] # None
      BY <1>1, <2>1 DEF EffectOK, Answered
    <3>2. \A d \in Change \ {c} : Target[d] \in Key /\ Target[d] # k
      BY <1>1, SchedulerAssumption DEF OwnTargets, k
    <3>3. \A d \in Change \ {c} : cache'[Target[d]] = cache[Target[d]]
      BY <1>1, <2>1, <3>2 DEF Shaped
    <3>4. ASSUME NEW d \in Change PROVE CacheFits(d)'
      <4>1. CASE d = c
        BY <2>1, <3>1, <4>1 DEF CacheFits
      <4>2. CASE d # c
        BY <2>1, <3>3, <4>2 DEF Fits, CacheFits, UpToDate
      <4> QED BY <4>1, <4>2
    <3> QED BY <3>4
  <2> QED BY <1>6, <2>1, <2>2, <2>3, <2>4, <2>5 DEF InHand
<1>13. CASE Failed(e)
  <2>1. MarkFailed(c, row[c]) /\ Finish(e) /\ UNCHANGED <<dns, cache, done>>
    BY <1>1, <1>13 DEF Failed
  <2>2. /\ row'[c].status \in {"scheduled", "failed"}
        /\ \A d \in Change \ {c} : row'[d] = row[d]
    BY <1>1, <2>1 DEF MarkFailed, Row
  <2>3. pc'[e] = "idle"
    BY <1>1, <2>1 DEF Finish, Goto, Shaped
  <2>4. RowFits(c)'
    BY <2>2 DEF RowFits
  <2>5. \A d \in Change : CacheFits(d)'
    BY <1>1, <2>1, CacheStays
  <2> QED BY <1>6, <2>1, <2>2, <2>3, <2>4, <2>5 DEF InHand
<1>14. ~LoseOutcome(e) /\ ~SaveFails(e)
  BY DEF LoseOutcome, SaveFails
<1> QED BY <1>7, <1>8, <1>9, <1>10, <1>11, <1>12, <1>13, <1>14 DEF ExecuteStep

\* A step of a revert.
LEMMA RevertFits ==
    ASSUME Faults = {}, OwnTargets, Safe, EffectOK, Counted, Fits, Shaped', NEW q \in Request,
           DeliverRevert(q) \/ FinishRevert(q) \/ \E c \in Change : BeginRevert(q, c)
    PROVE  Fits'
<1>1. /\ q \in Exec /\ Shaped /\ row = [c \in Change |-> row[c]]
      /\ \A c \in Change : row[c] \in Row /\ Target[c] \in Key
  BY SchedulerAssumption DEF Exec, Safe, Typed, Shaped, StoreShaped, RowShaped
<1>2. \A f \in Exec \ {q} : pc'[f] = pc[f] /\ job'[f] = job[f]
  BY <1>1 DEF DeliverRevert, FinishRevert, BeginRevert, Finish, Begin, Goto, Shaped
<1>3. ASSUME NEW c \in Change, done[c] # None
      PROVE  /\ done[c].op \in Operation /\ done[c].before \in RRset
             /\ Undoable(done[c].op) =>
                   RevertEffect(done[c].op, Prior(c), dns[Target[c]]) = done[c].before
  <2>1. done[c].op \in Operation /\ done[c].before \in RRset
    BY <1>1, <1>3, SchedulerAssumption DEF Shaped
  <2>2. ASSUME Undoable(done[c].op)
        PROVE  RevertEffect(done[c].op, Prior(c), dns[Target[c]]) = done[c].before
    <3>1. done[c].op.action = "add" => done[c].before = {}
      BY <1>3, <2>2 DEF Fits, DoneFits, Undoable
    <3>2. CASE dns[Target[c]] = Effect(done[c].op, done[c].before)
      BY <2>1, <3>1, <3>2, RevertInverts DEF Prior
    <3>3. CASE dns[Target[c]] = done[c].before
      BY <2>1, <3>1, <3>3, RevertAgain DEF Prior
    <3> QED BY <1>3, <2>2, <3>2, <3>3 DEF Fits, DoneFits
  <2> QED BY <2>1, <2>2
<1>4. ASSUME NEW c \in Change, BeginRevert(q, c) PROVE Fits'
  <2>1. /\ UNCHANGED <<row, dns, done>> /\ row[c].status = "applied" /\ row[c].snap # NoSnapshot
        /\ UNCHANGED cache \/ \E v \in Refreshed(Target[c]) : cache' = [cache EXCEPT ![Target[c]] = v]
    BY <1>4 DEF BeginRevert, SetCache
  <2>2. PICK label \in {"revert_sent", "revert_accepted"} :
           /\ Begin(q, label, [NoJob EXCEPT !.change = c, !.op = row[c].op, !.base = row[c].snap])
           /\ label = "revert_accepted" => NothingToRevert(row[c].op, row[c].snap)
    BY <1>4 DEF BeginRevert
  <2>3. /\ pc'[q] = label /\ job'[q].change = c /\ job'[q].op = row[c].op
        /\ job'[q].base = row[c].snap
    BY <1>1, <2>2 DEF Begin, Goto, NoJob, Shaped
  <2>4. row[c].attempts > 0
    BY <1>1, <2>1 DEF Counted, CountedRow, Row
  <2>5. done[c] # None /\ done[c].op = row[c].op /\ row[c].snap = Prior(c)
    BY <2>1, <2>4 DEF EffectOK, EffectIsReported, Fits, RowFits
  <2>6. ASSUME label = "revert_accepted", Undoable(row[c].op)
        PROVE  dns[Target[c]] = done[c].before
    <3>1. NothingToRevert(done[c].op, Prior(c))
      BY <2>2, <2>5, <2>6
    <3>2. RevertEffect(done[c].op, Prior(c), dns[Target[c]]) = dns[Target[c]]
      BY <1>1, <3>1 DEF NothingToRevert, RevertEffect
    <3> QED BY <1>3, <2>5, <2>6, <3>2
  <2>7. JobFits(q)'
    BY <2>1, <2>3, <2>4, <2>5, <2>6 DEF JobFits, Answered, Prior, Over
  <2>8. \A d \in Change : CacheFits(d)'
    BY <1>1, <2>1, CacheStays
  <2>9. \A d \in Change : Fitting(d)
    BY <2>1 DEF Fitting, Aside
  <2> QED BY <1>2, <2>1, <2>7, <2>8, <2>9, FitsAside
<1>5. PICK c : c = job[q].change
  OBVIOUS
<1>6. ASSUME pc[q] \in {"revert_sent", "revert_accepted"}
      PROVE  /\ c \in Change /\ Answered(q) /\ job[q].base = Prior(c) /\ row[c].status \in Over
             /\ row[c].status = "applied" => row[c].attempts > 0
  BY <1>1, <1>5, <1>6 DEF Shaped, JobOK, Fits, JobFits
<1>7. CASE DeliverRevert(q)
  <2>1. /\ pc[q] = "revert_sent" /\ UNCHANGED <<row, job, done>>
        /\ pc' = [pc EXCEPT ![q] = "revert_accepted"]
        /\ Serve(Target[c], RevertEffect(job[q].op, job[q].base, dns[Target[c]]))
    BY <1>5, <1>7 DEF DeliverRevert, Goto
  <2>2. c \in Change /\ done[c] # None /\ done[c].op = job[q].op /\ row[c].status \in Over
    BY <1>5, <1>6, <2>1 DEF Answered
  <2>3. /\ Undoable(done[c].op) => dns'[Target[c]] = done[c].before
        /\ \A x \in Key \ {Target[c]} : dns'[x] = dns[x] /\ cache'[x] = cache[x]
    <3>1. dns'[Target[c]] = RevertEffect(done[c].op, Prior(c), dns[Target[c]])
      BY <1>1, <1>6, <2>1, <2>2 DEF Serve, Shaped
    <3>2. \A x \in Key \ {Target[c]} : dns'[x] = dns[x] /\ cache'[x] = cache[x]
      BY <1>1, <2>1, <2>2 DEF Serve, Shaped
    <3> QED BY <1>3, <2>2, <3>1, <3>2
  <2>4. CacheFits(c)' /\ DoneFits(c)' /\ RowFits(c)'
    <3>1. CacheFits(c)'
      BY <2>1, <2>2 DEF CacheFits
    <3>2. DoneFits(c)'
      BY <2>1, <2>2, <2>3 DEF DoneFits, Fits
    <3>3. RowFits(c)'
      BY <2>1, <2>2, <2>3 DEF RowFits, Fits, Prior
    <3> QED BY <3>1, <3>2, <3>3
  <2>5. ASSUME NEW f \in Exec, pc'[f] \in InHand
        PROVE  (pc'[f] = pc[f] /\ job'[f] = job[f] /\ job[f].change # c) \/ JobFits(f)'
    <3>1. CASE f = q
      <4>1. pc'[q] = "revert_accepted" /\ job'[q] = job[q]
        BY <1>1, <2>1 DEF Shaped
      <4>2. Answered(q) /\ job[q].base = Prior(c)
            /\ (row[c].status = "applied" => row[c].attempts > 0)
        BY <1>6, <2>1
      <4> QED BY <1>5, <2>1, <2>2, <2>3, <3>1, <4>1, <4>2 DEF JobFits, Answered, Prior
    <3>2. CASE f # q /\ job[f].change = c
      <4>1. pc'[f] = pc[f] /\ job'[f] = job[f]
        BY <1>2, <3>2
      <4>2. ~Executing(f)
        BY <2>2, <3>2 DEF Safe, Holds, Over
      <4>3. pc[f] \in {"revert_sent", "revert_accepted"}
        BY <2>5, <4>1, <4>2 DEF InHand, Executing, ExecutingAt
      <4>4. Answered(f) /\ job[f].base = Prior(c) /\ job[f].op = done[c].op
            /\ (row[c].status = "applied" => row[c].attempts > 0)
        BY <3>2, <4>3 DEF Fits, JobFits, Answered
      <4> QED BY <2>1, <2>2, <2>3, <3>2, <4>1, <4>3, <4>4 DEF JobFits, Answered, Prior
    <3> QED BY <1>2, <3>1, <3>2
  <2> QED BY <1>1, <2>1, <2>2, <2>3, <2>4, <2>5, FitsElsewhere
<1>8. CASE FinishRevert(q)
  <2>1. /\ pc[q] = "revert_accepted" /\ UNCHANGED <<dns, done>> /\ Finish(q)
        /\ MarkReverted(c, row[c]) \/ UNCHANGED row
        /\ UNCHANGED cache \/ \E v : cache' = [cache EXCEPT ![Target[c]] = v]
    BY <1>5, <1>8 DEF FinishRevert, SetCache
  <2>2. /\ c \in Change /\ done[c] # None /\ done[c].op = job[q].op /\ row[c].status \in Over
        /\ Undoable(done[c].op) => dns[Target[c]] = done[c].before
    BY <1>1, <1>5, <1>6, <2>1 DEF Answered, Fits, JobFits
  <2>3. \A d \in Change : CacheFits(d)'
    <3>1. \A d \in Change \ {c} : cache'[Target[d]] = cache[Target[d]]
      <4>1. \A d \in Change \ {c} : Target[d] \in Key /\ Target[d] # Target[c]
        BY <1>1, <2>2 DEF OwnTargets
      <4> QED BY <1>1, <2>1, <4>1 DEF Shaped
    <3>2. CacheFits(c)'
      BY <2>1, <2>2 DEF CacheFits
    <3>3. \A d \in Change \ {c} : CacheFits(d)'
      BY <2>1, <3>1 DEF Fits, CacheFits, UpToDate
    <3> QED BY <3>2, <3>3
  <2>4. pc'[q] = "idle"
    BY <1>1, <2>1 DEF Finish, Goto, Shaped
  <2>5. CASE MarkReverted(c, row[c])
    <3>1. /\ row[c].status = "applied" /\ row'[c].status = "reverted" /\ row'[c].op = row[c].op
          /\ \A d \in Change \ {c} : row'[d] = row[d]
      BY <1>1, <2>2, <2>5 DEF MarkReverted, Row
    <3>2. done[c].op = row[c].op
      BY <1>6, <2>1, <2>2, <3>1 DEF EffectOK, EffectIsReported
    <3>3. RowFits(c)'
      BY <2>1, <2>2, <3>1, <3>2 DEF RowFits
    <3>4. ASSUME NEW f \in Exec, pc'[f] \in InHand, job'[f].change = c PROVE JobFits(f)'
      <4>1. f # q /\ pc'[f] = pc[f] /\ job'[f] = job[f]
        BY <1>2, <2>4, <3>4 DEF InHand
      <4>2. ~Executing(f)
        BY <3>1, <3>4, <4>1 DEF Safe, Holds
      <4>3. pc[f] \in {"revert_sent", "revert_accepted"}
        BY <3>4, <4>1, <4>2 DEF InHand, Executing, ExecutingAt
      <4>4. JobFits(f)
        BY DEF Fits
      <4> QED BY <2>1, <3>1, <3>4, <4>1, <4>3, <4>4 DEF JobFits, Answered, Prior, Over
    <3>5. \A d \in Change : Fitting(d)
      BY <3>1, <3>3, <3>4 DEF Fitting, Aside
    <3>6. \A f \in Exec : pc'[f] \in InHand => pc'[f] = pc[f] /\ job'[f] = job[f]
      BY <1>2, <2>4 DEF InHand
    <3> QED BY <2>1, <2>3, <3>5, <3>6, FitsAside
  <2>6. CASE UNCHANGED row
    <3>1. \A d \in Change : Fitting(d)
      BY <2>6 DEF Fitting, Aside
    <3>2. \A f \in Exec : pc'[f] \in InHand => pc'[f] = pc[f] /\ job'[f] = job[f]
      BY <1>2, <2>4 DEF InHand
    <3> QED BY <2>1, <2>3, <3>1, <3>2, FitsAside
  <2> QED BY <2>1, <2>5, <2>6
<1> QED BY <1>4, <1>7, <1>8

LEMMA FitsNext ==
    ASSUME Faults = {}, OwnTargets, Safe, Safe', EffectOK, Counted, Fits, [SchedulerNext]_vars
    PROVE  Fits'
<1>1. Shaped /\ Shaped'
  BY DEF Safe, Typed
<1>2. ASSUME \A c \in Change : Aside(c), Quiet(InHand), UNCHANGED <<dns, done>>, NEW k \in Key,
             \/ UNCHANGED cache
             \/ \E v \in Refreshed(k) \cup Loaded(k) : cache' = [cache EXCEPT ![k] = v]
      PROVE  Fits'
  <2>1. \A c \in Change : CacheFits(c)'
    BY <1>1, <1>2, CacheStays
  <2> QED BY <1>1, <1>2, <2>1, FitsAside DEF Fitting, Quiet
<1>3. ASSUME \A c \in Change : Aside(c), Quiet(InHand), UNCHANGED <<dns, cache, done>>
      PROVE  Fits'
  <2>1. \A c \in Change : CacheFits(c)'
    BY <1>3 DEF Fits, CacheFits, UpToDate
  <2> QED BY <1>1, <1>3, <2>1, FitsAside DEF Fitting, Quiet
<1>4. ASSUME NEW q \in Request, RequestStep(q) PROVE Fits'
  BY <1>1, <1>3, <1>4, RequestAside, RevertFits DEF RequestStep
<1>5. ASSUME NEW k \in Key, RefreshZone(k) PROVE Fits'
  <2>1. \E v \in Refreshed(k) \cup Loaded(k) : cache' = [cache EXCEPT ![k] = v]
    BY <1>5 DEF RefreshZone, SetCache
  <2>2. (\A c \in Change : Aside(c)) /\ Quiet(InHand) /\ UNCHANGED <<dns, done>>
    BY <1>5 DEF RefreshZone, Aside, Quiet
  <2> QED BY <1>2, <2>1, <2>2
<1>6. CASE Pass \/ UNCHANGED vars
  <2>1. (\A c \in Change : Aside(c)) /\ Quiet(InHand) /\ UNCHANGED <<dns, cache, done>>
    BY <1>6 DEF Pass, vars, Aside, Quiet
  <2> QED BY <1>3, <2>1
<1>7. ~(\E e \in Exec : Crash(e)) /\ ~\E k \in Key, rrset \in RRset : External(k, rrset)
  BY DEF Crash, External
<1> QED BY <1>1, <1>3, <1>4, <1>5, <1>6, <1>7, LoopAside, ExecuteFits, SubmitAside
        DEF SchedulerNext

LEMMA FitsInit == SchedulerInit => Fits
<1> SUFFICES ASSUME SchedulerInit PROVE Fits
  OBVIOUS
<1>1. ASSUME NEW c \in Change PROVE CacheFits(c) /\ DoneFits(c) /\ RowFits(c)
  BY SchedulerAssumption DEF SchedulerInit, Init, NoRow, CacheFits, DoneFits, RowFits
<1>2. ASSUME NEW e \in Exec PROVE JobFits(e)
  BY DEF SchedulerInit, JobFits
<1> QED BY <1>1, <1>2 DEF Fits

\* All that makes a revert exact is inductive.
LEMMA RevertInvariant ==
    ASSUME Faults = {}, OwnTargets
    PROVE  SchedulerSpec => [](Safe /\ EffectOK /\ Fits)
<1>1. SchedulerInit => Safe /\ EffectOK /\ Counted /\ Fits
  BY SafeInit, EffectInit, CountedInit, FitsInit
<1>2. Safe /\ EffectOK /\ Counted /\ Fits /\ [SchedulerNext]_vars
        => Safe' /\ EffectOK' /\ Counted' /\ Fits'
  BY SafeNext, EffectNext, CountedNext, FitsNext
<1> QED BY <1>1, <1>2, PTL DEF SchedulerSpec

\* The snapshot stored before the UPDATE shows what the UPDATE found, when nothing goes
\* wrong and no other change writes the same RRset: nothing slips in between the refresh
\* the snapshot is taken from and the judgement of the prerequisites.
THEOREM SnapshotIsPriorStateAlways ==
    ASSUME Faults = {}, OwnTargets
    PROVE  SchedulerSpec => []SnapshotIsPriorState
<1>1. EffectOK /\ Fits => SnapshotIsPriorState
  BY DEF EffectOK, EffectIsReported, Fits, RowFits, Prior, SnapshotOf, SnapshotIsPriorState
<1> QED BY <1>1, RevertInvariant, PTL

\* A reverted change left its RRset as it found it, under the same conditions: an add of
\* records that may have been there must have carried its prerequisite.
THEOREM RevertRestoresAlways ==
    ASSUME Faults = {}, OwnTargets
    PROVE  SchedulerSpec => []RevertRestores
<1>1. Fits => RevertRestores
  BY DEF Fits, RowFits, Undoable, RevertRestores
<1> QED BY <1>1, RevertInvariant, PTL
================================================================================
