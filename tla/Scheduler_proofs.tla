---------------------------- MODULE Scheduler_proofs ----------------------------
(***************************************************************************)
(* What the scheduler promises for any number of changes, loops, requests  *)
(* and records, and any settings: types whatever goes wrong, the promises  *)
(* of the store, mutual exclusion, final statuses.                         *)
(***************************************************************************)
EXTENDS Scheduler, ChangeStore_proofs

\* The records an operation leaves are an RRset again.
LEMMA EffectType ==
    ASSUME NEW op \in Operation, NEW rrset \in RRset
    PROVE  Effect(op, rrset) \in RRset
BY DEF Operation, RRset, Effect

\* So is the snapshot taken before it,
LEMMA SnapshotType ==
    ASSUME NEW op \in Operation, NEW rrset \in RRset
    PROVE  SnapshotOf(op, rrset) \in RRset
BY DEF Operation, RRset, SnapshotOf

\* and what a revert leaves, at the server and in the cache.
LEMMA RevertType ==
    ASSUME NEW op \in Operation, NEW prior \in RRset, NEW rrset \in RRset
    PROVE  /\ RevertEffect(op, prior, rrset) \in RRset
           /\ RevertCached(op, prior, rrset) \in RRset
BY DEF Operation, RRset, RevertEffect, RevertCached, RevertDeletes, RevertAdds

\* What a loop or request at "label" has in its local variables.
JobOK(label, j) ==
    /\ label \in ExecutingAt \cup {"revert_sent", "revert_accepted"} =>
          j.change \in Change /\ j.op \in Op
    /\ label \in ExecutingAt => j.deadline \in Nat
    /\ label \in {"captured", "sent", "revert_sent", "revert_accepted"} => j.base \in RRset

\* A row of the table, even if instances that share it write what they read long ago.
RowShaped(r) == r \in Row /\ (Exists(r) => r.op \in Op)

StoreShaped ==
    /\ now \in Nat
    /\ row = [c \in Change |-> row[c]]
    /\ \A c \in Change : RowShaped(row[c])

\* The inductive type invariant.
Shaped ==
    /\ StoreShaped
    /\ dns \in [Key -> RRset] /\ cache \in [Key -> {None} \cup View]
    /\ pc \in [Exec -> Label] /\ job \in [Exec -> Job]
    /\ done \in [Change -> {None} \cup [op : Op, before : RRset]]
    /\ \A e \in Exec : JobOK(pc[e], job[e])

\* With it, what the store promises while its transactions are serialised.
Typed == Inv /\ Shaped

\* The labels are distinct.
LEMMA Labels ==
    /\ "claimed" \in ExecutingAt /\ "captured" \in ExecutingAt /\ "sent" \in ExecutingAt
    /\ "accepted" \in ExecutingAt /\ "failing" \in ExecutingAt
    /\ ExecutingAt \cap {"idle", "polled", "retaining", "read", "revert_sent",
                         "revert_accepted"} = {}
    /\ ExecutingAt \subseteq Label
    /\ {"idle", "polled", "retaining", "read", "revert_sent", "revert_accepted"} \subseteq Label
BY DEF ExecutingAt, Label

\* The empty job, and the job of an execution that begins, are well typed.
LEMMA JobTypes ==
    /\ NoJob \in Job /\ JobOK("idle", NoJob)
    /\ \A c \in Change : now \in Nat /\ row[c].op \in Op =>
          NewJob(c) \in Job /\ JobOK("claimed", NewJob(c))
<1>1. NoJob \in Job /\ JobOK("idle", NoJob)
  BY DEF NoJob, Job, JobOK, ExecutingAt
<1>2. ASSUME NEW c \in Change, now \in Nat, row[c].op \in Op
      PROVE  NewJob(c) \in Job /\ JobOK("claimed", NewJob(c))
  <2>1. now + LeaseTTL \in Nat
    BY <1>2, NumbersAssumption
  <2> QED
    BY <1>2, <2>1 DEF NewJob, NoJob, Job, JobOK, ExecutingAt
<1> QED
  BY <1>1, <1>2

\* A step of one loop or request that leaves the others alone.
LEMMA OneExec ==
    ASSUME Shaped, NEW e \in Exec, NEW label \in Label, NEW j \in Job,
           pc' = [pc EXCEPT ![e] = label], job' = [job EXCEPT ![e] = j], JobOK(label, j)
    PROVE  /\ pc' \in [Exec -> Label] /\ job' \in [Exec -> Job]
           /\ \A f \in Exec : JobOK(pc'[f], job'[f])
BY DEF Shaped, Shaped

\* While its transactions are serialised, every step of the service is a step any
\* caller of the store might take.
LEMMA StoreStep ==
    ASSUME "shared_db" \notin Faults, Typed, [SchedulerNext]_vars
    PROVE  [Next]_storeVars
<1> USE DEF storeVars
<1>1. ASSUME NEW w \in Worker, LoopStep(w) PROVE [Next]_storeVars
  BY <1>1 DEF LoopStep, ExpireTick, Claim, IdleTick, Retain, Next, WorkerNext
<1>2. ASSUME NEW e \in Exec, ExecuteStep(e) PROVE [Next]_storeVars
  <2>1. CASE SaveAndSend(e)
    <3>1. job[e].change \in Change /\ job[e].base \in Snapshot
      BY <2>1, SchedulerAssumption DEF SaveAndSend, Typed, Shaped, JobOK, ExecutingAt
    <3> QED
      BY <2>1, <3>1 DEF SaveAndSend, Next, WorkerNext
  <2>2. CASE Applied(e) \/ Failed(e)
    <3>1. job[e].change \in Change
      BY <2>2 DEF Applied, Failed, Typed, Shaped, JobOK, ExecutingAt
    <3> QED
      BY <2>2, <3>1 DEF Applied, Failed, Next, WorkerNext
  <2>3. CASE Capture(e) \/ Deliver(e) \/ Reject(e) \/ SendFails(e) \/ LoseOutcome(e)
             \/ SaveFails(e)
    BY <2>3 DEF Capture, Deliver, Reject, SendFails, LoseOutcome, SaveFails
  <2> QED
    BY <1>2, <2>1, <2>2, <2>3 DEF ExecuteStep
<1>3. ASSUME NEW q \in Request, RequestStep(q) PROVE [Next]_storeVars
  <2>1. ASSUME NEW c \in Change, Edit(q, c) PROVE [Next]_storeVars
    BY <2>1 DEF Edit, Has, Shared, Next, ClientNext
  <2>2. ASSUME NEW c \in Change, CancelRequest(q, c) \/ ApplyNow(q, c)
        PROVE [Next]_storeVars
    BY <2>2 DEF CancelRequest, ApplyNow, Has, Shared, Next, ClientNext
  <2>3. ASSUME FinishRevert(q) PROVE [Next]_storeVars
    <3>1. job[q].change \in Change
      BY <2>3 DEF FinishRevert, Typed, Shaped, JobOK, ExecutingAt, Exec
    <3> QED
      BY <2>3, <3>1 DEF FinishRevert, Next, ClientNext
  <2>4. ASSUME NEW c \in Change, ReadRow(q, c) \/ BeginRevert(q, c)
        PROVE [Next]_storeVars
    BY <2>4 DEF ReadRow, BeginRevert
  <2>5. ASSUME Refuse(q) \/ DeliverRevert(q) \/ RevertFails(q) PROVE [Next]_storeVars
    BY <2>5 DEF Refuse, DeliverRevert, RevertFails
  <2> QED
    BY <1>3, <2>1, <2>2, <2>3, <2>4, <2>5 DEF RequestStep
<1>4. ASSUME NEW c \in Change, Submit(c) PROVE [Next]_storeVars
  BY <1>4 DEF Submit, Next, ClientNext
<1>5. ASSUME \/ \E k \in Key : RefreshZone(k)
             \/ \E k \in Key, rrset \in RRset : External(k, rrset)
             \/ \E e \in Exec : Crash(e)
             \/ UNCHANGED vars
      PROVE [Next]_storeVars
  BY <1>5 DEF RefreshZone, External, Crash, vars
<1>6. ASSUME Pass PROVE [Next]_storeVars
  BY <1>6 DEF Pass, Next
<1> QED
  BY <1>1, <1>2, <1>3, <1>4, <1>5, <1>6 DEF SchedulerNext

--------------------------------------------------------------------------------
(* Types *)

\* What the cache functions return.
LEMMA CacheTypes ==
    ASSUME Shaped
    PROVE  /\ \A k \in Key : Refreshed(k) \subseteq {None} \cup View
           /\ \A k \in Key : Loaded(k) \subseteq {None} \cup View
           /\ \A v \in {None} \cup View : Seen(v) \in RRset
           /\ \A v \in {None} \cup View, op \in Op : Updated(op, v) \subseteq {None} \cup View
           /\ \A v \in {None} \cup View, op \in Op, prior \in RRset :
                 Reverted(op, prior, v) \subseteq {None} \cup View
<1>1. \A k \in Key : Refreshed(k) \subseteq {None} \cup View
  <2>1. ASSUME NEW k \in Key PROVE Transferred(k) \subseteq View
    <3>1. cache[k] \in {None} \cup View /\ dns[k] \in RRset
      BY DEF Shaped
    <3>2. CASE cache[k] = None
      BY <3>1, <3>2 DEF Transferred, View, RRset
    <3>3. CASE cache[k] \in View /\ cache[k] # None
      BY <3>1, <3>3 DEF Transferred, View, RRset
    <3> QED
      BY <3>1, <3>2, <3>3
  <2> QED
    BY <2>1 DEF Shaped, Refreshed
<1>2. \A k \in Key : Loaded(k) \subseteq {None} \cup View
  BY <1>1 DEF Shaped, Loaded
<1>3. \A v \in {None} \cup View : Seen(v) \in RRset
  BY DEF Seen, RRset, View
<1>4. ASSUME NEW v \in View, NEW rrset \in RRset PROVE Overwritten(v, rrset) \subseteq View
  BY DEF Overwritten, RRset, View
<1>5. ASSUME NEW v \in {None} \cup View, NEW op \in Op
      PROVE  Updated(op, v) \subseteq {None} \cup View
  <2>1. CASE v = None
    BY <2>1 DEF Updated
  <2>2. CASE v \in View /\ v # None
    <3>1. op.data \in RRset /\ v.rrset \in RRset /\ Effect(op, v.rrset) \in RRset
      BY <2>2, EffectType, SchedulerAssumption DEF Operation, View
    <3> QED
      BY <1>4, <2>2, <3>1 DEF Updated
  <2> QED
    BY <2>1, <2>2
<1>6. ASSUME NEW v \in {None} \cup View, NEW op \in Op, NEW prior \in RRset
      PROVE  Reverted(op, prior, v) \subseteq {None} \cup View
  <2>1. CASE v = None
    BY <2>1 DEF Reverted
  <2>2. CASE v \in View /\ v # None
    <3>1. v.rrset \in RRset /\ RevertCached(op, prior, v.rrset) \in RRset
      BY <2>2, RevertType, SchedulerAssumption DEF View
    <3> QED
      BY <1>4, <2>2, <3>1 DEF Reverted
  <2> QED
    BY <2>1, <2>2
<1> QED
  BY <1>1, <1>2, <1>3, <1>5, <1>6

\* Writing one zone of the cache.
LEMMA CacheStep ==
    ASSUME Shaped, NEW k \in Key, NEW values \in SUBSET ({None} \cup View), SetCache(k, values)
    PROVE  cache' \in [Key -> {None} \cup View]
BY DEF Shaped, SetCache

\* A change of what the server holds.
LEMMA ServeTyped ==
    ASSUME Shaped, NEW k \in Key, NEW rrset \in RRset, Serve(k, rrset)
    PROVE  dns' \in [Key -> RRset] /\ cache' \in [Key -> {None} \cup View]
<1> DEFINE new == Outdated(cache[k], (dns[k] \ rrset) \cup (rrset \ dns[k]))
<1>1. dns' \in [Key -> RRset]
  BY DEF Serve, Shaped
<1>2. new \in {None} \cup View
  <2>1. cache[k] \in {None} \cup View /\ dns[k] \in RRset
    BY DEF Shaped
  <2>2. CASE cache[k] = None
    BY <2>2 DEF Outdated
  <2>3. CASE cache[k] \in View /\ cache[k] # None
    BY <2>1, <2>3 DEF Outdated, View, RRset
  <2> QED
    BY <2>1, <2>2, <2>3
<1>3. cache' = [cache EXCEPT ![k] = new]
  BY DEF Serve, Shaped
<1> HIDE DEF new
<1>4. cache' \in [Key -> {None} \cup View]
  BY <1>2, <1>3 DEF Shaped
<1> QED
  BY <1>1, <1>4

\* A job with another RRset at hand.
LEMMA Rebased ==
    ASSUME NEW j \in Job, NEW s \in RRset
    PROVE  LET n == [j EXCEPT !.base = s]
           IN  /\ n \in Job /\ n.base = s
               /\ n.change = j.change /\ n.op = j.op /\ n.deadline = j.deadline
BY DEF Job

\* The types of what the processes share, and of their own variables.
SharedTyped ==
    /\ dns \in [Key -> RRset] /\ cache \in [Key -> {None} \cup View]
    /\ done \in [Change -> {None} \cup [op : Op, before : RRset]]

OwnTyped ==
    /\ pc \in [Exec -> Label] /\ job \in [Exec -> Job]
    /\ \A e \in Exec : JobOK(pc[e], job[e])

\* A loop or request that ends what it does is well typed,
LEMMA FinishTyped ==
    ASSUME Shaped, NEW e \in Exec, Finish(e)
    PROVE  OwnTyped'
BY OneExec, JobTypes, Labels DEF Finish, Goto, OwnTyped

\* so is one that goes on with the same job,
LEMMA GotoTyped ==
    ASSUME Shaped, NEW e \in Exec, NEW label \in Label, Goto(e, label), UNCHANGED job,
           JobOK(label, job[e])
    PROVE  OwnTyped'
<1>1. job[e] \in Job /\ job' = [job EXCEPT ![e] = job[e]]
  BY DEF Shaped
<1> QED
  BY <1>1, OneExec DEF Goto, OwnTyped

\* and one that begins an execution.
LEMMA BeginTyped ==
    ASSUME Shaped, NEW e \in Exec, NEW c \in Change, row[c].op \in Op,
           Begin(e, "claimed", NewJob(c))
    PROVE  OwnTyped'
BY OneExec, JobTypes, Labels DEF Begin, Goto, OwnTyped, Shaped, StoreShaped

\* A row claim_due takes was not overdue, and it was waiting or had a lease that
\* has run out.
LEMMA ClaimedRow ==
    ASSUME Shaped, NEW c \in Change, ClaimDue(c)
    PROVE  /\ Swept(row[c]) = row[c]
           /\ row[c].status = "scheduled" \/ (row[c].status = "running" /\ LeaseExpired(row[c]))
<1>1. row[c] \in Row /\ Due(Swept(row[c]))
  BY DEF Shaped, StoreShaped, RowShaped, ClaimDue
<1>2. CASE Overdue(row[c])
  <2>1. Swept(row[c]).status = "expired"
    BY <1>1, <1>2 DEF Swept, Row
  <2> QED
    BY <1>1, <2>1 DEF Due
<1>3. CASE ~Overdue(row[c])
  BY <1>1, <1>3 DEF Swept, Due
<1> QED
  BY <1>2, <1>3

\* A step of a loop keeps the types.
LEMMA LoopTyped ==
    ASSUME Shaped, NEW w \in Worker, LoopStep(w)
    PROVE  SharedTyped' /\ OwnTyped'
<1>1. w \in Exec
  BY DEF Exec
<1>2. CASE ExpireTick(w) \/ IdleTick(w) \/ \E gone \in SUBSET Change : Retain(w, gone)
  <2>1. PICK label \in {"idle", "polled", "retaining"} :
          Goto(w, label) /\ UNCHANGED <<job, dns, cache, done>>
    BY <1>2 DEF ExpireTick, IdleTick, Retain
  <2>2. JobOK(label, job[w]) /\ label \in Label
    BY <2>1, Labels DEF JobOK, ExecutingAt
  <2> QED
    BY <1>1, <2>1, <2>2, GotoTyped DEF SharedTyped, Shaped
<1>3. ASSUME NEW c \in Change, Claim(w, c) PROVE SharedTyped' /\ OwnTyped'
  <2>1. row[c].op \in Op
    BY <1>3, ClaimedRow DEF Claim, Shaped, StoreShaped, RowShaped, Exists, Missing
  <2> QED
    BY <1>1, <1>3, <2>1, BeginTyped DEF Claim, SharedTyped, Shaped
<1> QED
  BY <1>2, <1>3 DEF LoopStep

\* A step of an execution keeps the types.
LEMMA ExecuteTyped ==
    ASSUME Shaped, NEW e \in Exec, ExecuteStep(e)
    PROVE  SharedTyped' /\ OwnTyped'
<1> DEFINE c == job[e].change
           k == Target[c]
<1>1. /\ c \in Change /\ job[e].op \in Op /\ job[e].deadline \in Nat
      /\ k \in Key /\ job[e] \in Job
      /\ pc[e] \in {"captured", "sent"} => job[e].base \in RRset
  BY SchedulerAssumption DEF ExecuteStep, Capture, SaveAndSend, Deliver, Reject, SendFails,
     LoseOutcome, Applied, Failed, SaveFails, Shaped, JobOK, ExecutingAt
<1> HIDE DEF c, k
<1>2. CASE Capture(e)
  <2>1. PICK v \in Refreshed(k) :
          /\ cache' = [cache EXCEPT ![k] = v]
          /\ job' = [job EXCEPT ![e].base = SnapshotOf(job[e].op, Seen(v))]
    BY <1>2 DEF Capture, c, k
  <2> DEFINE s == SnapshotOf(job[e].op, Seen(v))
             n == [job[e] EXCEPT !.base = s]
  <2>2. s \in RRset
    BY <1>1, CacheTypes, SnapshotType, SchedulerAssumption
  <2> HIDE DEF s
  <2>3. n \in Job /\ JobOK("captured", n)
    BY <1>1, <2>2, Rebased DEF JobOK, ExecutingAt, c
  <2>4. job' = [job EXCEPT ![e] = n]
    BY <2>1 DEF Shaped, s
  <2>5. pc' = [pc EXCEPT ![e] = "captured"]
    BY <1>2 DEF Capture, Goto
  <2> HIDE DEF n
  <2>6. OwnTyped'
    BY <2>3, <2>4, <2>5, OneExec, Labels DEF OwnTyped
  <2>7. cache' \in [Key -> {None} \cup View]
    BY <1>1, <2>1, CacheTypes DEF Shaped
  <2> QED
    BY <1>2, <2>6, <2>7 DEF Capture, SharedTyped, Shaped
<1>3. CASE SaveAndSend(e)
  <2>1. PICK v \in Loaded(k), label \in {"sent", "failing"} :
          /\ cache' = [cache EXCEPT ![k] = v]
          /\ Begin(e, label, [job[e] EXCEPT !.base = Seen(v)])
    BY <1>3 DEF SaveAndSend, c, k
  <2> DEFINE s == Seen(v)
             n == [job[e] EXCEPT !.base = s]
  <2>2. s \in RRset
    BY <1>1, CacheTypes
  <2> HIDE DEF s
  <2>3. n \in Job /\ JobOK(label, n)
    BY <1>1, <2>2, Rebased DEF JobOK, ExecutingAt, c
  <2>4. job' = [job EXCEPT ![e] = n] /\ pc' = [pc EXCEPT ![e] = label]
    BY <2>1 DEF Begin, Goto, s
  <2> HIDE DEF n
  <2>5. OwnTyped'
    BY <2>3, <2>4, OneExec, Labels DEF OwnTyped
  <2>6. cache' \in [Key -> {None} \cup View]
    BY <1>1, <2>1, CacheTypes DEF Shaped
  <2> QED
    BY <1>3, <2>5, <2>6 DEF SaveAndSend, SharedTyped, Shaped
<1>4. CASE Deliver(e)
  <2>1. OwnTyped'
    <3>1. JobOK("accepted", job[e])
      BY <1>1 DEF JobOK, ExecutingAt, c
    <3> QED
      BY <1>4, <3>1, GotoTyped, Labels DEF Deliver
  <2>2. Effect(job[e].op, dns[k]) \in RRset /\ dns[k] \in RRset
    BY <1>1, EffectType, SchedulerAssumption DEF Shaped
  <2>3. dns' \in [Key -> RRset] /\ cache' \in [Key -> {None} \cup View]
    BY <1>1, <1>4, <2>2, ServeTyped DEF Deliver, c, k
  <2>4. done' \in [Change -> {None} \cup [op : Op, before : RRset]]
    BY <1>1, <1>4, <2>2 DEF Deliver, Shaped, c, k
  <2> QED
    BY <1>4, <2>1, <2>3, <2>4 DEF Deliver, SharedTyped, Shaped
<1>5. CASE Reject(e) \/ SendFails(e) \/ LoseOutcome(e) \/ SaveFails(e)
  <2>1. JobOK("failing", job[e])
    BY <1>1 DEF JobOK, ExecutingAt, c
  <2>2. OwnTyped'
    BY <1>5, <2>1, GotoTyped, Labels DEF Reject, SendFails, LoseOutcome, SaveFails
  <2>3. cache' \in [Key -> {None} \cup View]
    <3>1. CASE Reject(e)
      BY <1>1, <3>1, CacheTypes, CacheStep DEF Reject, c, k
    <3> QED
      BY <1>5, <3>1 DEF SendFails, LoseOutcome, SaveFails, Shaped
  <2> QED
    BY <1>5, <2>2, <2>3 DEF Reject, SendFails, LoseOutcome, SaveFails, SharedTyped, Shaped
<1>6. CASE Applied(e)
  <2>1. cache' \in [Key -> {None} \cup View]
    <3> DEFINE values == UNION {Updated(job[e].op, v) : v \in Loaded(k)}
    <3>1. values \in SUBSET ({None} \cup View)
      BY <1>1, CacheTypes
    <3>2. SetCache(k, values)
      BY <1>6 DEF Applied, c, k
    <3> QED
      BY <1>1, <3>1, <3>2, CacheStep
  <2>2. JobOK("failing", job[e])
    BY <1>1 DEF JobOK, ExecutingAt, c
  <2>3. OwnTyped'
    BY <1>6, <2>2, FinishTyped, GotoTyped, Labels DEF Applied
  <2> QED
    BY <1>6, <2>1, <2>3 DEF Applied, SharedTyped, Shaped
<1>7. CASE Failed(e)
  BY <1>7, FinishTyped DEF Failed, SharedTyped, Shaped
<1> QED
  BY <1>2, <1>3, <1>4, <1>5, <1>6, <1>7 DEF ExecuteStep

\* A step of a request keeps the types.
LEMMA RequestTyped ==
    ASSUME Shaped, NEW q \in Request, RequestStep(q)
    PROVE  SharedTyped' /\ OwnTyped'
<1>1. q \in Exec
  BY DEF Exec
<1>2. CASE \E c \in Change : Edit(q, c) \/ CancelRequest(q, c)
  BY <1>1, <1>2, FinishTyped DEF Edit, CancelRequest, SharedTyped, Shaped
<1>3. ASSUME NEW c \in Change, ApplyNow(q, c) PROVE SharedTyped' /\ OwnTyped'
  <2>1. row[c].op \in Op
    BY <1>3 DEF ApplyNow, MarkRunning, Shaped, StoreShaped, RowShaped
  <2> QED
    BY <1>1, <1>3, <2>1, BeginTyped DEF ApplyNow, SharedTyped, Shaped
<1>4. ASSUME NEW c \in Change, BeginRevert(q, c) PROVE SharedTyped' /\ OwnTyped'
  <2> DEFINE n == [NoJob EXCEPT !.change = c, !.op = row[c].op, !.base = row[c].snap]
  <2>1. row[c].op \in Op /\ row[c].snap \in RRset
    BY <1>4, SchedulerAssumption DEF BeginRevert, Shaped, StoreShaped, RowShaped, Row, Exists,
       Missing
  <2>2. n \in Job /\ n.change = c /\ n.op = row[c].op /\ n.base = row[c].snap
    BY <2>1 DEF NoJob, Job
  <2> HIDE DEF n
  <2>3. PICK label \in {"revert_sent", "revert_accepted"} : Begin(q, label, n)
    BY <1>4 DEF BeginRevert, n
  <2>4. JobOK(label, n)
    BY <2>1, <2>2 DEF JobOK, ExecutingAt
  <2>5. OwnTyped'
    BY <1>1, <2>2, <2>3, <2>4, OneExec, Labels DEF Begin, Goto, OwnTyped
  <2>6. cache' \in [Key -> {None} \cup View]
    BY <1>4, CacheTypes, CacheStep, SchedulerAssumption DEF BeginRevert, Shaped
  <2> QED
    BY <1>4, <2>5, <2>6 DEF BeginRevert, SharedTyped, Shaped
<1>5. ASSUME pc[q] \in {"revert_sent", "revert_accepted"}
      PROVE  /\ job[q].change \in Change /\ job[q].op \in Operation
             /\ job[q].base \in RRset /\ Target[job[q].change] \in Key
  BY <1>1, <1>5, SchedulerAssumption DEF Shaped, JobOK, ExecutingAt
<1>6. CASE DeliverRevert(q)
  <2>1. RevertEffect(job[q].op, job[q].base, dns[Target[job[q].change]]) \in RRset
    BY <1>5, <1>6, RevertType DEF DeliverRevert, Shaped
  <2>2. JobOK("revert_accepted", job[q])
    BY <1>5, <1>6, SchedulerAssumption DEF DeliverRevert, JobOK, ExecutingAt
  <2>3. OwnTyped'
    BY <1>1, <1>6, <2>2, GotoTyped, Labels DEF DeliverRevert
  <2>4. dns' \in [Key -> RRset] /\ cache' \in [Key -> {None} \cup View]
    BY <1>5, <1>6, <2>1, ServeTyped DEF DeliverRevert
  <2> QED
    BY <1>6, <2>3, <2>4 DEF DeliverRevert, SharedTyped, Shaped
<1>7. CASE RevertFails(q)
  BY <1>1, <1>7, FinishTyped DEF RevertFails, SharedTyped, Shaped
<1>8. CASE FinishRevert(q)
  <2> DEFINE k == Target[job[q].change]
             values == UNION {Reverted(job[q].op, job[q].base, v) : v \in Loaded(k)}
  <2>1. pc[q] = "revert_accepted" /\ (UNCHANGED cache \/ SetCache(k, values))
        /\ Finish(q) /\ UNCHANGED <<dns, done>>
    BY <1>8 DEF FinishRevert
  <2>2. k \in Key /\ Loaded(k) \subseteq {None} \cup View
    BY <1>5, <2>1, CacheTypes
  <2>3. values \in SUBSET ({None} \cup View)
    BY <1>5, <2>1, <2>2, CacheTypes, SchedulerAssumption
  <2>4. cache' \in [Key -> {None} \cup View]
    <3> HIDE DEF values, k
    <3> QED
      BY <2>1, <2>2, <2>3, CacheStep DEF Shaped
  <2> QED
    BY <1>1, <2>1, <2>4, FinishTyped DEF SharedTyped, Shaped
<1>9. CASE Refuse(q)
  BY <1>1, <1>9, FinishTyped DEF Refuse, SharedTyped, Shaped
<1>10. ASSUME NEW c \in Change, ReadRow(q, c) PROVE SharedTyped' /\ OwnTyped'
  <2> DEFINE n == [NoJob EXCEPT !.change = c, !.old = row[c]]
  <2>1. row[c] \in Row
    BY DEF Shaped, StoreShaped, RowShaped
  <2>2. n \in Job /\ JobOK("read", n)
    BY <2>1, Labels DEF NoJob, Job, JobOK
  <2>3. pc' = [pc EXCEPT ![q] = "read"] /\ job' = [job EXCEPT ![q] = n]
    BY <1>10 DEF ReadRow, Begin, Goto
  <2> HIDE DEF n
  <2>4. OwnTyped'
    BY <1>1, <2>2, <2>3, OneExec, Labels DEF OwnTyped
  <2> QED
    BY <1>10, <2>4 DEF ReadRow, SharedTyped, Shaped
<1> QED
  BY <1>2, <1>3, <1>4, <1>6, <1>7, <1>8, <1>9, <1>10 DEF RequestStep

\* A row taken up keeps its type.
LEMMA TakenShaped ==
    ASSUME NEW r \in Row, r.op \in Op, NEW end \in Nat
    PROVE  RowShaped([r EXCEPT !.status = "running", !.attempts = @ + 1, !.leaseExpiresAt = end])
<1> DEFINE new == [r EXCEPT !.status = "running", !.attempts = @ + 1, !.leaseExpiresAt = end]
<1>1. r.attempts + 1 \in Nat
  BY DEF Row
<1>2. new \in Row
  BY <1>1 DEF Row, Status
<1>3. new.op = r.op
  BY DEF Row
<1> HIDE DEF new
<1> QED BY <1>2, <1>3 DEF RowShaped, new

\* The methods of the store write rows of their type, whatever the row they go by.
LEMMA MethodShaped ==
    ASSUME StoreShaped, NEW c \in Change, NEW old,
           \/ \E at, expiry \in ClientTimes, op \in OpChoice : Create(c, at, expiry, op)
           \/ \E outcome \in {"applied", "failed"}, op \in OpChoice :
                  RecordExternalChange(c, outcome, op)
           \/ \E at, expiry \in ClientTimes \cup {Keep}, op \in OpChoice \cup {Keep} :
                  Update(c, old, at, expiry, op)
           \/ Cancel(c, old) \/ MarkRunning(c, old) \/ MarkReverted(c, old)
           \/ MarkApplied(c) \/ MarkFailed(c, row[c])
           \/ \E snapshot \in Snapshot : SaveSnapshots(c, snapshot)
    PROVE  /\ RowShaped(row'[c]) /\ row' = [d \in Change |-> row'[d]]
           /\ \A d \in Change \ {c} : row'[d] = row[d]
<1>0. row[c] \in Row /\ (Exists(row[c]) => row[c].op \in Op) /\ now \in Nat
  BY DEF StoreShaped, RowShaped
<1>1. CASE \E at, expiry \in ClientTimes, op \in OpChoice : Create(c, at, expiry, op)
  <2>1. PICK at \in ClientTimes, expiry \in ClientTimes, op \in OpChoice : Create(c, at, expiry, op)
    BY <1>1
  <2> DEFINE exp == IF expiry = None /\ at # None THEN at + ExpiryWindow ELSE expiry
             stat == IF at # None THEN "scheduled" ELSE "draft"
  <2>2. at \in {None} \cup Nat /\ exp \in {None} \cup Nat /\ op \in Op /\ stat \in Status
    BY NumbersAssumption, OpChoiceAssumption DEF ClientTimes, Status
  <2> DEFINE new == [NoRow("absent") EXCEPT !.status = stat, !.scheduledAt = at,
                                            !.notValidAfter = exp, !.op = op]
  <2>3. row' = [row EXCEPT ![c] = new]
    BY <2>1 DEF Create
  <2> HIDE DEF exp, stat
  <2>4. RowShaped(new)
    BY <2>2 DEF RowShaped, Row, NoRow
  <2> HIDE DEF new
  <2> QED BY <2>3, <2>4 DEF StoreShaped
<1>2. CASE \E outcome \in {"applied", "failed"}, op \in OpChoice : RecordExternalChange(c, outcome, op)
  <2>1. PICK outcome \in {"applied", "failed"}, op \in OpChoice : RecordExternalChange(c, outcome, op)
    BY <1>2
  <2>2. row' = [row EXCEPT ![c] = [NoRow(outcome) EXCEPT !.op = op]] /\ op \in Op
    BY <2>1, OpChoiceAssumption DEF RecordExternalChange
  <2>3. RowShaped([NoRow(outcome) EXCEPT !.op = op])
    BY <2>2 DEF RowShaped, Row, NoRow, Status
  <2> QED BY <2>2, <2>3 DEF StoreShaped
<1>3. CASE \E at, expiry \in ClientTimes \cup {Keep}, op \in OpChoice \cup {Keep} :
              Update(c, old, at, expiry, op)
  <2>1. PICK at \in ClientTimes \cup {Keep}, expiry \in ClientTimes \cup {Keep},
             op \in OpChoice \cup {Keep} : Update(c, old, at, expiry, op)
    BY <1>3
  <2> DEFINE r == row[c]
             newAt == IF at = Keep THEN old.scheduledAt ELSE at
             stat == IF newAt # None THEN "scheduled" ELSE "draft"
             sched == IF at = Keep THEN r.scheduledAt ELSE at
             windowed == expiry = Keep /\ at \notin {Keep, None} /\ old.notValidAfter = None
             exp == IF windowed THEN at + ExpiryWindow
                    ELSE IF expiry = Keep THEN r.notValidAfter ELSE expiry
             next == IF old.status = "failed" /\ newAt # None THEN None ELSE r.nextAttemptAt
             newOp == IF op = Keep THEN r.op ELSE op
             snap == IF op = Keep THEN r.snap ELSE NoSnapshot
             new == [r EXCEPT !.status = stat, !.scheduledAt = sched, !.notValidAfter = exp,
                              !.nextAttemptAt = next, !.op = newOp, !.snap = snap]
  <2>2. row' = [row EXCEPT ![c] = new] /\ Exists(r)
    BY <2>1 DEF Update
  <2>3. /\ stat \in Status /\ sched \in {None} \cup Nat /\ exp \in {None} \cup Nat
        /\ next \in {None} \cup Nat /\ snap \in {NoSnapshot} \cup Snapshot
    <3>1. /\ r.scheduledAt \in {None} \cup Nat /\ r.notValidAfter \in {None} \cup Nat
          /\ r.nextAttemptAt \in {None} \cup Nat /\ r.snap \in {NoSnapshot} \cup Snapshot
      BY <1>0 DEF Row
    <3>2. at \in {None, Keep} \cup Nat /\ expiry \in {None, Keep} \cup Nat
      BY NumbersAssumption DEF ClientTimes
    <3>3. windowed => at + ExpiryWindow \in Nat
      BY <3>2, NumbersAssumption
    <3>4. exp \in {None} \cup Nat
      BY <3>1, <3>2, <3>3
    <3> QED BY <3>1, <3>2, <3>4 DEF Status
  <2>4. newOp \in Op
    BY <1>0, <2>2, OpChoiceAssumption
  <2> HIDE DEF newAt, stat, sched, windowed, exp, next, newOp, snap
  <2>5. new \in Row /\ new.op \in Op
    BY <1>0, <2>3, <2>4 DEF Row
  <2> HIDE DEF new
  <2> QED BY <2>2, <2>5 DEF RowShaped, StoreShaped
<1>4. CASE Cancel(c, old) \/ MarkReverted(c, old)
  <2>1. PICK stat \in Status : row' = [row EXCEPT ![c].status = stat, ![c].leaseExpiresAt = None]
    BY <1>4 DEF Cancel, MarkReverted, Status
  <2>2. Exists(row[c]) /\ row'[c] = [row[c] EXCEPT !.status = stat, !.leaseExpiresAt = None]
    BY <1>4, <2>1 DEF Cancel, MarkReverted, StoreShaped
  <2>3. RowShaped(row'[c])
    BY <1>0, <2>2 DEF RowShaped, Row
  <2> QED BY <2>1, <2>3 DEF StoreShaped
<1>5. CASE MarkRunning(c, old)
  <2>1. now + LeaseTTL \in Nat
    BY <1>0, NumbersAssumption
  <2>2. /\ Exists(row[c])
        /\ row' = [row EXCEPT ![c].status = "running", ![c].attempts = @ + 1,
                              ![c].leaseExpiresAt = now + LeaseTTL]
    BY <1>5 DEF MarkRunning
  <2>3. row'[c] = [row[c] EXCEPT !.status = "running", !.attempts = @ + 1,
                                 !.leaseExpiresAt = now + LeaseTTL]
    BY <2>2 DEF StoreShaped
  <2>4. RowShaped(row'[c])
    BY <1>0, <2>1, <2>2, <2>3, TakenShaped
  <2> QED BY <2>2, <2>4 DEF StoreShaped
<1>6. CASE MarkApplied(c)
  <2>1. Exists(row[c]) /\ row'[c] = [row[c] EXCEPT !.status = "applied", !.nextAttemptAt = None,
                                                   !.leaseExpiresAt = None]
    BY <1>6 DEF MarkApplied, StoreShaped
  <2>2. RowShaped(row'[c])
    BY <1>0, <2>1 DEF RowShaped, Row, Status
  <2> QED BY <1>6, <2>2 DEF MarkApplied, StoreShaped
<1>7. CASE MarkFailed(c, row[c])
  <2> DEFINE r == row[c]
             retry == r.attempts < MaxAttempts /\ r.scheduledAt # None
             stat == IF retry THEN "scheduled" ELSE "failed"
             next == IF retry THEN now + RetryBackoff * r.attempts ELSE None
  <2>1. Exists(r) /\ row' = [row EXCEPT ![c].status = stat, ![c].nextAttemptAt = next,
                                        ![c].leaseExpiresAt = None]
    BY <1>7 DEF MarkFailed
  <2>2. stat \in Status
    BY DEF Status
  <2>3. next \in {None} \cup Nat
    <3>1. r.attempts \in Nat
      BY <1>0 DEF Row
    <3> QED BY <1>0, <3>1, RetryTime
  <2> HIDE DEF stat, next, retry
  <2>4. row'[c] = [r EXCEPT !.status = stat, !.nextAttemptAt = next, !.leaseExpiresAt = None]
    BY <2>1 DEF StoreShaped
  <2>5. row'[c] \in Row /\ row'[c].op = r.op
    BY <1>0, <2>2, <2>3, <2>4 DEF Row
  <2> QED BY <1>0, <2>1, <2>5 DEF RowShaped, StoreShaped
<1>8. CASE \E snapshot \in Snapshot : SaveSnapshots(c, snapshot)
  <2>1. PICK snap \in {NoSnapshot} \cup Snapshot : row' = [row EXCEPT ![c].snap = snap]
    BY <1>0, <1>8 DEF SaveSnapshots, Row
  <2>2. row'[c] = [row[c] EXCEPT !.snap = snap]
    BY <2>1 DEF StoreShaped
  <2>3. row'[c] \in Row /\ row'[c].status = row[c].status /\ row'[c].op = row[c].op
    BY <1>0, <2>2 DEF Row
  <2> QED BY <1>0, <2>1, <2>3 DEF RowShaped, Exists, StoreShaped
<1> QED BY <1>1, <1>2, <1>3, <1>4, <1>5, <1>6, <1>7, <1>8

\* A row deleted, a row taken up and a row swept have their type too.
LEMMA SweptShaped ==
    ASSUME StoreShaped, NEW c \in Change
    PROVE  /\ RowShaped(Swept(row[c])) /\ RowShaped(NoRow("purged"))
           /\ Exists(row[c]) => RowShaped([row[c] EXCEPT !.status = "running", !.attempts = @ + 1,
                                                        !.leaseExpiresAt = now + LeaseTTL])
<1>0. row[c] \in Row /\ (Exists(row[c]) => row[c].op \in Op) /\ now + LeaseTTL \in Nat
  BY NumbersAssumption DEF StoreShaped, RowShaped
<1>1. RowShaped(Swept(row[c]))
  <2>1. CASE Overdue(row[c])
    <3>1. Exists(row[c])
      BY <2>1 DEF Overdue, Exists, Missing
    <3>2. Swept(row[c]) = [row[c] EXCEPT !.status = "expired", !.leaseExpiresAt = None]
      BY <2>1 DEF Swept
    <3> QED BY <1>0, <3>1, <3>2 DEF RowShaped, Row, Status
  <2>2. CASE ~Overdue(row[c])
    BY <1>0, <2>2 DEF Swept, RowShaped
  <2> QED BY <2>1, <2>2
<1>2. RowShaped(NoRow("purged"))
  BY DEF RowShaped, NoRow, Row, Exists, Missing
<1>3. ASSUME Exists(row[c])
      PROVE  RowShaped([row[c] EXCEPT !.status = "running", !.attempts = @ + 1,
                                      !.leaseExpiresAt = now + LeaseTTL])
  BY <1>0, <1>3, TakenShaped
<1> QED BY <1>1, <1>2, <1>3

\* Every step of the service writes rows of their type, even on stale rows.
LEMMA StoreShapedNext ==
    ASSUME Shaped, [SchedulerNext]_vars
    PROVE  StoreShaped'
<1>0. StoreShaped
  BY DEF Shaped
<1>1. ASSUME NEW c \in Change, UNCHANGED now, RowShaped(row'[c]),
             row' = [d \in Change |-> row'[d]], \A d \in Change \ {c} : row'[d] = row[d]
      PROVE  StoreShaped'
  BY <1>0, <1>1 DEF StoreShaped
<1>2. ASSUME NEW w \in Worker, LoopStep(w) PROVE StoreShaped'
  <2>1. CASE ExpireTick(w) \/ IdleTick(w)
    BY <1>0, <2>1, SweptShaped DEF ExpireTick, IdleTick, ClaimNone, ExpireOverdue, StoreShaped
  <2>2. CASE \E gone \in SUBSET Change : Retain(w, gone)
    BY <1>0, <2>2, SweptShaped DEF Retain, Purge, StoreShaped
  <2>3. ASSUME NEW c \in Change, Claim(w, c) PROVE StoreShaped'
    <3>1. Exists(row[c])
      BY <2>3, ClaimedRow DEF Claim, Exists, Missing
    <3> QED BY <1>0, <2>3, <3>1, SweptShaped DEF Claim, ClaimDue, StoreShaped
  <2> QED BY <1>2, <2>1, <2>2, <2>3 DEF LoopStep
<1>3. ASSUME NEW e \in Exec, ExecuteStep(e) PROVE StoreShaped'
  <2>1. CASE SaveAndSend(e)
    <3>1. job[e].change \in Change /\ job[e].base \in Snapshot
      BY <2>1, SchedulerAssumption DEF SaveAndSend, Shaped, JobOK, ExecutingAt
    <3> QED BY <1>0, <1>1, <2>1, <3>1, MethodShaped DEF SaveAndSend
  <2>2. CASE Applied(e) \/ Failed(e)
    <3>1. job[e].change \in Change
      BY <2>2 DEF Applied, Failed, Shaped, JobOK, ExecutingAt
    <3>2. UNCHANGED now /\ (UNCHANGED row \/ MarkApplied(job[e].change)
                              \/ MarkFailed(job[e].change, row[job[e].change]))
      BY <2>2 DEF Applied, Failed
    <3> QED BY <1>0, <1>1, <3>1, <3>2, MethodShaped DEF StoreShaped
  <2>3. CASE Capture(e) \/ Deliver(e) \/ Reject(e) \/ SendFails(e) \/ LoseOutcome(e)
             \/ SaveFails(e)
    BY <1>0, <2>3 DEF Capture, Deliver, Reject, SendFails, LoseOutcome, SaveFails, StoreShaped
  <2> QED BY <1>3, <2>1, <2>2, <2>3 DEF ExecuteStep
<1>4. ASSUME NEW q \in Request, RequestStep(q) PROVE StoreShaped'
  <2>1. ASSUME NEW c \in Change, Edit(q, c) \/ CancelRequest(q, c) \/ ApplyNow(q, c)
        PROVE  StoreShaped'
    BY <1>0, <1>1, <2>1, MethodShaped DEF Edit, CancelRequest, ApplyNow
  <2>2. CASE FinishRevert(q)
    <3>1. job[q].change \in Change
      BY <2>2 DEF FinishRevert, Shaped, JobOK, Exec
    <3>2. UNCHANGED now /\ (UNCHANGED row \/ MarkReverted(job[q].change, row[job[q].change]))
      BY <2>2 DEF FinishRevert
    <3> QED BY <1>0, <1>1, <3>1, <3>2, MethodShaped DEF StoreShaped
  <2>3. CASE \/ Refuse(q) \/ DeliverRevert(q) \/ RevertFails(q)
             \/ \E c \in Change : ReadRow(q, c) \/ BeginRevert(q, c)
    BY <1>0, <2>3 DEF Refuse, DeliverRevert, RevertFails, ReadRow, BeginRevert, StoreShaped
  <2> QED BY <1>4, <2>1, <2>2, <2>3 DEF RequestStep
<1>5. ASSUME NEW c \in Change, Submit(c) PROVE StoreShaped'
  BY <1>0, <1>1, <1>5, MethodShaped DEF Submit
<1>6. CASE \/ \E k \in Key : RefreshZone(k)
           \/ \E k \in Key, rrset \in RRset : External(k, rrset)
           \/ \E e \in Exec : Crash(e)
           \/ Pass \/ UNCHANGED vars
  BY <1>0, <1>6 DEF RefreshZone, External, Crash, Pass, Tick, vars, StoreShaped
<1> QED BY <1>2, <1>3, <1>4, <1>5, <1>6 DEF SchedulerNext

\* The types hold at the start.
LEMMA ShapedInit == SchedulerInit => Shaped
<1> SUFFICES ASSUME SchedulerInit PROVE Shaped
  OBVIOUS
<1>1. StoreShaped
  <2>1. RowShaped(NoRow("absent"))
    BY DEF RowShaped, NoRow, Row, Exists, Missing
  <2> QED BY <2>1 DEF SchedulerInit, Init, StoreShaped
<1>2. \A e \in Exec : JobOK(pc[e], job[e])
  BY JobTypes DEF SchedulerInit
<1> QED
  BY <1>1, <1>2, JobTypes, Labels DEF SchedulerInit, Shaped

LEMMA TypedInit == SchedulerInit => Typed
BY ShapedInit, InvInit DEF SchedulerInit, Typed

\* Every step keeps the types, whatever goes wrong.
LEMMA ShapedNext ==
    ASSUME Shaped, [SchedulerNext]_vars
    PROVE  Shaped'
<1>1. StoreShaped'
  BY StoreShapedNext
<1>2. SharedTyped' /\ OwnTyped'
  <2>1. CASE \E c \in Change : Submit(c)
    BY <2>1 DEF Submit, SharedTyped, OwnTyped, Shaped
  <2>2. CASE \E k \in Key : RefreshZone(k)
    BY <2>2, CacheTypes, CacheStep DEF RefreshZone, SharedTyped, OwnTyped, Shaped
  <2>3. CASE \E k \in Key, rrset \in RRset : External(k, rrset)
    BY <2>3, ServeTyped DEF External, SharedTyped, OwnTyped, Shaped
  <2>4. ASSUME NEW e \in Exec, Crash(e) PROVE SharedTyped' /\ OwnTyped'
    BY <2>4, JobTypes, Labels DEF Crash, SharedTyped, OwnTyped, Shaped
  <2>5. CASE Pass \/ UNCHANGED vars
    BY <2>5 DEF Pass, vars, SharedTyped, OwnTyped, Shaped
  <2> QED
    BY <2>1, <2>2, <2>3, <2>4, <2>5, LoopTyped, ExecuteTyped, RequestTyped
    DEF SchedulerNext
<1> QED
  BY <1>1, <1>2 DEF SharedTyped, OwnTyped, Shaped

\* While the transactions of the service are serialised, every step keeps the
\* promises of the store as well.
LEMMA TypedNext ==
    ASSUME "shared_db" \notin Faults, Typed, [SchedulerNext]_vars
    PROVE  Typed'
BY StoreStep, InvNext, ShapedNext DEF Typed

\* The loops, requests and the cache hold what they should, whatever goes wrong and
\* even if instances of the service race for a row: in particular an execution always
\* has the change, the operation and the deadline it goes by.
THEOREM SchedulerTypeCorrect == SchedulerSpec => []SchedulerTypeOK
<1>1. Shaped => SchedulerTypeOK
  BY DEF Shaped, StoreShaped, RowShaped, TypeOK, SchedulerTypeOK
<1>2. Shaped /\ [SchedulerNext]_vars => Shaped'
  BY ShapedNext
<1> QED
  BY <1>1, <1>2, ShapedInit, PTL DEF SchedulerSpec

\* Loops, executions and requests, in any interleaving and with any faults, use the
\* store only as its specification allows: every invariant of ChangeStore holds of
\* the service too.
THEOREM SchedulerUsesStore ==
    ASSUME "shared_db" \notin Faults
    PROVE  SchedulerSpec => Spec
<1>1. SchedulerInit => Init
  BY DEF SchedulerInit
<1>2. Typed /\ [SchedulerNext]_vars => Typed' /\ [Next]_storeVars
  BY TypedNext, StoreStep
<1> QED
  BY <1>1, <1>2, TypedInit, PTL DEF SchedulerSpec, Spec

--------------------------------------------------------------------------------
(* What is applied was delivered *)

\* The inductive invariant: besides the reports themselves, an execution that has its
\* answer holds it for a change the server carried out.
Delivered ==
    /\ AppliedWasDelivered
    /\ \A e \in Exec : pc[e] = "accepted" => done[job[e].change] # None

\* Nothing is reported applied, and no answer is had, that was not before the step.
NoNewApplied ==
    \A c \in Change : row'[c].status = "applied" /\ row'[c].attempts > 0 =>
                          row[c].status = "applied" /\ row[c].attempts > 0
NoNewAnswer ==
    \A e \in Exec : pc'[e] = "accepted" => pc[e] = "accepted" /\ job'[e].change = job[e].change

LEMMA DeliveredStep ==
    ASSUME Delivered, NoNewApplied, NoNewAnswer, UNCHANGED done, Shaped, Shaped'
    PROVE  Delivered'
<1>1. AppliedWasDelivered'
  BY DEF Delivered, AppliedWasDelivered, NoNewApplied
<1> QED BY <1>1 DEF Delivered, NoNewAnswer

\* A loop or request goes on to anything but an answer.
LEMMA NoAnswer ==
    ASSUME Shaped, NEW e \in Exec, NEW label, label # "accepted",
           pc' = [pc EXCEPT ![e] = label],
           \/ UNCHANGED job
           \/ \E j : job' = [job EXCEPT ![e] = j]
    PROVE  NoNewAnswer
BY DEF Shaped, NoNewAnswer

\* No method of the store but mark_applied reports a change applied, except as a
\* direct write, which is no attempt; whatever the row the method goes by.
LEMMA MethodApplied ==
    ASSUME StoreShaped, NEW c \in Change, NEW old,
           \/ \E at, expiry \in ClientTimes, op \in OpChoice : Create(c, at, expiry, op)
           \/ \E outcome \in {"applied", "failed"}, op \in OpChoice :
                  RecordExternalChange(c, outcome, op)
           \/ \E at, expiry \in ClientTimes \cup {Keep}, op \in OpChoice \cup {Keep} :
                  Update(c, old, at, expiry, op)
           \/ Cancel(c, old) \/ MarkRunning(c, old) \/ MarkReverted(c, old)
           \/ MarkFailed(c, row[c])
           \/ \E snapshot \in Snapshot : SaveSnapshots(c, snapshot)
    PROVE  NoNewApplied
<1>1. row[c] \in Row
  BY DEF StoreShaped, RowShaped
<1>2. \A d \in Change \ {c} : row'[d] = row[d]
  BY MethodShaped
<1>3. CASE \E at, expiry \in ClientTimes, op \in OpChoice : Create(c, at, expiry, op)
  <2>1. PICK stat \in {"scheduled", "draft"} : \E at, exp, op :
            row' = [row EXCEPT ![c] = [NoRow("absent") EXCEPT
                       !.status = stat, !.scheduledAt = at, !.notValidAfter = exp, !.op = op]]
    BY <1>3, Zenon DEF Create
  <2>2. row'[c].status # "applied"
    BY <2>1 DEF NoRow, StoreShaped
  <2> QED BY <1>2, <2>2 DEF NoNewApplied
<1>4. CASE \E outcome \in {"applied", "failed"}, op \in OpChoice : RecordExternalChange(c, outcome, op)
  <2>1. row'[c].attempts = 0
    BY <1>4 DEF RecordExternalChange, NoRow, StoreShaped
  <2> QED BY <1>2, <2>1 DEF NoNewApplied
<1>5. CASE \E at, expiry \in ClientTimes \cup {Keep}, op \in OpChoice \cup {Keep} :
              Update(c, old, at, expiry, op)
  <2>1. PICK at \in ClientTimes \cup {Keep}, expiry \in ClientTimes \cup {Keep},
             op \in OpChoice \cup {Keep} : Update(c, old, at, expiry, op)
    BY <1>5
  <2>2. row'[c].status \in {"scheduled", "draft"}
    BY <1>1, <2>1 DEF Update, StoreShaped, Row
  <2> QED BY <1>2, <2>2 DEF NoNewApplied
<1>6. CASE Cancel(c, old) \/ MarkRunning(c, old) \/ MarkReverted(c, old)
  <2>1. row'[c].status \in {"cancelled", "running", "reverted"}
    BY <1>1, <1>6 DEF Cancel, MarkRunning, MarkReverted, StoreShaped, Row
  <2> QED BY <1>2, <2>1 DEF NoNewApplied
<1>7. CASE MarkFailed(c, row[c])
  <2>1. row'[c].status \in {"scheduled", "failed"}
    BY <1>1, <1>7 DEF MarkFailed, StoreShaped, Row
  <2> QED BY <1>2, <2>1 DEF NoNewApplied
<1>8. CASE \E snapshot \in Snapshot : SaveSnapshots(c, snapshot)
  <2>1. row'[c].status = row[c].status /\ row'[c].attempts = row[c].attempts
    BY <1>1, <1>8 DEF SaveSnapshots, StoreShaped, Row
  <2> QED BY <1>2, <2>1 DEF NoNewApplied
<1> QED BY <1>3, <1>4, <1>5, <1>6, <1>7, <1>8

LEMMA LoopDelivered ==
    ASSUME Shaped, NEW w \in Worker, LoopStep(w)
    PROVE  NoNewApplied /\ NoNewAnswer /\ UNCHANGED done
<1>1. w \in Exec
  BY DEF Exec
<1>2. \A c \in Change : Swept(row[c]).status = "applied" => Swept(row[c]) = row[c]
  <2>1. ASSUME NEW c \in Change, Overdue(row[c]) PROVE Swept(row[c]).status = "expired"
    BY <2>1 DEF Swept, Shaped, StoreShaped, RowShaped, Row
  <2>2. ASSUME NEW c \in Change, ~Overdue(row[c]) PROVE Swept(row[c]) = row[c]
    BY <2>2 DEF Swept
  <2> QED BY <2>1, <2>2
<1>3. CASE ExpireTick(w) \/ IdleTick(w)
  <2>1. NoNewApplied
    BY <1>2, <1>3 DEF ExpireTick, IdleTick, ClaimNone, ExpireOverdue, NoNewApplied
  <2> QED BY <1>1, <1>3, <2>1, NoAnswer DEF ExpireTick, IdleTick, Goto
<1>4. ASSUME NEW gone \in SUBSET Change, Retain(w, gone)
      PROVE  NoNewApplied /\ NoNewAnswer /\ UNCHANGED done
  <2>1. NoNewApplied
    BY <1>4 DEF Retain, Purge, NoRow, NoNewApplied
  <2> QED BY <1>1, <1>4, <2>1, NoAnswer DEF Retain, Goto
<1>5. ASSUME NEW c \in Change, Claim(w, c)
      PROVE  NoNewApplied /\ NoNewAnswer /\ UNCHANGED done
  <2>1. row'[c].status = "running" /\ \A d \in Change \ {c} : row'[d] = Swept(row[d])
    BY <1>5 DEF Claim, ClaimDue, Shaped, StoreShaped, RowShaped, Row
  <2>2. NoNewApplied
    BY <1>2, <2>1 DEF NoNewApplied
  <2> QED BY <1>1, <1>5, <2>2, NoAnswer DEF Claim, Begin, Goto
<1> QED BY <1>3, <1>4, <1>5 DEF LoopStep

LEMMA ExecuteDelivered ==
    ASSUME Shaped, Shaped', Delivered, NEW e \in Exec, ExecuteStep(e)
    PROVE  Delivered'
<1> DEFINE c == job[e].change
<1>1. c \in Change /\ job[e].op \in Op
  BY DEF ExecuteStep, Capture, SaveAndSend, Deliver, Reject, SendFails,
     LoseOutcome, Applied, Failed, SaveFails, Shaped, JobOK, ExecutingAt
<1>2. CASE Capture(e) \/ Reject(e) \/ SendFails(e) \/ LoseOutcome(e) \/ SaveFails(e)
  <2>1. UNCHANGED <<row, done>> /\ NoNewAnswer
    <3>1. CASE Capture(e)
      <4>1. PICK j : job' = [job EXCEPT ![e] = j]
        BY <3>1 DEF Capture, Shaped
      <4> QED BY <3>1, <4>1, NoAnswer DEF Capture, Goto
    <3>2. CASE Reject(e) \/ SendFails(e) \/ LoseOutcome(e) \/ SaveFails(e)
      BY <3>2, NoAnswer DEF Reject, SendFails, LoseOutcome, SaveFails, Goto
    <3> QED BY <1>2, <3>1, <3>2
  <2> QED BY <2>1, DeliveredStep DEF NoNewApplied
<1>3. CASE SaveAndSend(e)
  <2>1. NoNewApplied
    <3>1. job[e].base \in Snapshot
      BY <1>3, SchedulerAssumption DEF SaveAndSend, Shaped, JobOK, ExecutingAt
    <3> QED BY <1>1, <1>3, <3>1, MethodApplied DEF SaveAndSend, Shaped
  <2>2. PICK label \in {"sent", "failing"} : \E j : Begin(e, label, j)
    BY <1>3 DEF SaveAndSend
  <2> QED BY <1>3, <2>1, <2>2, NoAnswer, DeliveredStep DEF SaveAndSend, Begin, Goto
<1>4. CASE Deliver(e)
  <2>1. /\ done'[c] # None /\ \A d \in Change \ {c} : done'[d] = done[d]
    <3>1. dns[Target[c]] \in RRset
      BY <1>1, SchedulerAssumption DEF Shaped
    <3>2. [op |-> job[e].op, before |-> dns[Target[c]]] # None
      BY <1>1, <3>1, SchedulerAssumption
    <3> QED BY <1>1, <1>4, <3>2 DEF Deliver, Shaped
  <2>2. UNCHANGED <<row, job>> /\ pc' = [pc EXCEPT ![e] = "accepted"]
    BY <1>4 DEF Deliver, Goto
  <2>3. AppliedWasDelivered'
    BY <2>1, <2>2 DEF Delivered, AppliedWasDelivered
  <2>4. ASSUME NEW f \in Exec, pc'[f] = "accepted" PROVE done'[job'[f].change] # None
    <3>1. CASE job[f].change = c
      BY <2>1, <2>2, <3>1
    <3>2. CASE job[f].change # c
      <4>1. f # e /\ pc[f] = "accepted"
        BY <2>2, <2>4, <3>2 DEF Shaped
      <4>2. job[f].change \in Change
        BY <4>1 DEF Shaped, JobOK, ExecutingAt
      <4> QED BY <2>1, <2>2, <3>2, <4>1, <4>2 DEF Delivered
    <3> QED BY <3>1, <3>2
  <2> QED BY <2>3, <2>4 DEF Delivered
<1>5. CASE Applied(e)
  <2>1. NoNewAnswer
    BY <1>5, NoAnswer DEF Applied, Finish, Goto
  <2>2. done[c] # None /\ UNCHANGED done /\ \A d \in Change \ {c} : row'[d] = row[d]
    BY <1>1, <1>5 DEF Applied, MarkApplied, Delivered, Shaped, StoreShaped
  <2>3. AppliedWasDelivered'
    BY <2>2 DEF Delivered, AppliedWasDelivered
  <2> QED BY <2>1, <2>2, <2>3 DEF Delivered, NoNewAnswer
<1>6. CASE Failed(e)
  <2>1. NoNewApplied
    BY <1>1, <1>6, MethodApplied DEF Failed, NoNewApplied, Shaped
  <2> QED BY <1>6, <2>1, NoAnswer, DeliveredStep DEF Failed, Finish, Goto
<1> QED BY <1>2, <1>3, <1>4, <1>5, <1>6 DEF ExecuteStep

LEMMA RequestDelivered ==
    ASSUME Shaped, NEW q \in Request, RequestStep(q)
    PROVE  NoNewApplied /\ NoNewAnswer /\ UNCHANGED done
<1>1. q \in Exec /\ StoreShaped
  BY DEF Exec, Shaped
<1>2. ASSUME NEW c \in Change, Edit(q, c) \/ CancelRequest(q, c) \/ ApplyNow(q, c)
      PROVE  NoNewApplied /\ NoNewAnswer /\ UNCHANGED done
  <2>1. NoNewApplied
    BY <1>1, <1>2, MethodApplied DEF Edit, CancelRequest, ApplyNow
  <2> QED BY <1>1, <1>2, <2>1, NoAnswer DEF Edit, CancelRequest, ApplyNow, Finish, Begin, Goto
<1>3. CASE FinishRevert(q)
  <2>1. job[q].change \in Change
    BY <1>1, <1>3 DEF FinishRevert, Shaped, JobOK
  <2>2. NoNewApplied
    BY <1>1, <1>3, <2>1, MethodApplied DEF FinishRevert, NoNewApplied
  <2> QED BY <1>1, <1>3, <2>2, NoAnswer DEF FinishRevert, Finish, Goto
<1>4. CASE Refuse(q) \/ DeliverRevert(q) \/ RevertFails(q)
  BY <1>1, <1>4, NoAnswer DEF Refuse, DeliverRevert, RevertFails, Finish, Goto, NoNewApplied
<1>5. ASSUME NEW c \in Change, ReadRow(q, c) \/ BeginRevert(q, c)
      PROVE  NoNewApplied /\ NoNewAnswer /\ UNCHANGED done
  <2>1. PICK label \in {"read", "revert_sent", "revert_accepted"} : \E j : Begin(q, label, j)
    BY <1>5 DEF ReadRow, BeginRevert
  <2>2. NoNewAnswer
    BY <1>1, <2>1, NoAnswer DEF Begin, Goto
  <2>3. UNCHANGED <<row, done>>
    BY <1>5 DEF ReadRow, BeginRevert
  <2> QED BY <2>2, <2>3 DEF NoNewApplied
<1> QED BY <1>2, <1>3, <1>4, <1>5 DEF RequestStep

LEMMA DeliveredNext ==
    ASSUME Shaped, Delivered, [SchedulerNext]_vars
    PROVE  Delivered'
<1>1. Shaped' /\ StoreShaped
  BY ShapedNext DEF Shaped
<1>2. ASSUME NEW c \in Change, Submit(c) PROVE Delivered'
  <2>1. NoNewApplied
    BY <1>1, <1>2, MethodApplied DEF Submit
  <2> QED BY <1>1, <1>2, <2>1, DeliveredStep DEF Submit, NoNewAnswer
<1>3. CASE \/ \E k \in Key : RefreshZone(k)
           \/ \E k \in Key, rrset \in RRset : External(k, rrset)
           \/ Pass \/ UNCHANGED vars
  BY <1>1, <1>3, DeliveredStep DEF RefreshZone, External, Pass, vars, NoNewApplied, NoNewAnswer
<1>4. ASSUME NEW e \in Exec, Crash(e) PROVE Delivered'
  <2>1. NoNewAnswer
    BY <1>4 DEF Crash, NoNewAnswer
  <2> QED BY <1>1, <1>4, <2>1, DeliveredStep DEF Crash, NoNewApplied
<1> QED
  BY <1>1, <1>2, <1>3, <1>4, LoopDelivered, ExecuteDelivered, RequestDelivered, DeliveredStep
  DEF SchedulerNext

\* A change reported applied was carried out by the server, whatever goes wrong: even
\* if executions outlast their leases, answers are lost and instances of the service
\* race for a row, no outcome is stored that was not had.
THEOREM AppliedWasDeliveredAlways == SchedulerSpec => []AppliedWasDelivered
<1>1. SchedulerInit => Shaped /\ Delivered
  BY ShapedInit DEF SchedulerInit, Init, NoRow, Delivered, AppliedWasDelivered
<1>2. Shaped /\ Delivered /\ [SchedulerNext]_vars => Shaped' /\ Delivered'
  BY ShapedNext, DeliveredNext
<1>3. Delivered => AppliedWasDelivered
  BY DEF Delivered
<1> QED
  BY <1>1, <1>2, <1>3, PTL DEF SchedulerSpec

--------------------------------------------------------------------------------
(* Mutual exclusion *)

\* An execution holds its change: the row is running under this execution's own
\* lease, which has not run out, and still asks for the operation being sent.
Holds(e) ==
    LET r == row[job[e].change]
    IN  /\ r.status = "running" /\ r.leaseExpiresAt = job[e].deadline
        /\ r.op = job[e].op /\ now <= job[e].deadline

\* The inductive invariant.
Safe ==
    /\ Typed
    /\ \A e \in Exec : Executing(e) => Holds(e)
    /\ MutualExclusion

\* What is executed elsewhere than at e is executed after the step as before it.
Others(e) ==
    \A f \in Exec \ {e} : Executing(f)' =>
        /\ Executing(f) /\ job'[f] = job[f]
        /\ row'[job[f].change] = row[job[f].change]

\* A step at e that does not begin an execution and leaves alone the row and the
\* job of an execution that goes on.
LEMMA SafeOn ==
    ASSUME Safe, Typed', UNCHANGED now, NEW e \in Exec, Others(e),
           Executing(e)' => /\ Executing(e)
                            /\ job'[e].change = job[e].change /\ job'[e].op = job[e].op
                            /\ job'[e].deadline = job[e].deadline
                            /\ row'[job[e].change].status = row[job[e].change].status
                            /\ row'[job[e].change].op = row[job[e].change].op
                            /\ row'[job[e].change].leaseExpiresAt
                                  = row[job[e].change].leaseExpiresAt
    PROVE  Safe'
<1>1. ASSUME NEW f \in Exec, Executing(f)' PROVE Holds(f)' /\ Executing(f)
                                                   /\ job'[f].change = job[f].change
  <2>1. CASE f = e
    BY <1>1, <2>1 DEF Safe, Holds
  <2>2. CASE f # e
    BY <1>1, <2>2 DEF Safe, Holds, Others
  <2> QED
    BY <2>1, <2>2
<1>2. MutualExclusion'
  BY <1>1 DEF Safe, MutualExclusion
<1> QED
  BY <1>1, <1>2 DEF Safe

\* Nobody executes a change that is not running, or whose lease has run out.
LEMMA NotExecuted ==
    ASSUME Safe, NEW c \in Change, NEW e \in Exec, Executing(e), job[e].change = c
    PROVE  row[c].status = "running" /\ ~LeaseExpired(row[c])
<1>1. job[e].deadline \in Nat /\ now \in Nat
  BY DEF Safe, Typed, Shaped, Inv, JobOK, Executing
<1> QED
  BY <1>1 DEF Safe, Holds, LeaseExpired

\* A step that takes up a change nobody executes.
LEMMA SafeTake ==
    ASSUME Safe, Typed', UNCHANGED now, NEW e \in Exec, NEW c \in Change,
           Begin(e, "claimed", NewJob(c)), Others(e),
           \A f \in Exec : Executing(f) => job[f].change # c,
           row'[c].status = "running", row'[c].leaseExpiresAt = now + LeaseTTL,
           row'[c].op = row[c].op
    PROVE  Safe'
<1>1. /\ job'[e].change = c /\ job'[e].op = row[c].op
      /\ job'[e].deadline = now + LeaseTTL
  BY DEF Begin, NewJob, NoJob, Safe, Typed, Shaped
<1>2. Holds(e)'
  <2>1. now \in Nat /\ LeaseTTL \in Nat
    BY NumbersAssumption DEF Safe, Typed, Shaped, Inv
  <2> QED
    BY <1>1, <2>1 DEF Holds
<1>3. ASSUME NEW f \in Exec \ {e}, Executing(f)'
      PROVE  Holds(f)' /\ Executing(f) /\ job'[f] = job[f] /\ job'[f].change # c
  BY <1>3 DEF Others, Safe, Holds
<1>4. MutualExclusion'
  BY <1>1, <1>3 DEF Safe, MutualExclusion
<1> QED
  BY <1>2, <1>3, <1>4 DEF Safe

\* No running row is written.
RunningKept == \A c \in Change : row[c].status = "running" => row'[c] = row[c]

\* A step after which e executes nothing, if no running row is written.
LEMMA SafeAside ==
    ASSUME Safe, Typed', UNCHANGED now, RunningKept, NEW e \in Exec, NEW label, NEW j,
           pc' = [pc EXCEPT ![e] = label], job' = [job EXCEPT ![e] = j], label \notin ExecutingAt
    PROVE  Safe'
<1>1. ~Executing(e)'
  BY DEF Executing, Safe, Typed, Shaped
<1>2. Others(e)
  <2>1. ASSUME NEW f \in Exec \ {e}, Executing(f)'
        PROVE  Executing(f) /\ job'[f] = job[f] /\ row'[job[f].change] = row[job[f].change]
    <3>1. Executing(f) /\ job'[f] = job[f]
      BY <2>1 DEF Executing, Safe, Typed, Shaped
    <3>2. job[f].change \in Change
      BY <3>1 DEF Safe, Typed, Shaped, JobOK, Executing
    <3> QED
      BY <3>1, <3>2, NotExecuted DEF RunningKept
  <2> QED
    BY <2>1 DEF Others
<1> QED
  BY <1>1, <1>2, SafeOn

\* So too if no loop and no request moves.
LEMMA SafeStill ==
    ASSUME Safe, Typed', UNCHANGED <<now, pc, job>>, RunningKept
    PROVE  Safe'
<1>1. ASSUME NEW f \in Exec, Executing(f)' PROVE Executing(f) /\ Holds(f)'
  <2>1. Executing(f) /\ job[f].change \in Change
    BY <1>1 DEF Executing, Safe, Typed, Shaped, JobOK
  <2> QED
    BY <2>1, NotExecuted DEF RunningKept, Safe, Holds
<1>2. MutualExclusion'
  BY <1>1 DEF Safe, MutualExclusion
<1> QED
  BY <1>1, <1>2 DEF Safe

\* A row is taken up while no other running row is written.
LEMMA TakenUp ==
    ASSUME Safe, Typed', UNCHANGED now, NEW e \in Exec, NEW c \in Change,
           ~Executing(e), Begin(e, "claimed", NewJob(c)),
           row[c].status # "running" \/ LeaseExpired(row[c]),
           row'[c].status = "running", row'[c].leaseExpiresAt = now + LeaseTTL,
           row'[c].op = row[c].op,
           \A d \in Change \ {c} : row[d].status = "running" => row'[d] = row[d]
    PROVE  Safe'
<1>1. \A f \in Exec : Executing(f) => job[f].change # c
  BY NotExecuted
<1>2. Others(e)
  <2>1. ASSUME NEW f \in Exec \ {e}, Executing(f)'
        PROVE  Executing(f) /\ job'[f] = job[f] /\ row'[job[f].change] = row[job[f].change]
    <3>1. Executing(f) /\ job'[f] = job[f]
      BY <2>1 DEF Begin, Goto, Executing, Safe, Typed, Shaped
    <3>2. job[f].change \in Change \ {c}
      BY <1>1, <3>1 DEF Safe, Typed, Shaped, JobOK, Executing
    <3> QED
      BY <3>1, <3>2, NotExecuted
  <2> QED
    BY <2>1 DEF Others
<1> QED
  BY <1>1, <1>2, SafeTake

\* Sweeping overdue changes writes no running row.
LEMMA SweepKeeps ==
    /\ Typed /\ ExpireOverdue => RunningKept
    /\ \A c \in Change : Typed /\ ClaimDue(c) =>
          \A d \in Change \ {c} : row[d].status = "running" => row'[d] = row[d]
BY DEF ExpireOverdue, ClaimDue, Swept, Overdue, RunningKept

\* A step of a loop is safe.
LEMMA LoopSafe ==
    ASSUME Safe, Typed', NEW w \in Worker, LoopStep(w)
    PROVE  Safe'
<1>1. w \in Exec /\ Typed /\ job[w] \in Job /\ job = [job EXCEPT ![w] = job[w]]
  BY DEF Exec, Safe, Typed, Shaped
<1>2. CASE ExpireTick(w) \/ IdleTick(w)
  <2>1. RunningKept /\ UNCHANGED now
    BY <1>1, <1>2, SweepKeeps DEF ExpireTick, IdleTick, ClaimNone
  <2> QED
    BY <1>1, <1>2, <2>1, SafeAside, Labels DEF ExpireTick, IdleTick, Goto
<1>3. ASSUME NEW gone \in SUBSET Change, Retain(w, gone) PROVE Safe'
  <2>1. RunningKept
    BY <1>3, PurgeAssumption DEF Retain, Purge, Purgeable, RunningKept
  <2> QED
    BY <1>1, <1>3, <2>1, SafeAside, Labels DEF Retain, Goto
<1>4. ASSUME NEW c \in Change, Claim(w, c) PROVE Safe'
  <2>1. row[c].status # "running" \/ LeaseExpired(row[c])
    BY <1>1, <1>4, ClaimedRow DEF Claim, Typed
  <2>2. /\ row'[c].status = "running" /\ row'[c].leaseExpiresAt = now + LeaseTTL
        /\ row'[c].op = row[c].op
    <3>1. row[c] \in Row
      BY <1>1 DEF Typed, Shaped, Inv, RowOK
    <3>2. row'[c] = [row[c] EXCEPT !.status = "running", !.attempts = @ + 1,
                                   !.leaseExpiresAt = now + LeaseTTL]
      BY <1>4 DEF Claim, ClaimDue
    <3> QED
      BY <3>1, <3>2 DEF Row
  <2>3. ~Executing(w) /\ Begin(w, "claimed", NewJob(c)) /\ UNCHANGED now
    BY <1>4, Labels DEF Claim, Executing
  <2>4. \A d \in Change \ {c} : row[d].status = "running" => row'[d] = row[d]
    BY <1>1, <1>4, SweepKeeps DEF Claim
  <2> QED
    BY <1>1, <2>1, <2>2, <2>3, <2>4, TakenUp
<1> QED
  BY <1>2, <1>3, <1>4 DEF LoopStep

\* A step of an execution that writes no row but its own leaves the others alone.
LEMMA OwnRowOnly ==
    ASSUME Safe, NEW e \in Exec, Executing(e),
           \A f \in Exec \ {e} : pc'[f] = pc[f] /\ job'[f] = job[f],
           \A c \in Change \ {job[e].change} : row'[c] = row[c]
    PROVE  Others(e)
<1>1. ASSUME NEW f \in Exec \ {e}, Executing(f)'
      PROVE  /\ Executing(f) /\ job'[f] = job[f]
             /\ row'[job[f].change] = row[job[f].change]
  <2>1. Executing(f) /\ job[f].change \in Change
    BY <1>1 DEF Executing, Safe, Typed, Shaped, JobOK
  <2>2. job[f].change # job[e].change
    BY <2>1 DEF Safe, MutualExclusion
  <2> QED
    BY <2>1, <2>2
<1> QED
  BY <1>1 DEF Others

\* A step of an execution is safe.
LEMMA ExecuteSafe ==
    ASSUME Safe, Typed', NEW e \in Exec, ExecuteStep(e)
    PROVE  Safe'
<1> DEFINE c == job[e].change
<1>1. /\ Executing(e) /\ UNCHANGED now
      /\ \A f \in Exec \ {e} : pc'[f] = pc[f] /\ job'[f] = job[f]
  BY DEF ExecuteStep, Capture, SaveAndSend, Deliver, Reject, SendFails, LoseOutcome, Applied,
     Failed, SaveFails, Executing, ExecutingAt, Finish, Begin, Goto, Safe, Typed, Shaped
<1>2. c \in Change /\ job[e] \in Job /\ row[c] \in Row
  BY <1>1 DEF Safe, Typed, Shaped, JobOK, Executing, Inv, RowOK
<1>3. CASE Capture(e)
  <2>1. Others(e)
    BY <1>1, <1>3, OwnRowOnly DEF Capture
  <2>2. /\ job'[e].change = job[e].change /\ job'[e].op = job[e].op
        /\ job'[e].deadline = job[e].deadline
    BY <1>2, <1>3 DEF Capture, Safe, Typed, Shaped, Job
  <2> QED
    BY <1>1, <1>3, <2>1, <2>2, SafeOn DEF Capture
<1>4. CASE SaveAndSend(e)
  <2>1. row' = [row EXCEPT ![c].snap = IF Exists(row[c]) THEN job[e].base ELSE @]
    BY <1>4 DEF SaveAndSend, SaveSnapshots
  <2>2. Others(e)
    BY <1>1, <2>1, OwnRowOnly DEF Safe, Typed, Shaped, Inv
  <2>3. /\ row'[c].status = row[c].status /\ row'[c].op = row[c].op
        /\ row'[c].leaseExpiresAt = row[c].leaseExpiresAt
    BY <1>2, <2>1 DEF Row, Safe, Typed, Shaped, Inv
  <2>4. /\ job'[e].change = job[e].change /\ job'[e].op = job[e].op
        /\ job'[e].deadline = job[e].deadline
    BY <1>2, <1>4 DEF SaveAndSend, Begin, Safe, Typed, Shaped, Job
  <2> QED
    BY <1>1, <2>2, <2>3, <2>4, SafeOn
<1>5. CASE Deliver(e) \/ Reject(e) \/ SendFails(e) \/ LoseOutcome(e) \/ SaveFails(e)
  <2>1. UNCHANGED <<row, job>>
    BY <1>5 DEF Deliver, Reject, SendFails, LoseOutcome, SaveFails
  <2> QED
    BY <1>1, <2>1, OwnRowOnly, SafeOn
<1>6. CASE Applied(e)
  <2>1. CASE MarkApplied(c) /\ Finish(e)
    <3>1. Others(e)
      BY <1>1, <2>1, OwnRowOnly DEF MarkApplied, Safe, Typed, Shaped, Inv
    <3>2. ~Executing(e)'
      BY <2>1, Labels DEF Finish, Goto, Executing, Safe, Typed, Shaped
    <3> QED
      BY <1>1, <3>1, <3>2, SafeOn
  <2>2. CASE ~Exists(row[c]) /\ Goto(e, "failing") /\ UNCHANGED <<row, job>>
    BY <1>1, <2>2, OwnRowOnly, SafeOn
  <2> QED
    BY <1>6, <2>1, <2>2 DEF Applied
<1>7. CASE Failed(e)
  <2>1. \A d \in Change \ {c} : row'[d] = row[d]
    BY <1>7 DEF Failed, MarkFailed, Safe, Typed, Shaped, Inv
  <2>2. ~Executing(e)'
    BY <1>7, Labels DEF Failed, Finish, Goto, Executing, Safe, Typed, Shaped
  <2> QED
    BY <1>1, <2>1, <2>2, OwnRowOnly, SafeOn
<1> QED
  BY <1>3, <1>4, <1>5, <1>6, <1>7 DEF ExecuteStep

\* A step of a request is safe.
LEMMA RequestSafe ==
    ASSUME "shared_db" \notin Faults, Safe, Typed', NEW q \in Request, RequestStep(q)
    PROVE  Safe'
<1>1. q \in Exec /\ Typed /\ job[q] \in Job /\ job = [job EXCEPT ![q] = job[q]]
  BY DEF Exec, Safe, Typed, Shaped
<1>2. ASSUME NEW c \in Change, Edit(q, c) \/ CancelRequest(q, c) PROVE Safe'
  <2>1. row[c].status # "running" /\ \A d \in Change \ {c} : row'[d] = row[d]
    <3>1. CASE CancelRequest(q, c)
      BY <1>1, <3>1 DEF CancelRequest, Has, Shared, Cancel, Typed, Shaped, Inv
    <3>2. CASE Edit(q, c)
      <4>1. PICK at, expiry, op : Update(c, row[c], at, expiry, op)
        BY <3>2 DEF Edit, Has, Shared
      <4> QED
        BY <1>1, <4>1 DEF Update, Editable, Typed, Shaped, Inv
    <3> QED
      BY <1>2, <3>1, <3>2
  <2>2. RunningKept
    BY <2>1 DEF RunningKept
  <2> QED
    BY <1>1, <1>2, <2>2, SafeAside, Labels DEF Edit, CancelRequest, Finish, Goto
<1>3. ASSUME NEW c \in Change, ApplyNow(q, c) PROVE Safe'
  <2>1. MarkRunning(c, row[c]) /\ ~Executing(q) /\ UNCHANGED now
        /\ Begin(q, "claimed", NewJob(c))
    BY <1>3, Labels DEF ApplyNow, Has, Shared, Executing
  <2>2. row[c] \in Row
    BY <1>1 DEF Typed, Shaped, Inv, RowOK
  <2>3. /\ row'[c].status = "running" /\ row'[c].leaseExpiresAt = now + LeaseTTL
        /\ row'[c].op = row[c].op
    BY <1>1, <2>1, <2>2 DEF MarkRunning, Row, Typed, Shaped, Inv
  <2>4. row[c].status # "running" /\ \A d \in Change \ {c} : row'[d] = row[d]
    BY <1>1, <2>1 DEF MarkRunning, Typed, Shaped, Inv
  <2> QED
    BY <1>1, <2>1, <2>3, <2>4, TakenUp
<1>4. ASSUME NEW c \in Change, BeginRevert(q, c) PROVE Safe'
  <2>1. PICK label \in {"revert_sent", "revert_accepted"} : \E j : Begin(q, label, j)
    BY <1>4 DEF BeginRevert
  <2>2. UNCHANGED now /\ RunningKept
    BY <1>4 DEF BeginRevert, RunningKept
  <2> QED
    BY <1>1, <2>1, <2>2, SafeAside, Labels DEF Begin, Goto
<1>5. CASE DeliverRevert(q)
  <2>1. UNCHANGED <<now, job>> /\ RunningKept
    BY <1>5 DEF DeliverRevert, RunningKept
  <2> QED
    BY <1>1, <1>5, <2>1, SafeAside, Labels DEF DeliverRevert, Goto
<1>6. CASE FinishRevert(q)
  <2>1. RunningKept
    BY <1>1, <1>6 DEF FinishRevert, MarkReverted, RunningKept, Typed, Shaped, Inv
  <2> QED
    BY <1>1, <1>6, <2>1, SafeAside, Labels DEF FinishRevert, Finish, Goto
<1>7. CASE RevertFails(q) \/ Refuse(q)
  <2>1. RunningKept
    BY <1>7 DEF RevertFails, Refuse, RunningKept
  <2> QED
    BY <1>1, <1>7, <2>1, SafeAside, Labels DEF RevertFails, Refuse, Finish, Goto
<1>8. ASSUME NEW c \in Change, ReadRow(q, c) PROVE Safe'
  BY <1>8 DEF ReadRow, Shared
<1> QED
  BY <1>2, <1>3, <1>4, <1>5, <1>6, <1>7, <1>8 DEF RequestStep

\* Every step is safe.
LEMMA SafeNext ==
    ASSUME Faults \cap {"slow", "shared_db"} = {}, Safe, [SchedulerNext]_vars
    PROVE  Safe'
<1>1. Typed /\ Typed'
  BY TypedNext DEF Safe
<1>2. ASSUME NEW c \in Change, Submit(c) PROVE Safe'
  <2>1. RunningKept
    BY <1>1, <1>2 DEF Submit, Create, RecordExternalChange, RunningKept, Typed, Shaped, Inv
  <2> QED
    BY <1>1, <1>2, <2>1, SafeStill DEF Submit
<1>3. CASE \/ \E k \in Key : RefreshZone(k)
           \/ \E k \in Key, rrset \in RRset : External(k, rrset)
           \/ UNCHANGED vars
  BY <1>1, <1>3, SafeStill DEF RefreshZone, External, vars, RunningKept
<1>4. ASSUME NEW e \in Exec, Crash(e) PROVE Safe'
  <2>1. \A f \in Exec : ~Executing(f)'
    BY <1>4, Labels DEF Crash, Process, Shared, Executing
  <2> QED
    BY <1>1, <2>1 DEF Safe, MutualExclusion
<1>5. CASE Pass
  <2>1. ASSUME NEW e \in Exec, Executing(e)' PROVE Executing(e) /\ Holds(e)'
    <3>1. Executing(e) /\ Holds(e) /\ now < job[e].deadline
      BY <1>5, <2>1 DEF Pass, Executing, Safe
    <3>2. now \in Nat /\ job[e].deadline \in Nat /\ now' = now + 1
      BY <1>1, <1>5, <3>1 DEF Pass, Tick, Typed, Shaped, Inv, JobOK, Executing
    <3> QED
      BY <1>5, <3>1, <3>2 DEF Pass, Holds
  <2>2. MutualExclusion'
    BY <1>5, <2>1 DEF Pass, Safe, MutualExclusion
  <2> QED
    BY <1>1, <2>1, <2>2 DEF Safe
<1> QED
  BY <1>1, <1>2, <1>3, <1>4, <1>5, LoopSafe, ExecuteSafe, RequestSafe DEF SchedulerNext

\* The invariant holds at the start: nobody executes anything.
LEMMA SafeInit == SchedulerInit => Safe
<1>1. SchedulerInit => \A e \in Exec : ~Executing(e)
  BY Labels DEF SchedulerInit, Executing
<1> QED
  BY <1>1, TypedInit DEF Safe, MutualExclusion

\* Lease claiming works within a process: as long as no execution outlasts its lease,
\* no two loops or requests execute a change at the same time, whatever else fails.
THEOREM MutualExclusionAlways ==
    ASSUME Faults \cap {"slow", "shared_db"} = {}
    PROVE  SchedulerSpec => []MutualExclusion
<1>1. Safe => MutualExclusion
  BY DEF Safe
<1>2. Safe /\ [SchedulerNext]_vars => Safe'
  BY SafeNext
<1> QED
  BY <1>1, <1>2, SafeInit, PTL DEF SchedulerSpec

\* While a change is executed its row stays running, under the lease of that
\* execution, with the operation being sent: what the execution read before its
\* awaits is still so after them.
THEOREM ExecutionHoldsLeaseAlways ==
    ASSUME Faults \cap {"slow", "shared_db"} = {}
    PROVE  SchedulerSpec => []ExecutionHoldsLease
<1>1. Safe => ExecutionHoldsLease
  BY DEF Safe, Holds, ExecutionHoldsLease
<1>2. Safe /\ [SchedulerNext]_vars => Safe'
  BY SafeNext
<1> QED
  BY <1>1, <1>2, SafeInit, PTL DEF SchedulerSpec

--------------------------------------------------------------------------------
(* Final statuses *)

Final == {"cancelled", "expired", "reverted"}

\* Change c, if it ended for good, stays so in this step.
StaysFinal(c) ==
    row[c].status \in Final => row'[c].status \in {row[c].status, "purged"}

\* A loop does not disturb what is final,
LEMMA LoopFinal ==
    ASSUME Typed, NEW w \in Worker, LoopStep(w), NEW c \in Change
    PROVE  StaysFinal(c)
<1> SUFFICES ASSUME row[c].status \in Final
             PROVE  row'[c].status \in {row[c].status, "purged"}
  BY DEF StaysFinal
<1>1. ~Overdue(row[c]) /\ Swept(row[c]) = row[c]
  BY DEF Final, Overdue, Swept
<1>2. ASSUME NEW d \in Change, Claim(w, d) PROVE row'[c] = row[c]
  <2>1. c # d
    BY <1>2, ClaimedRow DEF Claim, Final, Typed
  <2> QED
    BY <1>1, <1>2, <2>1 DEF Claim, ClaimDue
<1>3. ASSUME NEW gone \in SUBSET Change, Retain(w, gone)
      PROVE  row'[c].status \in {row[c].status, "purged"}
  BY <1>3 DEF Retain, Purge, NoRow
<1>4. CASE ExpireTick(w) \/ IdleTick(w)
  BY <1>1, <1>4 DEF ExpireTick, IdleTick, ClaimNone, ExpireOverdue
<1> QED
  BY <1>2, <1>3, <1>4 DEF LoopStep

\* nor does an execution, whose own change is running,
LEMMA ExecuteFinal ==
    ASSUME Safe, NEW e \in Exec, ExecuteStep(e), NEW c \in Change
    PROVE  StaysFinal(c)
<1>1. Executing(e)
  BY DEF ExecuteStep, Capture, SaveAndSend, Deliver, Reject, SendFails, LoseOutcome, Applied,
     Failed, SaveFails, Executing, ExecutingAt
<1>2. row[job[e].change].status = "running"
  BY <1>1 DEF Safe, Holds
<1>3. CASE c = job[e].change
  BY <1>2, <1>3 DEF StaysFinal, Final
<1>4. CASE c # job[e].change
  <2>1. row'[c] = row[c]
    BY <1>4 DEF ExecuteStep, Capture, SaveAndSend, SaveSnapshots, Deliver, Reject, SendFails,
       LoseOutcome, Applied, MarkApplied, Failed, MarkFailed, SaveFails, Safe, Typed, Shaped, Inv
  <2> QED
    BY <2>1 DEF StaysFinal
<1> QED
  BY <1>3, <1>4

\* nor a request.
LEMMA RequestFinal ==
    ASSUME "shared_db" \notin Faults, Typed, NEW q \in Request, RequestStep(q), NEW c \in Change
    PROVE  StaysFinal(c)
<1>1. ASSUME NEW d \in Change, Edit(q, d) \/ CancelRequest(q, d) \/ ApplyNow(q, d)
      PROVE  row[d].status \notin Final /\ \A x \in Change \ {d} : row'[x] = row[x]
  <2>1. CASE Edit(q, d)
    <3>1. PICK at, expiry, op : Update(d, row[d], at, expiry, op)
      BY <2>1 DEF Edit, Has, Shared
    <3> QED
      BY <3>1 DEF Update, Editable, Final, Typed, Shaped, Inv
  <2>2. CASE CancelRequest(q, d)
    BY <2>2 DEF CancelRequest, Has, Shared, Cancel, Final, Typed, Shaped, Inv
  <2>3. CASE ApplyNow(q, d)
    BY <2>3 DEF ApplyNow, Has, Shared, MarkRunning, Final, Typed, Shaped, Inv
  <2> QED
    BY <1>1, <2>1, <2>2, <2>3
<1>2. CASE FinishRevert(q)
  <2> DEFINE d == job[q].change
  <2>1. \/ row[d].status = "applied" /\ \A x \in Change \ {d} : row'[x] = row[x]
        \/ UNCHANGED row
    BY <1>2 DEF FinishRevert, MarkReverted, Typed, Shaped, Inv
  <2> QED
    BY <2>1 DEF StaysFinal, Final
<1>3. CASE \/ Refuse(q) \/ DeliverRevert(q) \/ RevertFails(q)
           \/ \E d \in Change : ReadRow(q, d) \/ BeginRevert(q, d)
  BY <1>3 DEF Refuse, DeliverRevert, RevertFails, ReadRow, BeginRevert, StaysFinal
<1> QED
  BY <1>1, <1>2, <1>3 DEF RequestStep, StaysFinal

\* Cancelled, expired and reverted changes stay so: an outcome that comes late, a
\* retry, an edit or a claim can only meet a change that has not ended.
THEOREM FinalStaysFinalAlways ==
    ASSUME Faults \cap {"slow", "shared_db"} = {}
    PROVE  SchedulerSpec => FinalStaysFinal
<1>1. ASSUME Safe, [SchedulerNext]_vars, NEW c \in Change PROVE StaysFinal(c)
  <2>1. Typed /\ "shared_db" \notin Faults
    BY <1>1 DEF Safe
  <2>2. CASE \E d \in Change : Submit(d)
    <3>1. PICK d \in Change : Submit(d)
      BY <2>2
    <3>2. row[d].status = "absent" /\ \A x \in Change \ {d} : row'[x] = row[x]
      BY <2>1, <3>1 DEF Submit, Create, RecordExternalChange, Typed, Shaped, Inv
    <3> QED
      BY <3>2 DEF StaysFinal, Final
  <2>3. CASE \/ \E k \in Key : RefreshZone(k)
             \/ \E k \in Key, rrset \in RRset : External(k, rrset)
             \/ \E e \in Exec : Crash(e)
             \/ Pass \/ UNCHANGED vars
    BY <2>3 DEF RefreshZone, External, Crash, Pass, vars, StaysFinal
  <2> QED
    BY <1>1, <2>1, <2>2, <2>3, LoopFinal, ExecuteFinal, RequestFinal DEF SchedulerNext
<1>2. Safe /\ [SchedulerNext]_vars =>
        [\A c \in Change : row[c].status \in {"cancelled", "expired", "reverted"} =>
            row'[c].status \in {row[c].status, "purged"}]_vars
  BY <1>1 DEF StaysFinal, Final
<1>3. Safe /\ [SchedulerNext]_vars => Safe'
  BY SafeNext
<1> QED
  BY <1>2, <1>3, SafeInit, PTL DEF SchedulerSpec, FinalStaysFinal
================================================================================
