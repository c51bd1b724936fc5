# Formal models of dns-zone-manager

The backend (`src/backend/src/dns_zone_manager`) edits DNS zones by RFC 2136
UPDATE messages. It serves a REST API and a browser frontend, keeps a cache of the
zones it transferred, listens for NOTIFY, tells browsers and webhooks what changed, and
carries out *scheduled changes* stored in SQLite or PostgreSQL. This directory models
these parts in TLA+: TLC checks the models on small instances, TLAPS proves theorems
about them for every value of the constants.

Paths below are relative to `src/backend/src/dns_zone_manager` unless they start
with `src/`; `*.ts` files are in `src/frontend/modules`.

```
tlc -workers 2 -config MCSchedulerFaults.cfg MCScheduler     # one run
tlapm Scheduler_proofs.tla                                   # the proofs of a module
```

## 1. Inventory

| Part | State | Operations | Interacts with |
|---|---|---|---|
| Store, `scheduler/store.py`, `schema.py` | tables of changes, their operations, audit events | one transaction per method: create, update, cancel, claim_due, mark_*, save_operation_snapshots, purge_* | called by the API, the loop, retention, webhooks; `_TransactionLock` serialises the transactions of one process only |
| Scheduler loop and executor, `scheduler/runner.py`, `executor.py` | lease owner, the change in hand | poll: expire, claim, execute, or retention | store, zone cache, DNS client |
| Snapshots and revert, `scheduler/revert.py` | columns `prior_records`, `snapshot_at` | capture before the UPDATE; inverse operations | zone cache, store, API |
| Scheduled-change API, `routers/scheduled.py` | none | create, edit, cancel, apply now, revert, preview | store, executor, DNS client |
| Retention, `scheduler/retention.py` | none | delete by age, then by size; vacuum | store, from the loop's idle ticks |
| UPDATE builder, `dns/update_builder.py`, `cname_exclusivity.py` | none | operations to prerequisites, update section and cache mutations | zone cache |
| Zone cache, `dns/cache.py` | zones in LRU order, total size, catalog zones | refresh (IXFR or AXFR), optimistic update, eviction, catalog sync, search | DNS client; used by every router, NOTIFY, the refresh task and the executor; threads and the event loop |
| DNS client, `dns/client.py` | I/O thread pool | UPDATE, AXFR, IXFR, SOA query | DNS server; emits change events to live hub and webhooks |
| NOTIFY receiver, `dns/notify.py` | in-flight and pending zones, last start | coalesce NOTIFYs into refreshes | zone cache, live hub |
| Live hub, `live/hub.py`, `routers/live.py` | subscribers per zone, addresses | subscribe within limits, broadcast, drop dead sockets | DNS client events, NOTIFY |
| Webhooks, `notifications/` | bounded queue, worker | enqueue or drop, deliver with retries, drain on stop, record direct writes as changes | DNS client events, store |
| Direct writes, `routers/rrsets.py`, `atomic.py`, `nsupdate.py` | none | validate, UPDATE, optimistic cache update | zone cache, DNS client |
| nsupdate, `dns/nsupdate_parser.py`, `nsupdate_to_scheduled.py` | none | parse; convert to operations and prerequisites | API |
| History and rollback, `routers/history.py` | none | IXFR windows, RFC 1982 serials, inverse of a range | DNS client |
| Reverse records, `routers/reverse.py`, `dns/reverse.py` | none | PTR creation, one UPDATE per address | zone cache, DNS client |
| Catalog and refresh task, `routers/catalog.py`, `main.py` | background tasks | sync zones of a catalog; refresh by SOA timers; start-up and shutdown order | zone cache |
| Search and listing, `routers/search.py`, `zones.py` | none | cursor pagination | zone cache |
| Web frontend, `src/frontend` | the record table: page, cursors, history, total | paging, live messages | API, live hub |
| Engine and migrations, `scheduler/engine.py`, `migrate.py` | schema version | upgrade at start-up | database |
| Authentication, configuration, CLI, logging, metrics | none or counters | stateless | all |

What is hard, and what makes each part correct:

* **Store.** Any order of edits, claims, retries, apply-now, reverts and purges must
  leave rows whose status, schedule, lease and retry time agree. Across instances
  a status that was read may be stale when the row is written.
* **Loop and executor.** `execute_change` awaits the store, the server and the store
  again while other loops, requests and retention run; processes die in between,
  answers get lost. One execution at a time; a status that matches what the server
  did; due work is taken up, abandoned work taken over.
* **Snapshots and revert.** The snapshot must be the state the UPDATE found, though
  it comes from a cache others write; a revert must restore it.
* **Zone cache.** Threads transfer and mutate zone objects while they are replaced or
  evicted; an optimistic update moves the cached serial past changes never pulled. A
  cached zone must stay one that the next incremental transfer can put right, and get
  there; the size count must follow the cache.
* **Direct writes.** Requests are built from a cache of any age and carried out by a
  server that ignores some updates silently. No lost update; the cache edit must be what
  the server made of the UPDATE; conversions (draft, rollback, PTR) keep the meaning.
* **NOTIFY and live hub.** No NOTIFY without a later refresh, no change without its
  broadcast; limits hold and nobody is forgotten while subscribers come and go.
* **Webhooks.** Order and links of notifications survive retries and failures; a stop
  drains the queue; a full queue drops events and nothing else.
* **Pagination.** The zone changes between two pages, answers overtake one another, live
  messages edit the table. Nothing skipped, repeated, or shown that does not exist.

`PROJECT.json` lists every hazard at the line where it bites, with the properties
that catch it.

## 2. Modules

| Module | Models |
|---|---|
| `RRsetOps` | one operation on an RRset (a set of records): its automatic prerequisite, its effect, its snapshot, the inverse of a revert |
| `ChangeStore` | the store: each operator one method, one transaction. `Spec` lets any caller call any method at any time with any argument |
| `ChangeLifecycle` | the abstract promise: statuses and the one holder of a change, without clock, lease, row or DNS |
| `Scheduler` | extends both: loops, execute_change, API requests, DNS server, a cached RRset, crashes, lost answers, store failures, instances sharing a database |
| `ZoneCache` | the zone cache in detail: refreshes step by step in the loop and in NOTIFY threads, edits after UPDATEs, eviction, catalog sync |
| `DnsUpdate` | UPDATE messages: the server's RFC 2136 rules, and the messages the code builds (single RRsets, batches, drafts, rollbacks); serial arithmetic |
| `DirectWrites` | extends `DnsUpdate`: the requests that write at once, from the cache they read to the answer they handle |
| `RecordPages` | the listings of the API and the browser's table that pages through them |
| `LiveUpdates` | NOTIFY coalescing and the live hub, from the change to the browsers |
| `Webhooks` | the webhook dispatcher |
| `MC*` | instances for TLC |
| `*_proofs` | theorems and proofs |

The models meet at the interfaces of the code: `Scheduler` contains the store whole (`ChangeStore`)
and an abstract cache of one RRset; `DirectWrites` an abstract cache of one zone whose steps `ZoneCache` has in
detail; `LiveUpdates` a refresh as one step; `RecordPages` the live messages as they arrive.

### ChangeStore and Scheduler: state

* `row[c]` is a row of `scheduled_changes` with its operation; the statuses `absent`
  and `purged` stand for no row before and after. `None` is a null, `NoSnapshot` a
  null `snapshot_at`.
* `now` is the clock of all processes (`_utcnow`).
* `dns[k]` is the RRset at the server, `cache[k]` what the zone cache holds: `None`
  (zone not cached) or a view with the cached RRset and, in `behind`, the records the
  server changed since the cached serial. An incremental transfer corrects the
  records in `behind`; an optimistic update with serial take-over
  (`refresh_zone_serial`) empties it without pulling anything.
* `pc[e]`, `job[e]` are the position and local variables of a loop or request, one
  label per await: `claimed`, `captured` (snapshot taken), `sent`, `accepted` (the
  server carried it out), `failing` (an exception was raised), and for reverts
  `revert_sent`, `revert_accepted`; `read` is a request between its SELECT and its
  UPDATE on a shared database.
* `done[c]` is history only: the last operation the server carried out for a change, and
  the RRset it found.

### ChangeStore and Scheduler: actions

| Action | Code |
|---|---|
| `ExpireTick`, `Claim`, `IdleTick`, `Retain` | a pass of `run_scheduler_loop`: expire_overdue; claim_due with or without a result; retention |
| `Capture` | `refresh_zone` and `capture_prior_state` |
| `SaveAndSend`, `SaveFails` | `save_operation_snapshots`, then `build_update` and the send |
| `Deliver`, `Reject`, `SendFails`, `LoseOutcome` | what the server and the network make of the UPDATE |
| `Applied`, `Failed` | cache update and `mark_applied`; the exception handlers and `mark_failed` |
| `Submit`, `ReadRow`, `Edit`, `CancelRequest`, `ApplyNow`, `Refuse` | API requests |
| `BeginRevert`, `DeliverRevert`, `RevertFails`, `FinishRevert` | the revert request |
| `RefreshZone`, `External`, `Crash`, `Pass` | NOTIFY and readers; other writers; a process dies; time |

A store method that checks a row before it writes takes the row it read as the
argument `old`. `_TransactionLock` makes that the current row within one process. With
the fault `shared_db` (PostgreSQL, several instances) the SELECT and the UPDATE of a
request are two actions with other instances in between; claim_due stays one action,
because it locks and updates in one statement.

`Faults` chooses what may go wrong: `crash`, `lost_response`, `store_error`, `slow`
(an execution outlasts its lease; leases are never renewed), `stale_cache` (a refresh
fails and is only logged), `shared_db`, `external` (other writers).

### ZoneCache

State: `history[z]` is the server's zone at every serial; `cache[z]` an object of `_zones` (serial, records) or
`None`; `lru`, `catalog`, `total` are the order of `_zones`, `_catalog_zones` and `_current_size_bytes`; `task[a]` is where the event
loop or the NOTIFY thread of a zone is, which zone it works on, whether the object it holds is still the cached one
(`held`), the serials of the answer it waits for, and what is `left` to be entered of the UPDATE in hand. `sent` holds UPDATEs the server accepted and the cache has not
handled yet. An UPDATE changes any set of records, split among its operations in any way: `apply_cache_updates` goes through
`update_cache_after_*`, and so through `get_zone`, the edit and `refresh_zone_serial`, once per operation. `suspect`, of an object, and
`edited`, of a task, are history variables, see below.

| Action | Code |
|---|---|
| `BeginRefresh`, `Notify`, `BeginThread` | `refresh_zone` from the background task or a request; the NOTIFY callback's `peek_zone`, then its thread |
| `QuerySerial`, `AskDiff`, `NoAnswer`, `ApplyDiff` | `refresh_zone_with_ops`, `_refresh_zone_ixfr`: the SOA query, the incremental transfer, its failure, `apply_ixfr_changes` |
| `TransferAll`, `Install` | `_refresh_zone_axfr`: the transfer, and what it does under the lock: budget, eviction, insertion |
| `BeginEdit`, `NextOperation`, `Edit`, `Relook`, `AskSerial`, `TakeOver` | `apply_cache_updates`: for one operation after the other `update_cache_after_add`/`delete`/`replace` and `refresh_zone_serial` |
| `Read`, `Invalidate` | `get_zone`; `invalidate_zone` |
| `BeginSync`, `SyncZone`, `EndSync` | `sync_from_catalog` |
| `ServerChanges`, `Written`, `Restart` | other writers; our own UPDATE at the server; shutdown (`invalidate_all`) or a crash of the process |

### DnsUpdate and DirectWrites

A zone is the set of its records. `Carried` is one update at the server, with the CNAME rules and the RRsets that it silently keeps (`Protected`: the apex NS, RFC 2136
3.4.2.3 and 3.4.2.4); `Accepts` and `Result` are a
whole message. `PrepareAdd`, `PrepareDelete`, `PrepareReplace` are the client's messages for one RRset, `BuildUpdate` and
`BuildError` those of a batch, `OpsToAtomic` and `DraftUpdate` a transaction saved as a draft, `ReverseChanges` a rollback.

In `DirectWrites`, `history` is the server's zone at every serial, `copy` the cached zone, `job[q]` the request: the message
it sent, what it will send next (`then`, the add after the delete of a replaced PTR), what it will do to the cache
(`edits`), the rest of its transactions or addresses (`todo`), and the answer.

| Action | Code |
|---|---|
| `AddRequest`, `DeleteRequest`, `ReplaceRequest` | `routers/rrsets.py` |
| `AtomicUpdate`, `ExecuteNsupdate`, `ApplyDraft`, `CreateReversePtr`, `Rollback` | `routers/atomic.py`, `nsupdate.py`, a draft of `nsupdate_to_scheduled.py`, `reverse.py`, `history.py` |
| `Execute`, `Refuse` | the server carries the message out, or refuses its prerequisites |
| `Succeeded`, `Rejected`, `Fail` | handling of the answer: cache edit, refresh after a rejection, the next message; a request that fails, carried out or not, goes on at once |
| `Other`, `Reload` | other clients of the server; refreshes and evictions of the cached zone |

### RecordPages

An RRset is its position in the order of the listing. `listing` says which one it is: the records of a zone (the list of zones is like it), or a search in
a zone or in all zones, of names or data (`search`, `global`) or of `either`, the browser's default. `page` is the table (rows, cursors, more, total,
history), `loads` the requests in flight in the order in which they were made, `feed` the live messages on their way. `walk` is a history variable: which
rows were in the zone throughout, and were shown, while paging onward.

The first page of a search of either is two requests, each cut to a page, answered one by one (`parts`). A part that fails counts as empty; the union of both is
shown, its size is called the total, and there is no next page. `Queried` are the searches with a text. A search with only a type sends the pattern `.*`,
which finds all; but a jump to a page of it makes up a history and sends nothing (`GoToNoPage`), and a jump in a search of either asks the server for
what matches in both. The jump sends the text where the first request sent `.*text.*`, which the server, searching anywhere in the string, finds in the same places.

The browser sorts the rows it inserts by its own order (`compareRecords`: names by `localeCompare`, without the type, or another column), which is the constant `Rank`:
any order, with ties. `WouldFit` and `WithRow` compare ranks; the server's pages and cursors compare positions.

A change is told, as itself or as `zone_reload`, or it is not: the socket is connected after the first load, messages are lost
while it is down, and a silent refresh sends none. What is not told makes the page, the answers given and the messages sent before it `old`.

| Action | Code |
|---|---|
| `GoToFirstPage`, `GoToNextPage`, `GoToPrevPage`, `GoToLastPage`, `GoToRecordPage`, `GoToNoPage`, `Reload` | the handlers of `records.ts`, `search.ts` |
| `Serve` | `list_rrsets`, `search_zone`, `search_all_zones` on the zone as it is |
| `ServePart`, `PartFails` | one of the two requests of a search of either |
| `Deliver`, `LoadFails` | what `loadRecords` or `performSearch` does with the answer, in any order of arrival; goToLastPage goes on |
| `LiveMessage`, `Change` | `applyLiveOperations`, or the page is loaded again; UPDATEs that change the zone |

### LiveUpdates and Webhooks

`LiveUpdates`: contents are version numbers. `task[z]`, `pending` are `_inflight` and `_pending` of the NOTIFY listener; `casts` are
the broadcast tasks with the sockets still to be served; `byZone`, `all`, `ips` the hub's; `sock[s]` where a socket's handler is.
`Notify`, `StartCallback`, `Refresh`, `RefreshFails`, `EndCallback` are the listener (with the cooldown as any delay); `Write` is our own
UPDATE, which is announced; `Silent` a refresh nobody announces; `Subscribe`, `Reject`, `Leave`, `EndHandler` the handler of a WebSocket;
`StartCast`, `Send`, `EndCast` a broadcast. `slow`, `owed`, `said`, `unsaid` are history variables.

`Webhooks`: `queue`, `unfinished` are the `asyncio.Queue`, `handed` the events on their way from threads, `worker` the task `_run`:
the event in hand, whether it still has its link, the targets to come, the attempt. `EmitOnLoop`, `EmitInThread`, `EnqueueHanded` are
`emit`; `Take`, `Record`, `Deliver`, `Finish` the worker; `Stop`, `Join`, `Cancel` the method `stop` with its timeout.

### Abstractions

* A scheduled change has one operation, on an RRset in a zone of its own; a build error is a step to
  `failing`. Batches, explicit prerequisites and CNAME exclusivity are in `DirectWrites`.
* TTLs, lease owner, last_error, rcode, audit events and timestamps nobody tests are
  left out. Nothing in the code compares the lease owner.
* `mark_failed` and `mark_reverted` read the row in the same step as they write it, also on a
  shared database. With `shared_db` the loops and requests still share one cache
  variable, which a crash then leaves as it is.
* An UPDATE whose sender died or gave up is not delivered later. Errors of the store
  inside the claim transaction only end the tick.
* `Crash` strikes while something is executed. Between ticks it only delays the next
  tick; during a revert it ends like `RevertFails`. `Process(e)` says what dies
  together.
* Retention deletes any subset of the rows `_purgeable_filters` allows, which covers the
  age cut and every trimming order.
* A write that goes around the scheduler and is recorded as a change
  (`record_external_change`) appears in its final status.
* `ZoneCache`: a zone's size is one more than its number of records. An object that left the cache no longer matters, so
  whoever holds one works on with `held = FALSE`. Each record of an UPDATE belongs to one of its operations, and a record that one operation deletes and another adds again
is not among its changes. An UPDATE that changed nothing at the server has no serial of its own; its edit, e.g. of a deletion of the apex NS alone, is left out.
The edits that differ from what the server did, along with a change, are `EnteredAmiss`. A NOTIFY thread exists per zone; the coalescing that
  guarantees this is in `LiveUpdates`.
* `DirectWrites`: the cache is read, the message built and sent in one step of the event loop, and so the answer is
  handled; between them anything happens. A refresh of `copy` yields the server's zone, the differences applied, or nothing
  new. What is protected is a constant: RRsets that the server does not let go, and that a rollback does not touch (the apex NS). The SOA and DNSSEC
records are left out of the zones, since every UPDATE makes the server write them anew. Of an apex NS RRset deleted record by record the record that stays is an arbitrary one; at the server it
is the last in the message. `RRsetOps`, hence `Scheduler`, is about RRsets a server lets go. The records of an add are a set; where their order would matter, two CNAMEs at one name of which the server keeps the
  last, requests and transactions have one.
* `RecordPages`: what matches is given: `ByName` and `ByData` for a search of either, for the other searches the zone is what matches. A live `replace` is not told from an add.
* `LiveUpdates`: a refresh is one step. Reconnection of browsers is a new socket.
* `Webhooks`: the store and the targets fail or not; payloads, matching and authentication headers are left out.

## 3. Runs

| Run | Instance | Shows |
|---|---|---|
| `store` | 2 changes, clock 0..2, 2 attempts and one beyond | `TypeOK`, `LeaseIffRunning`, `ScheduledHasTime`, `FailedIsExhausted`, `NoRetryLeftBehind`: rows stay consistent whoever calls what when |
| `execution` | 1 change, 8 operations, 2 records, a loop and a request, no fault | `EffectIsReported`, `SnapshotIsPriorState`, `RevertRestores`: reports match the server, snapshots are what the UPDATE found, reverts restore |
| `faults` | 1 change, 2 loops and a request; crashes, lost answers, store errors, stale cache | `MutualExclusion`, `ExecutionHoldsLease`, `FinalStaysFinal`, `Implements` (refinement of `ChangeLifecycle`) |
| `liveness` | 2 changes, a loop, crashes | `DueIsTaken`, `RunningIsReleased` |
| `anything` | all faults at once | `AppliedWasDelivered`: even then nothing is reported applied that no UPDATE did |
| `cache` | 1 zone with 2 records and 3 serials, the loop and a NOTIFY thread, no size limit | `TypeOK`: a cached serial is one the server had, what is held is cached. `Recoverable`: but for four accidents, and for operations still to be entered, a cached zone is right in every record that did not change since its serial. `CatchesUp`: when the server rests, it comes to hold what the server holds |
| `cache_room` | 2 zones with 2 records each at most, room for one full zone, 2 serials, catalog sync | `BooksKept`: the count of bytes changes with the cache, but for two named kinds of steps |
| `writes` | 1 request of each kind, a name with an address RRset or a CNAME, the apex NS, 4 serials that wrap, 8 batches (two of them delete the apex NS), 4 scripts (one clears the apex) | `NoLostUpdate`, `EditIsEffect`, `DraftKeepsMeaning`, `ExistingPtrKept`, `RollbackRestores` |
| `listing` | 5 kinds of listing; 4 RRsets, the last two at one name and tied in the browser's order, which is not the server's; page size 3, 2 loads in flight, 2 clicks, a change, a failure | `TypeOK` with the size of a page, `NothingSkipped`, `NothingRepeated`, `PageNumberIsRight`, `RowsExist`, `LastPageReached` |
| `live` | 1 zone, 3 sockets (one watches all zones, two share an address), 2 connections, 1 per address | `TypeOK` with the limits, `NothingMissed`, `NotifiedIsTold` |
| `webhooks` | 3 events (one of the scheduler), 2 targets, a queue of 2, 2 attempts, 2 faults | `LinkResolves`, `InOrder`, `Drained`, `QueuedIsHandled` |

`Implements`: `status` is the status column, `holder` the loop
or request executing the change. A step may take several rows (a claim also expires the
overdue), and a crash drops every holder of the process.

One run ends in a violation:

| Run | Violates | What happens |
|---|---|---|
| `idn_cursor` | `NothingSkipped` | A cursor that begins with `xn--` is not split into name and type (`dns/cache.py:274`); it sorts after the name it contains, and the next page skips the rest of that name's RRsets. The comment one line above says the cursor points to the first record of the next page. |

### What the properties leave out

`Recoverable` and `CatchesUp` except objects marked `suspect`. The code has four places where it loses the promise
silently, and without the exception TLC shows each: a difference is applied to an object another thread moved since
it was asked for; an edit overwrites what a newer transfer brought; an edit is not what the server did (the exceptions of `EditIsEffect`, below); and after an operation the server's serial is taken over
(`dns/cache.py:1163`) although it covers changes that were never pulled: those of others, or this UPDATE's when it is not all in this object. Such an object is wrong until the next full transfer. `BooksKept` excepts objects that change in
place (their size is never counted again, and the cache may exceed its budget by them, as `config.py:407-410` grants) and a transfer whose own zone is
evicted or cached meanwhile.

While a batch is entered, its first operation takes over a serial that covers the later ones. `Recoverable` excepts their records (`Entering`) until each is entered;
an eviction or a full transfer in between, an edit amiss or an operation that found no cached zone ends that.

`EditIsEffect` excepts four kinds of request: an atomic one that names a CNAME (below), one that adds an RRset twice, a delete with an empty list, and one that replaces the apex NS or
deletes all of it (`KeepsApex`). That a replacement of the apex NS comes to the same when the records are the same is not claimed. The run has deletions of the
apex NS as an RRset and record by record; a replacement of it by other records is covered by the theorem only.

The listing properties are about less than the browser does:

* `NothingSkipped` leaves out the search of either, the default. It shows at most one page of each of its two answers, says that this is the total and that
  nothing comes after: what matches beyond it is never shown, and when a part fails neither is that part.
* `RowsExist` is about tables whose answer no live message overtook and to which every change since was told. A row deleted before the socket is connected, while it is down,
  or by a change that a silent refresh found stays on the table until the table is next loaded (`stale`).
* `NothingRepeated` excepts rows that live messages pushed off a page, and rows that they put on a page although the next page begins at or before them: on a page others had
  emptied, or because `compareRecords` ties them with a row of the page or orders names otherwise than the server. It leaves out walks whose requests
  `goToLastPage` overtook (`inStep`).
* `PageNumberIsRight` is about back and forth in a zone that does not change, one request after the other.

### Related facts

Each of these is behaviour of the code that TLC shows when the corresponding fault or exception is added to a
property, or that a module's comments point out; they have no run of their own.

Scheduled changes:

* Any PATCH of a failed change, even of its description, makes it `scheduled` (or `draft`) again (`store.py:669`); the comment on the line above says
  failed stays failed until rescheduled.
* On a shared PostgreSQL database `mark_running` reads the status with a plain SELECT (`store.py:1010`) and then writes: another instance's
  loop claims in between, and both execute the change, though `runner.py:41-43` says several instances can share a database.
* A change left running by a dead process is taken over after `not_valid_after` and regardless of `max_attempts` (`store.py:793`); a draft being applied when
  the process died stays `running` for ever, because the takeover branch is under `scheduled_at IS NOT NULL` (`store.py:776`).
* A retry after a lost answer overwrites the snapshot with the effect of the first attempt (`executor.py:73`); a revert then restores that.
* The snapshot of a zone that cannot be transferred says the RRset was absent (`revert.py:64`); the revert deletes what was there.
* The snapshot is taken before an await, the prerequisites after it: another change to the RRset in between is vouched for by the prerequisites and missing from the snapshot.
* With `slow`, `FinalStaysFinal` fails: `mark_applied` and `mark_failed` check neither status nor owner. Reverting an add without automatic
  prerequisites deletes records that were there before, hence the exception in `RevertRestores`.

Direct writes:

* An atomic add of a CNAME built from a stale cache is ignored by the server and reported as success, which `cname_exclusivity.py:3-5` means to prevent; the automatic
  prerequisite of a batch cannot say that a name is unused.
* `add_roundrobin` writes the union of what the cache knew: a concurrent add is overwritten. Replacing a PTR is a delete and an add, and a failure in between
  leaves none (`routers/reverse.py:416`).
* A rollback has no prerequisites: changes made while it is computed are merged with it silently. It compares `available_from` with plain `<` (`routers/history.py:591`), not with serial arithmetic.
* An atomic request may add one RRset twice: nothing refuses it, the server unites the records, the cache keeps those of the second add.
* A draft of a delete and an add of one RRset without explicit prerequisites gets automatic ones that contradict each other, and is never applied.
* Deleting the apex NS is answered with NOERROR and ignored by the server (RFC 2136 3.4.2.3, 3.4.2.4); the request reports success, and the cache drops the RRset until the next full transfer.
  Replacing it adds to it.
* nsupdate requests neither edit nor refresh the cache; the preview of a prerequisite with data tests containment, the server equality.
* A NOTIFY thread can load a zone again that was evicted between its look and its refresh.

Listings:

* After a jump to a page, going back sends the made-up cursor `__page_i__` as `after` (`records.ts:156`, whose comment says prev and next still work) and shows another page.
* Nothing is disabled while a page loads: a double click makes the page number wrong, a reset racing a next leaves the current cursor on the wrong page, and a late answer for
  an earlier zone overwrites a later one.
* `goToLastPage` goes on as long as requests fail; a search with `limit` 1, or at a name with as many RRsets as fit on a page, never advances.
* A live insertion pushes a row off the page that no later page shows; `wouldFitOnPage` takes the second page for the first, because null cursors are filtered out (`live.ts:263`);
  deleting some records of an RRset removes its row; adding to one replaces its row by the added records; the total drifts. The type filter is applied after pagination in `list_rrsets`.
* A search of either hides what does not fit on one page of each of its answers (`search.ts:112-121`), and a part that fails, without a word. A jump to a page of it asks for what matches in both names and data.
* Events between a load and the subscription, or while disconnected, are lost; the old socket's `onclose` (`live.ts:323`) after a reconnection opens a second socket.

Live hub and NOTIFY:

* A slow client is dropped from the hub (`config.py:1201`), but its socket stays open and hears nothing more. A failing greeting leaks its slot until a broadcast finds the socket dead.
* Broadcasts may overtake one another. Changes first learnt by another refresh are never broadcast; our own may be announced twice. A refresh that failed after a NOTIFY is not tried again.

Webhooks:

* A full queue, or a stop that times out, also loses the record of a manual change, which the README promises for each. An event emitted after the drain found the queue
  empty is lost without a timeout; events queued after the stop are never handled.
* An error while building authentication headers skips the remaining targets. A webhook may say applied where the store, after a crash, says otherwise.

### Bounds

* `MaxTime` stops the clock, `AttemptBound` the claims, and `MayRepeat` keeps the last attempt
  within that bound from leaving its row running for want of a further claim. Each run
  leaves room for a first attempt, a retry after the backoff, and a lease that ends.
  `LeaseTTL` 0 is a lease that ends with the next clock value.
* One change is enough where the property is about the holders of a change; two loops
  and a request are every kind of contender. `liveness` needs two changes.
* `store` has `LeaseTTL` 0 so that takeover, retry and expiry all happen within three clock values;
  changes are interchangeable there, hence the symmetry (safety only).
* Ids are never reused (uuids), so a purged change stays purged.
* `cache`: three serials are a change before, during and after a transfer; a loop and a thread are the two kinds of actors, and nothing in the
  code couples two zones but the budget, which is what `cache_room` is about. At first one record is there and one is not: whether a record is added or deleted makes no difference but to sizes.
  Two records are a batch of two operations. No catalog is synced in `cache` (`cache_room` does, and `RecoverableAlways` includes it). `MaxDrift` bounds how far the model's count may part from the truth; records
  are interchangeable there, hence the symmetry (safety only).
* `writes`: one request, because a message depends on the cache only when it is built, and what other requests do to server and
  cache, `Other` and `Reload` do as well; the proof of `NoLostUpdate` covers any number. Four serials are three changes: before, between and after cache read and UPDATE. Serial
  numbers are modulo 8 and start at 6, so that they wrap.
* `listing`: the smallest zone in which a page ends within a name, a second page exists and live messages push rows off. In the browser's order the last two rows come first and tie, as
  names with an underscore do; a search of either finds three by name and two by data, one by both, so that its answer is more than a page. Two loads overtake each other; one change and one
  failure fall between any two of their steps.
* `live`: `Budgets` lists three mixtures of how many changes, writes, NOTIFYs and mishaps may happen; three sockets are one more than the limit, two of them at the same
  address.
* `webhooks`: a queue of two and three events, so that the queue is full while one is in hand and while none is.
* Runs that end for want of bounds, `listing`, `idn_cursor`, `live` and `webhooks`, switch the deadlock check off: browsers and writers may stop there. Elsewhere idle ticks, refreshes
  and requests go on, and it is on.

### Fairness

* `Scheduler`: `WF(LoopStep(w))` and `WF(ExecuteStep(e))`: the loop catches every exception and goes on, sleeping
  a finite time, and awaits end (DNS calls have timeouts). `WF(Pass)`: time passes. Requests are
  fair only once they execute a change. A `claim` is not fair on its own: `DueIsTaken` holds because
  the loop, running at all, takes the earliest due change and each change ends or uses up its
  attempts. Claims beyond `AttemptBound` do not happen, so in `liveness` that a change can be
  starved by an earlier one that is claimed without limit is excluded by the bound.
* `ZoneCache`: `WF` of the loop's and the threads' steps: what was begun goes on. `SF` of the background task's refresh of a cached zone: it comes round by the SOA timers
  again and again, between evictions. `SF` of full transfers: a server asked again and again answers some of the time; incremental ones may always fail.
* `RecordPages`: answers arrive, in any order, and so do the live messages that are on their way; clicks are not fair.
* `LiveUpdates`: `WF` of each zone's callback and of the broadcasts: the event loop runs its tasks, and a refresh and a send end by their timeouts. Sockets are not fair.
* `Webhooks`: `WF` of the worker: the event loop runs it and an attempt ends by its timeout. Nothing says that `stop` is called or ends.

## 4. Proofs

Every safety property that a run checks is also a theorem, for any sets and settings that satisfy the named
assumptions of its module (`PROJECT.json` lists them): any number of changes, loops, requests, zones, records,
serials, sockets, events. Only the six liveness properties are left to TLC.

### ChangeStore_proofs

The five invariants of the run `store`. They are not inductive one
by one: `LeaseIffRunning` needs to know that a claim finds a row that exists,
`FailedIsExhausted` that drafts have no schedule. `Inv` says of every row `RowOK`, their
conjunction with the types. Each method has a lemma that it leaves the row it writes `RowOK`;
`InvNext` composes them.

### Scheduler_proofs

| Theorem | For which faults |
|---|---|
| `SchedulerTypeCorrect`, `AppliedWasDeliveredAlways` | all, a shared database and outlasted leases included |
| `SchedulerUsesStore` | all but `shared_db` |
| `MutualExclusionAlways`, `ExecutionHoldsLeaseAlways`, `FinalStaysFinalAlways` | all but `slow` and `shared_db` |

* `Shaped` is the type invariant that survives a shared database, where a request may write back what it read
  long ago and the store's own invariants are lost. `Delivered` adds to the reports that whoever holds an answer holds it for a change the server
  carried out: of all steps only the server's makes an answer, and only an answer makes a report.
* `SchedulerUsesStore`: every step of the service is
  a step of `ChangeStore!Next` or leaves the store alone, so every invariant of the store
  holds of the service. `Typed` is `Shaped` with them.
* `Safe` adds to `Typed` that whoever
  executes a change holds its lease (`Holds`): the row is running, with the deadline and
  operation in the executor's hands, and the deadline has not passed. From it a claim cannot
  find the row (its lease has not run out), no request may touch a running row, and
  retention does not purge it. Both exclusions are needed: on a shared database mutual exclusion is false, and an outlasted
  lease lets a second claim in.

### ChangeLifecycle_proofs

* `ImplementsAlways`: the service implements `ChangeLifecycle`, with the exclusions of `Safe`. A step simulation under
  `Safe`: who holds a change in the abstract state is who executes it (`HoldersFit`), each action either leaves the holders
  (`HoldersStay`), ends one (`HolderEnds`) or begins one (`HolderBegins`), and the statuses move as the abstract step says.
* `EffectIsReportedAlways`: with `stale_cache` and `external` only. After a crash, a lost answer or a failing store the
  code does report a change failed that took effect. `EffectOK`: what is being sent has its snapshot stored, and an answer is for the
  operation its holder has in hand.
* `RevertInverts`, `PrerequisitesProtectRevert`: the inverse operations undo an operation given the RRset it
  found, and when the server accepted the automatic prerequisites built from the RRset of the
  snapshot, a revert restores what the server held.
* `SnapshotIsPriorStateAlways`, `RevertRestoresAlways`: without faults, and if each change writes an RRset of its own
  (`OwnTargets`). Both conditions are needed: a stale cache, other writers or a second change of the same RRset
  can come between the refresh, the snapshot and the UPDATE, and a change that is not the last
  one on its RRset takes the later ones with it when it is reverted. `Fits` follows a change through
  its life: until it takes effect the cache shows its RRset as it is (`CacheFits`); then its RRset is what the change made of it or what it was before
  (`DoneFits`, since a revert may have been done and not yet recorded); what a loop has captured, stored and sent is what the
  server holds (`JobFits`); an applied row's snapshot is what was found, and a reverted one's is back (`RowFits`). `Counted` says that a row
  that was never attempted has no snapshot, so that an applied one without attempts, an external record, is not taken for one.

### ZoneCache_proofs

* `RecoverableAlways`: `Recoverable` alone does not survive an edit: between the
  edit and the take-over of the serial the object already has new records under the old serial, and between two operations of a batch it has the serial without the records. `CopyOK` is `Recoverable`
  of one object, but for what is to come of a batch (`Entering`). `WriteOK` says that what is left to be entered is part of what an UPDATE changed that was carried out; `EditOK` that what was edited in is the server's
  (unless it changed again), `TaskOK` that a held answer covers serials the server had and that a
  held object is the cached one.
* `CacheTypeCorrect`, with `LruOK`: the order lists the cached zones, each once. `Remaining`, the order without some of its zones, is a recursive function; that it
  exists and what it leaves is shown by induction on the positions of the order (`Unrolls`).
* `BooksKeptAlways`: sizes are sums over zones. The proof counts instead:
  `Units(c, zs)` is a set with one element for each zone and each of its records, whose cardinality is the sum (`UnitsSum`); the library's lemmas on cardinalities do the rest.
  `StepKind` sorts all steps by what they do to the cache and the books: nothing, a change in place, a use, zones that leave, a transfer, a restart.

### DirectWrites_proofs

One invariant, `Sound`, for six properties. Of the server it says that its zone is one of `Contents`: a CNAME is alone at its name, which the rules for adds
keep (`Carried`). Of every request under way, `SoundJob`:

* `JobTyped`: its message is a `Message`, however it was built; `TodoOK`, what is left of its transactions or addresses.
* `SourceOK`: its message is the one that the records it saw in the cache call for. `NoLostUpdateAlways` follows: the prerequisites vouch
  for every RRset the request names. So does `EditIsEffectAlways`: given that the server's RRsets are as seen, and no
  type at the name that would have an add ignored (`Fitting`), each operation does the same to the server's zone and to the cached one, by its name and type.
  And `DraftKeepsMeaningAlways`: an update and the operation it becomes do the same, and merging consecutive adds of an RRset changes nothing.
* `PtrOK`: a PTR request sends an add with prerequisites, or it saw an RRset (`ExistingPtrKeptAlways`).
* `RollbackOK`: carried out on the zone it was computed from, the rollback's message gives the unprotected records of its target. Each change is undone by deleting
  what it added, then adding what it deleted: in between no CNAME stands in the way, because the zone before was one a server can hold (`RollbackRestoresAlways`).

Messages are of any length and `Result` is a fold. The library's induction theorems cannot be used, since they take an operator; but that every set of numbers
has a least one (from `WellFoundedInduction`) gives induction on a *set* of numbers (`Induct`). With it the folds of the community modules, which are defined by `CHOOSE`, are shown
to exist and to be a course of steps, a function from 0 to the length of the message (`Folds`, `Chain`, `Goes`, `Edits`, `Drafts`); all else is about one step of such a course.

The assumptions: records are finitely many; `PTR` is not `CNAME`; no CNAME at a protected name, since the apex has NS records; half the
serial space holds all serials in play, as RFC 1982 asks; a transaction gives no name two CNAMEs (`OneCname`, see *Abstractions*).

### RecordPages_proofs

The invariants follow a reader through the table. `Orderly` says what is true of any use: a request that resets asks for the first page; a page with more after it
knows where the next begins; paging onward in step, all requests on their way are for the current page.

* `TypeCorrect`: the answers to both requests of a search of either are at most two pages (`Fits`), every other page one, those with a row inserted included.
* `RowsExistAlways`, with `Caught`: between changes that were told, a row of the table or of an answer that is gone from the zone has a message on its way that will take it
  off, and so has a row that a message is about to add. A change that is not told leaves nothing to be said of what came before it (`CaughtUntold`).
* `NothingSkippedAlways`, with `Covered`: what stayed in the zone and was not shown is in every answer on its way and at or after the cursors of every request, the current
  page and the next one,
  so there is a next page. It assumes `NoIdn`, as run `idn_cursor` shows it must, and is not about searches of either, which have no next page.
* `NothingRepeatedAlways`, with `Apart`: what was shown, and neither pushed off by a message nor put at or after the next cursor by one, is before the next cursor. Nothing is assumed of `Rank`.
* `PageNumberIsRightAlways`, with `InPlace`: the cursor of page n and every cursor of the history leave what the first so many pages leave (`Left`).

`FirstOf`, a page, is the least so many positions; what the proofs need of it is that there is such a set, that it is an initial segment, and its size.

### LiveUpdates_proofs and Webhooks_proofs

`LiveTypeCorrect`, with the connection limits, and `NothingMissedAlways`: everyone who was subscribed when an event was made, and still is, is among
those its broadcast has yet to serve or has served. The invariant `CastFits` adds that those marked dead are gone or had a send fail, since ending a broadcast unsubscribes them
under the hands of other broadcasts.

`WebhooksTypeCorrect`, `LinkResolvesAlways`, `InOrderAlways`, `DrainedAlways`. The invariant describes the sequence of accepted events in three parts: those
done with, the one in hand, and the queue, its tail (`QueueOK`); what a target got is of the first or, while it is being delivered, of the one in hand (`ReceivedOK`); and the events stop waits for are among the
first `Done` once the count of unfinished tasks is zero (`DrainOK`).

### What the proofs changed

Two properties that held in their runs could not be proved as they stood. They failed on larger instances, where TLC confirmed it:

* `NothingRepeated`: live messages that empty a page and then add rows to it put rows there that belong to a later page, which shows them again. They count
  as moved (`pushed`) now. And when a live message has a page loaded again while `goToLastPage` waits for its answer, `goToLastPage` goes on, and the
  page that was loaded again may arrive after the next one. Such walks are not `inStep`; `NothingSkipped` covers them too.
* `EditIsEffect`: an atomic request may add one RRset twice; the server has both sets of records, the cache the last (`AddsTwice`). The run has such a batch now.

`BooksKept` said less than is true, and was strengthened: it excepted any transfer of a cached zone and now excepts only those that `Miscounts` and `ChangesInPlace` describe.

### Model-checked only

Liveness under fairness, which is out of TLAPS' reach: `DueIsTaken`, `RunningIsReleased`, `CatchesUp`, `NotifiedIsTold`, `QueuedIsHandled`, `LastPageReached`.
The bounds of their runs are in section 3.

## 5. Not modelled, and what could follow

Authentication, configuration, CLI, logging and metrics are stateless or pure output; parsing of nsupdate text, record data and IXFR streams, migrations and
the remaining frontend views are conversions or I/O without the interleavings the models are for. Start-up and shutdown order (`main.py`) and the
vacuum of the database are not modelled.

What would add most:

1. Scheduled changes of several operations: the batches of `DnsUpdate` in `Scheduler` in place of `RRsetOps`. `EditIsEffectAlways` and its lemmas
   are about the same messages and would carry over to `EffectIsReported`.
2. `DirectWrites` as an implementation of the cache's steps in `ZoneCache`, where both have a copy of one zone.
3. The safety half of what the liveness properties rest on, e.g. that a change which is due and not running can always be claimed.
