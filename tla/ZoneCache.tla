------------------------------- MODULE ZoneCache -------------------------------
(***************************************************************************)
(* The zone cache: copies of zones that incremental and full transfers     *)
(* refresh, that answered UPDATEs edit in place, and that an LRU budget    *)
(* evicts.  The event loop and one NOTIFY thread per zone use it at the    *)
(* same time; each action is one step between two locks or answers.        *)
(*                                                                         *)
(* The server's zone is the sequence of its contents, one per serial.  An  *)
(* object that left the cache no longer matters: whoever still holds it    *)
(* works on in vain (held = FALSE).                                        *)
(***************************************************************************)
EXTENDS Integers, Sequences, FiniteSets

CONSTANTS
    Zone, Record, None,
    Loop,          \* the event loop; the other actors are the zones' NOTIFY threads
    Notified,      \* the zones the server sends NOTIFY for
    Listings,      \* the sets of zones the catalog zone may list
    Start,         \* what the server's zones can hold at first
    PreferIxfr,    \* notify.prefer_ixfr
    MaxSize,       \* cache.max_size_bytes, also the cap of one zone; 0 = unlimited
    MaxSerial,     \* bound: the last serial of each zone
    MaxDrift       \* bound: where the model's count of the total size stops

ASSUME CacheAssumption ==
    /\ Loop \notin Zone /\ None \notin Zone /\ IsFiniteSet(Record) /\ Start \subseteq SUBSET Record
    /\ Listings \subseteq SUBSET Zone /\ Notified \subseteq Zone /\ PreferIxfr \in BOOLEAN
    /\ MaxSize \in Nat /\ MaxDrift \in Nat /\ MaxSerial \in [Zone -> Nat]

VARIABLES
    history,       \* the server: the records of each zone at every serial
    sent,          \* UPDATEs the server accepted and the cache has not handled
    cache,         \* _zones: a Copy, or None
    lru,           \* the order of _zones, least recently used first
    catalog,       \* _catalog_zones
    total,         \* _current_size_bytes
    task           \* what the loop and each thread are doing

books == <<lru, catalog, total>>
vars == <<history, sent, cache, lru, catalog, total, task>>

Actor == Zone \cup {Loop}
Serials(z) == 1 .. Len(history[z])
Current(z) == Len(history[z])

\* suspect: history variable, see Recoverable.
Copy == [serial : Nat, records : SUBSET Record, suspect : BOOLEAN]

ASSUME NoneAssumption == None \notin Copy

\* write, left: the UPDATE to be entered in the cache, and what of it is not entered yet;
\* edited: history variable, what of it is entered is in the object held.
Step == {"idle", "begin", "query", "diff", "apply", "full", "install",
         "next", "edit", "relook", "serial", "takeover", "sync"}
Task == [at : Step, zone : {None} \cup Zone, held : BOOLEAN, from : Nat, upto : Nat,
         write : Nat, left : SUBSET Record, edited : BOOLEAN,
         then : {"idle", "edit", "serial", "sync"}, todo : SUBSET Zone]
NoTask == [at |-> "idle", zone |-> None, held |-> FALSE, from |-> 0, upto |-> 0,
           write |-> 0, left |-> {}, edited |-> FALSE, then |-> "idle", todo |-> {}]

\* The part of the type invariant the proofs need.
CoreTypeOK ==
    /\ history \in [Zone -> Seq(SUBSET Record)] /\ \A z \in Zone : Current(z) >= 1
    /\ sent \subseteq Zone \X Nat /\ \A w \in sent : w[2] \in 2 .. Current(w[1])
    /\ cache \in [Zone -> {None} \cup Copy]
    /\ task \in [Actor -> Task]

\* A cached serial is one the server has had; what is held is cached; and the zones in the
\* LRU order are the cached ones, each once.
TypeOK ==
    /\ CoreTypeOK
    /\ \A z \in Zone : cache[z] # None => cache[z].serial \in Serials(z)
    /\ \A a \in Actor : task[a].held => task[a].zone \in Zone /\ cache[task[a].zone] # None
    /\ \A z \in Zone : cache[z] # None <=> \E i \in DOMAIN lru : lru[i] = z
    /\ \A i, j \in DOMAIN lru : lru[i] = lru[j] => i = j
    /\ catalog \subseteq Zone /\ total \in Int

Init ==
    /\ history \in [Zone -> {<<s>> : s \in Start}]
    /\ sent = {} /\ cache = [z \in Zone |-> None]
    /\ lru = <<>> /\ catalog = {} /\ total = 0
    /\ task = [a \in Actor |-> NoTask]
--------------------------------------------------------------------------------
(* Journals, sizes, and who holds what *)

\* r changed between two serials, so a transfer of that difference carries it.
Touched(z, r, from, upto) ==
    \E i, j \in Serials(z) \cap (from .. upto) : r \in history[z][i] /\ r \notin history[z][j]

\* What the change to serial i of a zone changed.
Changed(z, i) == {r \in Record : Touched(z, r, i - 1, i)}

\* Faulty: additions are taken over, deletions are not.
PatchWithoutDeletes(z, records, from, upto) ==
    records \cup {r \in Record : Touched(z, r, from, upto) /\ r \in history[z][upto]}

\* The batches of an incremental transfer, applied in order.
Patched(z, records, from, upto) ==
    {r \in Record : IF Touched(z, r, from, upto) THEN r \in history[z][upto]
                                                 ELSE r \in records}

\* estimate_size_bytes: an object costs something, and so does every record.
Size(records) == 1 + Cardinality(records)

\* An object of these zones left the cache.
Loosened(t, zs) ==
    IF t.zone \in zs THEN [t EXCEPT !.held = FALSE, !.edited = FALSE] ELSE t

\* a goes on as t; the objects of zs are no longer the cached ones.
Continue(a, t, zs) ==
    task' = [b \in Actor |-> IF b = a THEN t ELSE Loosened(task[b], zs)]

Goto(a, at) == Continue(a, [task[a] EXCEPT !.at = at], {})

\* The refresh that t is in returns, with the cached object or without.
Returned(t, held) ==
    IF t.then = "idle" THEN NoTask
    ELSE [t EXCEPT !.at = t.then, !.held = held /\ t.then # "sync"]

\* The LRU order without these zones.
Remaining(zs) ==
    LET kept[n \in 0 .. Len(lru)] ==
            IF n = 0 THEN <<>>
            ELSE IF lru[n] \in zs THEN kept[n - 1] ELSE Append(kept[n - 1], lru[n])
    IN  kept[Len(lru)]

MostRecent(z) == lru' = Append(Remaining({z}), z)

\* The zones _evict_if_needed pops, from the least recently used on.
Evicted(size, spent) ==
    LET freed[n \in 0 .. Len(lru)] ==
            IF n = 0 THEN 0 ELSE freed[n - 1] + Size(cache[lru[n]].records)
        fits(n) == MaxSize = 0 \/ spent - freed[n] + size <= MaxSize
    IN  {lru[i] : i \in {j \in DOMAIN lru : \A n \in 0 .. j - 1 : ~fits(n)}}

\* What estimate_size_bytes says of a set of zones.
Estimate(zs) ==
    LET size[n \in 0 .. Len(lru)] ==
            IF n = 0 THEN 0
            ELSE size[n - 1] + (IF lru[n] \in zs THEN Size(cache[lru[n]].records) ELSE 0)
    IN  size[Len(lru)]

\* The total, as far as the model counts.
Counted(n) == IF n > MaxDrift THEN MaxDrift ELSE IF n < -MaxDrift THEN -MaxDrift ELSE n

\* The zones leave _zones.
Dropped(zs) == [z \in Zone |-> IF z \in zs THEN None ELSE cache[z]]
--------------------------------------------------------------------------------
(* The server *)

\* Records are added and deleted, some of them.
Moves(z, rs) ==
    /\ rs # {} /\ Current(z) < MaxSerial[z]
    /\ LET last == history[z][Current(z)]
       IN  history' = [history EXCEPT ![z] = Append(history[z], (last \ rs) \cup (rs \ last))]

\* By others, or by an UPDATE of ours whose answer never arrives.
ServerChanges(z, rs) == Moves(z, rs) /\ UNCHANGED <<sent, cache, books, task>>

\* An UPDATE of ours is carried out and answered, while the loop does anything.
Written(z, rs) ==
    /\ Moves(z, rs)
    /\ sent' = sent \cup {<<z, Current(z) + 1>>}
    /\ UNCHANGED <<cache, books, task>>
--------------------------------------------------------------------------------
(* Refreshing a zone: _refresh_zone_ixfr, then _refresh_zone_axfr *)

\* refresh_zone_with_ops reads the cached object, if there is one.
Refresh(a, t) ==
    LET ixfr == cache[t.zone] # None /\ PreferIxfr
    IN  Continue(a, [t EXCEPT !.at = IF ixfr THEN "query" ELSE "full", !.held = ixfr], {})

\* A reload request, the background task, or a read of a zone that is not cached.
BeginRefresh(z) ==
    /\ task[Loop].at = "idle"
    /\ Refresh(Loop, [NoTask EXCEPT !.zone = z])
    /\ UNCHANGED <<history, sent, cache, books>>

\* _handle_zone_notify: only zones that are cached, in a thread of its own.
Notify(z) ==
    /\ z \in Notified /\ task[z].at = "idle" /\ cache[z] # None
    /\ Continue(z, [NoTask EXCEPT !.at = "begin", !.zone = z], {})
    /\ UNCHANGED <<history, sent, cache, books>>

BeginThread(z) ==
    /\ task[z].at = "begin"
    /\ Refresh(z, task[z])
    /\ UNCHANGED <<history, sent, cache, books>>

\* The SOA query: the serial is the cached one, or a difference is asked for.
QuerySerial(a) ==
    /\ task[a].at = "query"
    /\ LET t == task[a]
           same == t.held /\ cache[t.zone].serial = Current(t.zone)
       IN  \/ (same \/ ~t.held) /\ Continue(a, Returned(t, t.held), {})
           \/ ~same /\ Goto(a, "diff")
    /\ UNCHANGED <<history, sent, cache, books>>

\* perform_ixfr from the serial the object has now.
AskDiff(a) ==
    /\ task[a].at = "diff"
    /\ LET t == task[a]
           from == IF t.held THEN cache[t.zone].serial ELSE Current(t.zone)
       IN  Continue(a, [t EXCEPT !.at = "apply", !.from = from,
                                 !.upto = Current(t.zone)], {})
    /\ UNCHANGED <<history, sent, cache, books>>

\* Faulty: no answer to the SOA query is taken for an unchanged serial.
NoAnswerNoChange(a) ==
    /\ \/ task[a].at = "query" /\ Continue(a, Returned(task[a], task[a].held), {})
       \/ task[a].at = "diff" /\ Goto(a, "full")
       \/ task[a].at = "full" /\ Continue(a, Returned(task[a], FALSE), {})
    /\ UNCHANGED <<history, sent, cache, books>>

\* No answer, or for an incremental transfer the whole zone: the next kind of
\* transfer is tried, or the refresh fails.
NoAnswer(a) ==
    /\ \/ task[a].at \in {"query", "diff"} /\ Goto(a, "full")
       \/ task[a].at = "full" /\ Continue(a, Returned(task[a], FALSE), {})
    /\ UNCHANGED <<history, sent, cache, books>>

\* apply_ixfr_changes does not look whether the object still is at "from".
Applied(copy, z, from, upto) ==
    [serial |-> upto, records |-> Patched(z, copy.records, from, upto),
     suspect |-> copy.suspect \/ copy.serial # from]

\* A difference up to a serial before an edit's write may undo the edit.
Undone(t, z, upto) ==
    IF t.zone = z THEN [t EXCEPT !.edited = t.edited /\ upto >= t.write] ELSE t

ApplyDiff(a) ==
    /\ task[a].at = "apply"
    /\ LET t == task[a]
       IN  /\ cache' = IF t.held
                       THEN [cache EXCEPT ![t.zone] =
                                Applied(cache[t.zone], t.zone, t.from, t.upto)]
                       ELSE cache
           /\ task' = [b \in Actor |-> IF b = a THEN Returned(t, t.held)
                                      ELSE IF t.held THEN Undone(task[b], t.zone, t.upto)
                                      ELSE task[b]]
    /\ UNCHANGED <<history, sent, books>>

TransferAll(a) ==
    /\ task[a].at = "full"
    /\ Continue(a, [task[a] EXCEPT !.at = "install", !.upto = Current(task[a].zone)], {})
    /\ UNCHANGED <<history, sent, cache, books>>

Oversize(size) == MaxSize # 0 /\ size > MaxSize

\* A transferred zone replaces the cached one.  A refresh takes the replaced size
\* off the total and then evicts, perhaps that very zone; a catalog sync, which
\* saw no cached zone before its transfer, takes nothing off.
Install(a) ==
    /\ task[a].at = "install"
    /\ LET t == task[a]
           z == t.zone
           size == Size(history[z][t.upto])
           spent == IF t.then = "sync" THEN total ELSE total - Estimate({z})
           out == Evicted(size, spent)
       IN  IF Oversize(size)
           THEN Continue(a, Returned(t, FALSE), {}) /\ UNCHANGED <<cache, books>>
           ELSE /\ cache' = [Dropped(out) EXCEPT ![z] =
                     [serial |-> t.upto, records |-> history[z][t.upto], suspect |-> FALSE]]
                /\ lru' = Append(Remaining(out \cup {z}), z)
                /\ catalog' = (catalog \ out) \cup (IF t.then = "sync" THEN {z} ELSE {})
                /\ total' = Counted(spent - Estimate(out) + size)
                /\ Continue(a, Returned(t, TRUE), out \cup {z})
    /\ UNCHANGED <<history, sent>>

RefreshStep(a) ==
    QuerySerial(a) \/ AskDiff(a) \/ NoAnswer(a) \/ ApplyDiff(a) \/ TransferAll(a) \/ Install(a)
--------------------------------------------------------------------------------
(* get_zone; and apply_cache_updates: update_cache_after_add, _delete or _replace for  *)
(* one operation of an UPDATE after the other.                                        *)

\* A request reads a cached zone.
Read(z) ==
    /\ task[Loop].at = "idle" /\ cache[z] # None
    /\ MostRecent(z)
    /\ UNCHANGED <<history, sent, cache, catalog, total, task>>

\* get_zone, then "next": with the cached object, or after a first transfer.
GetZoneThen(t, next) ==
    IF cache[t.zone] # None
    THEN MostRecent(t.zone) /\ Continue(Loop, [t EXCEPT !.at = next, !.held = TRUE], {})
    ELSE /\ Continue(Loop, [t EXCEPT !.at = "full", !.held = FALSE, !.then = next], {})
         /\ UNCHANGED lru

\* The loop handles the answer of an UPDATE.
BeginEdit(w) ==
    /\ task[Loop].at = "idle" /\ w \in sent
    /\ sent' = sent \ {w}
    /\ GetZoneThen([NoTask EXCEPT !.zone = w[1], !.write = w[2], !.left = Changed(w[1], w[2])],
                   "edit")
    /\ UNCHANGED <<history, cache, catalog, total>>

\* Its next operation looks the zone up anew.
NextOperation ==
    /\ task[Loop].at = "next"
    /\ GetZoneThen(task[Loop], "edit")
    /\ UNCHANGED <<history, sent, cache, catalog, total>>

\* What an operation did to these records at the server is done to the object.
Entered(copy, t, op) ==
    [copy EXCEPT !.records = {r \in Record : IF r \in op THEN r \in history[t.zone][t.write]
                                                          ELSE r \in copy.records},
                 !.suspect = copy.suspect \/
                     \E r \in op : Touched(t.zone, r, t.write, copy.serial)]

\* One of the exceptions of DirectWrites!EditIsEffect: what is cached is something else.
EnteredAmiss(copy, records) == [copy EXCEPT !.records = records, !.suspect = TRUE]

\* update_rrset or delete_rrset, of one operation, in the object held or in vain.
Edit ==
    /\ task[Loop].at = "edit"
    /\ LET t == task[Loop]
           becomes(copy) == cache' = [cache EXCEPT ![t.zone] = copy]
           goOn(op, edited) ==
               Continue(Loop, [t EXCEPT !.at = "relook", !.left = t.left \ op, !.edited = edited], {})
       IN  \E op \in (SUBSET t.left) \ {{}} :
              \/ t.held /\ becomes(Entered(cache[t.zone], t, op))
                 /\ goOn(op, t.edited \/ t.left = Changed(t.zone, t.write))
              \/ t.held /\ (\E records \in SUBSET Record :
                                becomes(EnteredAmiss(cache[t.zone], records)))
                 /\ goOn(op, FALSE)
              \/ ~t.held /\ UNCHANGED cache /\ goOn(op, FALSE)
    /\ UNCHANGED <<history, sent, books>>

\* refresh_zone_serial looks the zone up once more.
Relook ==
    /\ task[Loop].at = "relook"
    /\ GetZoneThen(task[Loop], "serial")
    /\ UNCHANGED <<history, sent, cache, catalog, total>>

\* The operation is done, and with the last one the UPDATE.
Done(t) == IF t.left = {} THEN NoTask ELSE [t EXCEPT !.at = "next"]

\* Faulty: whatever the SOA query returned is the new serial (0: nothing).
AskSerialUnchecked ==
    /\ task[Loop].at = "serial"
    /\ LET t == task[Loop]
       IN  \/ ~t.held /\ Continue(Loop, Done(t), {})
           \/ t.held /\ \E serial \in {0, Current(t.zone)} :
                 Continue(Loop, [t EXCEPT !.at = "takeover", !.upto = serial], {})
    /\ UNCHANGED <<history, sent, cache, books>>

\* Its SOA query: without an answer the serial stays.
AskSerial ==
    /\ task[Loop].at = "serial"
    /\ LET t == task[Loop]
       IN  \/ Continue(Loop, Done(t), {})
           \/ t.held /\ Continue(Loop, [t EXCEPT !.at = "takeover", !.upto = Current(t.zone)], {})
    /\ UNCHANGED <<history, sent, cache, books>>

\* The server's serial, whoever made the changes up to it, and whatever of them is entered.
TakenOver(copy, t) ==
    [copy EXCEPT !.serial = t.upto,
                 !.suspect = copy.suspect \/
                     \E i \in copy.serial + 1 .. t.upto : ~(t.edited /\ i = t.write)]

TakeOver ==
    /\ task[Loop].at = "takeover"
    /\ LET t == task[Loop]
       IN  cache' = IF t.held THEN [cache EXCEPT ![t.zone] = TakenOver(cache[t.zone], t)]
                    ELSE cache
    /\ Continue(Loop, Done(task[Loop]), {})
    /\ UNCHANGED <<history, sent, books>>

EditStep == NextOperation \/ Edit \/ Relook \/ AskSerial \/ TakeOver
--------------------------------------------------------------------------------
(* Invalidation, catalog zones, restart *)

\* Faulty: the zone's size stays in the total.
InvalidateKeepsTotal(z) ==
    /\ task[Loop].at = "idle" /\ cache[z] # None
    /\ cache' = Dropped({z}) /\ lru' = Remaining({z})
    /\ Continue(Loop, NoTask, {z})
    /\ UNCHANGED <<history, sent, catalog, total>>

Invalidate(z) ==
    /\ task[Loop].at = "idle" /\ cache[z] # None
    /\ cache' = Dropped({z}) /\ lru' = Remaining({z}) /\ total' = Counted(total - Estimate({z}))
    /\ Continue(Loop, NoTask, {z})
    /\ UNCHANGED <<history, sent, catalog>>

\* sync_from_catalog, its first part: catalog zones no longer named are removed.
BeginSync(names, removeStale) ==
    /\ task[Loop].at = "idle" /\ names # {}
    /\ LET stale == IF removeStale THEN catalog \ names ELSE {}
       IN  /\ cache' = Dropped(stale) /\ lru' = Remaining(stale)
           /\ catalog' = catalog \ stale /\ total' = Counted(total - Estimate(stale))
           /\ Continue(Loop, [NoTask EXCEPT !.at = "sync", !.todo = names], stale)
    /\ UNCHANGED <<history, sent>>

\* The next name: marked when cached, otherwise transferred.
SyncZone(z) ==
    /\ task[Loop].at = "sync" /\ z \in task[Loop].todo
    /\ LET t == [task[Loop] EXCEPT !.zone = z, !.todo = task[Loop].todo \ {z},
                                   !.held = FALSE, !.then = "sync"]
       IN  IF cache[z] # None
           THEN catalog' = catalog \cup {z} /\ MostRecent(z) /\ Continue(Loop, t, {})
           ELSE Continue(Loop, [t EXCEPT !.at = "full"], {}) /\ UNCHANGED <<lru, catalog>>
    /\ UNCHANGED <<history, sent, cache, total>>

EndSync ==
    /\ task[Loop].at = "sync" /\ task[Loop].todo = {}
    /\ Continue(Loop, NoTask, {})
    /\ UNCHANGED <<history, sent, cache, books>>

\* Shutdown (invalidate_all) or a crash: nothing of this outlives the process.
Restart ==
    /\ sent' = {} /\ cache' = [z \in Zone |-> None]
    /\ lru' = <<>> /\ catalog' = {} /\ total' = 0
    /\ task' = [a \in Actor |-> NoTask]
    /\ UNCHANGED history
--------------------------------------------------------------------------------
ZoneStep(z) ==
    \/ BeginRefresh(z) \/ Notify(z) \/ BeginThread(z) \/ Read(z) \/ Invalidate(z) \/ SyncZone(z)
    \/ \E rs \in SUBSET Record : ServerChanges(z, rs) \/ Written(z, rs)

Next ==
    \/ \E z \in Zone : ZoneStep(z)
    \/ \E a \in Actor : RefreshStep(a)
    \/ \E w \in sent : BeginEdit(w)
    \/ EditStep
    \/ \E names \in Listings, stale \in BOOLEAN : BeginSync(names, stale)
    \/ EndSync
    \/ Restart

Spec == Init /\ [][Next]_vars

LoopStep == RefreshStep(Loop) \/ EditStep \/ EndSync \/ \E z \in Zone : SyncZone(z)
ThreadStep(z) == RefreshStep(z) \/ BeginThread(z)
TransferOf(z, a) == task[a].zone = z /\ TransferAll(a)

\* Whatever was begun goes on; the background task comes to every cached zone; and
\* a server asked again and again for a whole zone gives it some of the time.
Fairness ==
    /\ WF_vars(LoopStep)
    /\ \A z \in Zone :
        /\ WF_vars(ThreadStep(z))
        /\ SF_vars(TransferOf(z, Loop)) /\ SF_vars(TransferOf(z, z))
        /\ SF_vars(cache[z] # None /\ BeginRefresh(z))

FairSpec == Spec /\ Fairness
--------------------------------------------------------------------------------
(* Properties *)

\* The copy is right in every record that did not change at the server since its serial,
\* but for some.
Agrees(z, copy, but) ==
    \A r \in Record \ but : ~Touched(z, r, copy.serial, Current(z)) =>
                                (r \in copy.records <=> r \in history[z][Current(z)])

\* What of an UPDATE is still to be entered in the object that holds the rest of it.
Entering(z) == IF task[Loop].zone = z /\ task[Loop].edited THEN task[Loop].left ELSE {}

\* An incremental refresh can bring a cached zone up to date: it is right in every
\* record that did not change at the server since its serial.  The code checks this
\* nowhere.  While an UPDATE of several operations is entered, it holds only but for
\* the operations to come, whose records the serial covers from the first operation
\* on.  And there are four places where the code loses it for good ("suspect"): a
\* difference is applied to an object that another thread moved since it was asked
\* for; an edit overwrites what a newer transfer brought; an edit is not what the
\* server did; and after an UPDATE the server's serial is taken over although it
\* covers changes that this request did not make, or that are not all in this object.
\* Everything else keeps it.
Recoverable ==
    \A z \in Zone : cache[z] # None /\ ~cache[z].suspect => Agrees(z, cache[z], Entering(z))

\* When the server's zones no longer change, every cached zone that is not suspect
\* comes to hold what the server holds, and keeps it, whatever requests, NOTIFYs,
\* evictions and failing transfers come in between.
CatchesUp ==
    <>[](\A z \in Zone : \/ cache[z] = None \/ cache[z].suspect
                         \/ cache[z].records = history[z][Current(z)])

\* A transfer replaces the zone in the cache, and takes its size off twice (the refresh
\* evicts the very zone that it replaces) or not at all (it was cached since the sync
\* looked).
Miscounts(z) ==
    \E a \in Actor :
        /\ task[a].zone = z /\ Install(a)
        /\ \/ task[a].then = "sync"
           \/ z \in Evicted(Size(history[z][task[a].upto]), total - Estimate({z}))

ChangesInPlace(z) ==
    /\ cache'[z] # None /\ cache'[z].records # cache[z].records
    /\ ~\E a \in Actor : task[a].zone = z /\ Install(a)

\* The accounting changes with the cache.  Two kinds of steps break that: a cached
\* object that changes in place, and the transfers that miscount the zone they replace.
\* (A restart mends it.)
BooksKept ==
    [][\/ total' - Estimate(Zone)' = total - Estimate(Zone)
       \/ total' \in {-MaxDrift, MaxDrift}
       \/ cache' = Dropped(Zone) /\ total' = 0
       \/ \E z \in Zone : cache[z] # None /\ (Miscounts(z) \/ ChangesInPlace(z))]_vars
================================================================================
