--------------------------- MODULE ZoneCache_proofs ---------------------------
(***************************************************************************)
(* The zone cache stays recoverable, its LRU order names the cached zones, *)
(* and its count of bytes follows what is in it, for any zones, records,   *)
(* threads, budgets and numbers of serials.                                *)
(***************************************************************************)
EXTENDS ZoneCache, FiniteSetTheorems, SequenceTheorems, WellFoundedInduction, TLAPS

\* A cached object's serial is one the server has had, and the object agrees with
\* the server but for what changed since and what is being entered.
CopyOK ==
    \A z \in Zone : cache[z] # None =>
        /\ cache[z].serial \in Serials(z)
        /\ ~cache[z].suspect => Agrees(z, cache[z], Entering(z))

\* Which answers a task holds, and that what it holds is cached.
TaskOK ==
    \A a \in Actor :
        /\ task[a].at \notin {"idle", "sync"} => task[a].zone \in Zone
        /\ task[a].held => task[a].zone \in Zone /\ cache[task[a].zone] # None
        /\ task[a].at = "apply" =>
              task[a].from \in 1 .. task[a].upto /\ task[a].upto \in Serials(task[a].zone)
        /\ task[a].at \in {"install", "takeover"} => task[a].upto \in Serials(task[a].zone)
        /\ task[a].edited => task[a].at \in {"relook", "serial", "takeover", "next", "edit"}

\* While its serial is not taken over, what an edit wrote is in the cached object.
EditOf(z, w, copy, left) ==
    \A r \in Record \ left : Touched(z, r, w - 1, w) /\ ~Touched(z, r, w, Current(z)) =>
                          (r \in copy.records <=> r \in history[z][w])

EditOK ==
    \A a \in Actor : task[a].edited /\ ~cache[task[a].zone].suspect =>
        EditOf(task[a].zone, task[a].write, cache[task[a].zone], task[a].left)

EditHeld ==
    \A a \in Actor : task[a].edited =>
        a = Loop /\ task[a].held /\ task[a].write \in 2 .. Current(task[a].zone)

\* What is left to be entered is of an UPDATE the server carried out.
WriteFits(t) ==
    t.left # {} =>
        /\ t.zone \in Zone /\ t.write \in 2 .. Current(t.zone)
        /\ t.left \subseteq Changed(t.zone, t.write)
        /\ t.at # "sync" /\ t.then # "sync"

WriteOK == \A a \in Actor : WriteFits(task[a])

IInv == CoreTypeOK /\ CopyOK /\ TaskOK /\ EditOK /\ EditHeld /\ WriteOK
--------------------------------------------------------------------------------
(* Journals *)

\* A record that did not change has the same value at both ends.
LEMMA SameValue ==
    ASSUME NEW z \in Zone, NEW r \in Record, NEW i \in Serials(z), NEW j \in Serials(z), i <= j,
           history \in [Zone -> Seq(SUBSET Record)], ~Touched(z, r, i, j)
    PROVE  r \in history[z][i] <=> r \in history[z][j]
<1>1. i \in Serials(z) \cap (i .. j) /\ j \in Serials(z) \cap (i .. j)
  BY DEF Serials
<1> QED BY <1>1 DEF Touched

\* What did not change over a span did not change over a part of it.
LEMMA TouchedMonotone ==
    ASSUME NEW z \in Zone, NEW r \in Record, NEW i \in Int, NEW j \in Int, NEW k \in Int, NEW l \in Int,
           i <= j, k <= l, Touched(z, r, j, k)
    PROVE  Touched(z, r, i, l)
<1>1. Serials(z) \cap (j .. k) \subseteq Serials(z) \cap (i .. l)
  BY DEF Serials
<1> QED BY <1>1 DEF Touched

\* Two adjoining spans without a change are one.
LEMMA TouchedCompose ==
    ASSUME NEW z \in Zone, NEW r \in Record, history \in [Zone -> Seq(SUBSET Record)],
           NEW i \in Serials(z), NEW j \in Serials(z), NEW k \in Serials(z), i <= j, j <= k,
           ~Touched(z, r, i, j), ~Touched(z, r, j, k)
    PROVE  ~Touched(z, r, i, k)
<1>1. ASSUME NEW m \in Serials(z) \cap (i .. k)
      PROVE  r \in history[z][m] <=> r \in history[z][j]
  <2>1. CASE m <= j
    <3>1. m \in Serials(z) \cap (i .. j) /\ j \in Serials(z) \cap (i .. j)
      BY <2>1 DEF Serials
    <3> QED BY <3>1 DEF Touched
  <2>2. CASE j < m
    <3>1. m \in Serials(z) \cap (j .. k) /\ j \in Serials(z) \cap (j .. k)
      BY <2>2 DEF Serials
    <3> QED BY <3>1 DEF Touched
  <2> QED BY <2>1, <2>2 DEF Serials
<1> QED BY <1>1 DEF Touched

\* A difference, applied to an object at the serial it starts from, leaves an
\* object that agrees with the server but for later changes.
LEMMA PatchAgrees ==
    ASSUME NEW z \in Zone, NEW copy \in Copy, NEW upto \in Serials(z),
           history \in [Zone -> Seq(SUBSET Record)],
           copy.serial \in 1 .. upto, NEW but, Agrees(z, copy, but)
    PROVE  Agrees(z, Applied(copy, z, copy.serial, upto), but)
<1> DEFINE new == Applied(copy, z, copy.serial, upto)
<1>0. /\ Current(z) \in Serials(z) /\ upto <= Current(z) /\ copy.serial \in Serials(z)
      /\ copy.serial <= upto
  BY DEF Serials, Current
<1>1. new.serial = upto /\ new.records = Patched(z, copy.records, copy.serial, upto)
  BY DEF Applied
<1> SUFFICES ASSUME NEW r \in Record \ but, ~Touched(z, r, upto, Current(z))
             PROVE  r \in new.records <=> r \in history[z][Current(z)]
  BY <1>1 DEF Agrees
<1>2. r \in history[z][upto] <=> r \in history[z][Current(z)]
  BY <1>0, SameValue
<1>3. CASE Touched(z, r, copy.serial, upto)
  BY <1>1, <1>2, <1>3 DEF Patched
<1>4. CASE ~Touched(z, r, copy.serial, upto)
  <2>1. ~Touched(z, r, copy.serial, Current(z))
    BY <1>0, <1>4, TouchedCompose
  <2> QED BY <1>1, <1>4, <2>1 DEF Patched, Agrees
<1> QED BY <1>3, <1>4
--------------------------------------------------------------------------------
(* Steps that leave the server and the cache alone *)

LEMMA InitIInv == Init => IInv
<1> SUFFICES ASSUME Init PROVE IInv
  OBVIOUS
<1>1. ASSUME NEW z \in Zone PROVE history[z] \in Seq(SUBSET Record) /\ Len(history[z]) = 1
  <2>1. PICK s \in Start : history[z] = <<s>>
    BY DEF Init
  <2>2. s \in SUBSET Record
    BY CacheAssumption
  <2> QED BY <2>1, <2>2
<1>2. NoTask \in Task
  BY DEF NoTask, Task, Step
<1>3. CoreTypeOK
  <2>1. /\ history = [z \in Zone |-> history[z]]
        /\ \A z \in Zone : history[z] \in Seq(SUBSET Record)
    BY <1>1 DEF Init
  <2>2. history \in [Zone -> Seq(SUBSET Record)]
    BY <2>1
  <2>3. \A z \in Zone : Current(z) >= 1
    BY <1>1 DEF Current
  <2>4. sent \subseteq Zone \X Nat /\ \A w \in sent : w[2] \in 2 .. Current(w[1])
    BY DEF Init
  <2>5. cache \in [Zone -> {None} \cup Copy]
    BY DEF Init
  <2>6. task \in [Actor -> Task]
    BY <1>2 DEF Init
  <2> QED BY <2>2, <2>3, <2>4, <2>5, <2>6 DEF CoreTypeOK
<1>4. CopyOK
  <2>1. \A z \in Zone : cache[z] = None
    BY DEF Init
  <2> QED BY <2>1 DEF CopyOK
<1>5. \A a \in Actor : task[a] = NoTask
  BY DEF Init
<1>6. EditHeld /\ WriteOK
  BY <1>5 DEF EditHeld, WriteOK, WriteFits, NoTask
<1>7. TaskOK
  BY <1>5 DEF TaskOK, NoTask
<1>8. EditOK
  BY <1>5 DEF EditOK, NoTask
<1> QED BY <1>3, <1>4, <1>6, <1>7, <1>8 DEF IInv

\* What a task still has to enter in a zone it has entered something in.
EnteringBy(t, z) == IF t.zone = z /\ t.edited THEN t.left ELSE {}

\* The cache and the server stay, and so does what is being entered.
LEMMA SameCopies ==
    ASSUME CopyOK, UNCHANGED <<history, cache>>, \A y \in Zone : Entering(y)' = Entering(y)
    PROVE  CopyOK'
<1> SUFFICES ASSUME NEW y \in Zone, cache[y] # None
             PROVE  /\ cache[y].serial \in Serials(y)
                    /\ ~cache[y].suspect => Agrees(y, cache[y], Entering(y)')
  BY DEF CopyOK, Serials, Agrees, Touched, Current
<1> QED BY DEF CopyOK

\* A task goes on to t, which holds what it may hold; the others stay.
TaskFits(t) ==
    /\ t \in Task /\ ~t.edited /\ WriteFits(t)
    /\ t.at \notin {"idle", "sync"} => t.zone \in Zone
    /\ t.held => t.zone \in Zone /\ cache[t.zone] # None
    /\ t.at = "apply" => t.from \in 1 .. t.upto /\ t.upto \in Serials(t.zone)
    /\ t.at \in {"install", "takeover"} => t.upto \in Serials(t.zone)

LEMMA TaskStepOK ==
    ASSUME IInv, NEW a \in Actor, NEW t, TaskFits(t), Continue(a, t, {}),
           ~task[a].edited \/ task[a].left = {},
           sent' \subseteq sent, UNCHANGED <<history, cache>>
    PROVE  IInv'
<1>1. /\ task \in [Actor -> Task]
      /\ task' \in [Actor -> Task] /\ task'[a] = t
      /\ \A b \in Actor \ {a} : task'[b] = task[b]
  <2>1. \A b \in Actor : Loosened(task[b], {}) = task[b]
    BY DEF Loosened
  <2> QED BY <2>1 DEF Continue, IInv, CoreTypeOK, TaskFits
<1>2. CoreTypeOK'
  BY <1>1 DEF IInv, CoreTypeOK, Current
<1>3. CopyOK'
  <2>1. \A y \in Zone : Entering(y)' = Entering(y)
    BY <1>1 DEF Entering, TaskFits, Actor
  <2> QED BY <2>1, SameCopies DEF IInv
<1>4. TaskOK'
  <2> SUFFICES ASSUME NEW b \in Actor PROVE
        /\ task'[b].at \notin {"idle", "sync"} => task'[b].zone \in Zone
        /\ task'[b].held => task'[b].zone \in Zone /\ cache[task'[b].zone] # None
        /\ task'[b].at = "apply" =>
              task'[b].from \in 1 .. task'[b].upto /\ task'[b].upto \in Serials(task'[b].zone)
        /\ task'[b].at \in {"install", "takeover"} => task'[b].upto \in Serials(task'[b].zone)
        /\ task'[b].edited => task'[b].at \in {"relook", "serial", "takeover", "next", "edit"}
    BY DEF TaskOK, Serials
  <2>1. CASE b = a
    BY <1>1, <2>1 DEF TaskFits
  <2>2. CASE b # a
    BY <1>1, <2>2 DEF IInv, TaskOK
  <2> QED BY <2>1, <2>2
<1>5. EditOK'
  <2> SUFFICES ASSUME NEW b \in Actor, task'[b].edited, ~cache[task'[b].zone].suspect
               PROVE  EditOf(task'[b].zone, task'[b].write, cache[task'[b].zone], task'[b].left)
    BY DEF EditOK, EditOf, Touched, Serials, Current
  <2>1. b # a
    BY <1>1 DEF TaskFits
  <2> QED BY <1>1, <2>1 DEF IInv, EditOK
<1>6. EditHeld'
  BY <1>1 DEF IInv, EditHeld, TaskFits, Current
<1>7. WriteOK'
  <2> SUFFICES ASSUME NEW b \in Actor PROVE WriteFits(task'[b])
    BY DEF WriteOK, WriteFits, Changed, Touched, Serials, Current
  <2> QED BY <1>1 DEF IInv, WriteOK, TaskFits
<1> QED BY <1>2, <1>3, <1>4, <1>5, <1>6, <1>7 DEF IInv

\* Starting a refresh.
LEMMA RefreshFits ==
    ASSUME IInv, NEW a \in Actor, NEW t \in Task, t.zone \in Zone, ~t.edited, WriteFits(t),
           ~task[a].edited, Refresh(a, t),
           UNCHANGED <<history, sent, cache>>
    PROVE  IInv'
<1> DEFINE ixfr == cache[t.zone] # None /\ PreferIxfr
           u == [t EXCEPT !.at = IF ixfr THEN "query" ELSE "full", !.held = ixfr]
<1>1. ixfr \in BOOLEAN
  BY CacheAssumption
<1>2. TaskFits(u)
  BY <1>1 DEF TaskFits, WriteFits, Task, Step
<1>3. Continue(a, u, {})
  BY DEF Refresh
<1> QED BY <1>2, <1>3, TaskStepOK

LEMMA RefreshTaskSteps ==
    ASSUME IInv, NEW a \in Actor, QuerySerial(a) \/ AskDiff(a) \/ NoAnswer(a) \/ TransferAll(a)
    PROVE  IInv'
<1> DEFINE t == task[a]
<1>0. t \in Task /\ t.zone \in Zone /\ ~t.edited /\ WriteFits(t)
  BY DEF IInv, CoreTypeOK, TaskOK, WriteOK, QuerySerial, AskDiff, NoAnswer, TransferAll
<1>1. t.held => cache[t.zone] # None
  BY DEF IInv, TaskOK
<1>2. ASSUME NEW held \in BOOLEAN, held => cache[t.zone] # None PROVE TaskFits(Returned(t, held))
  BY <1>0, <1>1, <1>2 DEF TaskFits, WriteFits, Returned, Task, Step, NoTask
<1>3. Current(t.zone) \in Serials(t.zone) /\ Current(t.zone) \in Nat
  BY <1>0 DEF IInv, CoreTypeOK, Serials, Current
<1>4. CASE QuerySerial(a)
  <2>1. TaskFits(Returned(t, t.held)) /\ TaskFits([t EXCEPT !.at = "diff"])
    BY <1>0, <1>1, <1>2 DEF TaskFits, WriteFits, Task, Step
  <2>2. Continue(a, Returned(t, t.held), {}) \/ Continue(a, [t EXCEPT !.at = "diff"], {})
    BY <1>4 DEF QuerySerial, Goto
  <2> QED BY <1>0, <1>4, <2>1, <2>2, TaskStepOK DEF QuerySerial
<1>5. CASE AskDiff(a)
  <2> DEFINE from == IF t.held THEN cache[t.zone].serial ELSE Current(t.zone)
             u == [t EXCEPT !.at = "apply", !.from = from, !.upto = Current(t.zone)]
  <2>1. from \in Serials(t.zone)
    BY <1>0, <1>1, <1>3 DEF IInv, CopyOK
  <2>2. from \in Nat /\ from \in 1 .. Current(t.zone)
    BY <2>1 DEF Serials, Current
  <2>3. TaskFits(u)
    BY <1>0, <1>1, <1>3, <2>2 DEF TaskFits, WriteFits, Task, Step
  <2> QED BY <1>0, <1>5, <2>3, TaskStepOK DEF AskDiff
<1>6. CASE NoAnswer(a)
  <2>1. TaskFits(Returned(t, FALSE)) /\ TaskFits([t EXCEPT !.at = "full"])
    BY <1>0, <1>1, <1>2 DEF TaskFits, WriteFits, Task, Step
  <2> QED BY <1>0, <1>6, <2>1, TaskStepOK DEF NoAnswer, Goto
<1>7. CASE TransferAll(a)
  <2>1. TaskFits([t EXCEPT !.at = "install", !.upto = Current(t.zone)])
    BY <1>0, <1>1, <1>3 DEF TaskFits, WriteFits, Task, Step
  <2> QED BY <1>0, <1>7, <2>1, TaskStepOK DEF TransferAll
<1> QED BY <1>4, <1>5, <1>6, <1>7
--------------------------------------------------------------------------------
(* The server moves on *)

LEMMA HistoryStep ==
    ASSUME IInv, NEW z \in Zone, NEW records \in SUBSET Record,
           history' = [history EXCEPT ![z] = Append(history[z], records)],
           sent' \subseteq sent \cup {<<z, Current(z) + 1>>}, UNCHANGED <<cache, task>>
    PROVE  IInv'
<1>1. /\ history' \in [Zone -> Seq(SUBSET Record)]
      /\ \A y \in Zone : /\ Current(y) \in Nat /\ Current(y)' \in Nat /\ Current(y) >= 1
                         /\ Current(y)' >= Current(y)
                         /\ \A i \in Serials(y) : i \in Serials(y)' /\ history'[y][i] = history[y][i]
  BY DEF IInv, CoreTypeOK, Serials, Current
<1>2. Current(z)' = Current(z) + 1
  BY DEF IInv, CoreTypeOK, Current
<1>3. CoreTypeOK'
  <2>1. ASSUME NEW w \in sent' PROVE w \in Zone \X Nat /\ w[2] \in 2 .. Current(w[1])'
    <3>1. CASE w \in sent
      BY <1>1, <3>1 DEF IInv, CoreTypeOK
    <3>2. CASE w = <<z, Current(z) + 1>>
      BY <1>1, <1>2, <3>2
    <3> QED BY <3>1, <3>2
  <2> QED BY <1>1, <2>1 DEF IInv, CoreTypeOK
<1>4. ASSUME NEW y \in Zone, NEW r \in Record, NEW i \in Int, NEW j \in Int, j <= Current(y)
      PROVE  Touched(y, r, i, j)' <=> Touched(y, r, i, j)
  <2>1. Serials(y)' \cap (i .. j) = Serials(y) \cap (i .. j)
    BY <1>1, <1>4 DEF Serials, Current
  <2> QED BY <1>1, <2>1 DEF Touched
<1>5. ASSUME NEW y \in Zone, NEW r \in Record, NEW i \in Serials(y), ~Touched(y, r, i, Current(y))'
      PROVE  /\ ~Touched(y, r, i, Current(y))
             /\ r \in history'[y][Current(y)'] <=> r \in history[y][Current(y)]
  <2>1. i \in Int /\ i <= Current(y) /\ Current(y) \in Serials(y)
    BY <1>1 DEF Serials, Current
  <2> PICK last \in Nat : last = Current(y)
    BY <1>1
  <2>2. ~Touched(y, r, i, last)'
    <3>1. Serials(y)' \cap (i .. last) \subseteq Serials(y)' \cap (i .. Current(y)')
      BY <1>1 DEF Serials
    <3> QED BY <1>5, <3>1 DEF Touched
  <2>3. ~Touched(y, r, i, Current(y))
    BY <1>4, <2>1, <2>2
  <2>4. Current(y) \in Serials(y)' \cap (i .. Current(y)') /\ Current(y)' \in Serials(y)' \cap (i .. Current(y)')
    BY <1>1, <2>1 DEF Serials, Current
  <2>5. r \in history'[y][Current(y)'] <=> r \in history'[y][Current(y)]
    BY <1>5, <2>4 DEF Touched
  <2> QED BY <1>1, <2>1, <2>3, <2>5
<1>6. CopyOK'
  <2> SUFFICES ASSUME NEW y \in Zone, cache[y] # None
               PROVE  /\ cache[y].serial \in Serials(y)'
                      /\ ~cache[y].suspect => Agrees(y, cache[y], Entering(y))'
    BY DEF CopyOK
  <2>1. cache[y].serial \in Serials(y)
    BY DEF IInv, CopyOK
  <2>2. ASSUME ~cache[y].suspect, NEW r \in Record \ Entering(y),
               ~Touched(y, r, cache[y].serial, Current(y))'
        PROVE  r \in cache[y].records <=> r \in history'[y][Current(y)']
    BY <1>5, <2>1, <2>2 DEF IInv, CopyOK, Agrees
  <2>3. Entering(y)' = Entering(y)
    BY DEF Entering
  <2> QED BY <1>1, <2>1, <2>2, <2>3 DEF Agrees
<1>7. TaskOK'
  BY <1>1 DEF IInv, TaskOK, CoreTypeOK
<1>8. EditOK'
  <2> SUFFICES ASSUME NEW a \in Actor, task[a].edited, ~cache[task[a].zone].suspect
               PROVE  EditOf(task[a].zone, task[a].write, cache[task[a].zone], task[a].left)'
    BY DEF EditOK
  <2> DEFINE y == task[a].zone
             w == task[a].write
  <2>0. y \in Zone /\ w \in 2 .. Current(y)
    BY DEF IInv, TaskOK, EditHeld
  <2>1. w \in Serials(y) /\ w - 1 \in Serials(y) /\ w \in Int /\ w - 1 \in Int /\ w <= Current(y)
    BY <1>1, <2>0 DEF Serials, Current
  <2>2. ASSUME NEW r \in Record \ task[a].left, Touched(y, r, w - 1, w)', ~Touched(y, r, w, Current(y))'
        PROVE  r \in cache[y].records <=> r \in history'[y][w]
    <3>1. Touched(y, r, w - 1, w)
      BY <1>4, <2>0, <2>1, <2>2
    <3>2. ~Touched(y, r, w, Current(y))
      BY <1>5, <2>0, <2>1, <2>2
    <3>3. EditOf(y, w, cache[y], task[a].left)
      BY DEF IInv, EditOK
    <3>4. r \in cache[y].records <=> r \in history[y][w]
      BY <3>1, <3>2, <3>3 DEF EditOf
    <3> QED BY <1>1, <2>0, <2>1, <3>4
  <2> QED BY <1>1, <2>2 DEF EditOf
<1>9. EditHeld'
  <2> SUFFICES ASSUME NEW a \in Actor, task[a].edited
               PROVE  a = Loop /\ task[a].held /\ task[a].write \in 2 .. Current(task[a].zone)'
    BY DEF EditHeld
  <2>1. task[a].zone \in Zone
    BY DEF IInv, TaskOK, EditHeld
  <2> QED BY <1>1, <2>1 DEF IInv, EditHeld
<1>10. WriteOK'
  <2> SUFFICES ASSUME NEW a \in Actor, task[a].left # {} PROVE WriteFits(task[a])'
    BY DEF WriteOK, WriteFits
  <2> DEFINE y == task[a].zone
             w == task[a].write
  <2>1. /\ y \in Zone /\ w \in 2 .. Current(y) /\ task[a].left \subseteq Changed(y, w)
        /\ task[a].at # "sync" /\ task[a].then # "sync"
    BY DEF IInv, WriteOK, WriteFits
  <2>2. w \in Int /\ w - 1 \in Int /\ w <= Current(y) /\ w \in 2 .. Current(y)'
    BY <1>1, <2>1
  <2>3. \A r \in Record : Touched(y, r, w - 1, w)' <=> Touched(y, r, w - 1, w)
    BY <1>4, <2>1, <2>2
  <2>4. Changed(y, w)' = Changed(y, w)
    BY <2>3 DEF Changed
  <2> QED BY <2>1, <2>2, <2>4 DEF WriteFits
<1> QED BY <1>3, <1>6, <1>7, <1>8, <1>9, <1>10 DEF IInv
--------------------------------------------------------------------------------
(* Zones leave the cache, or a transfer takes their place *)

\* Only zones count among what left the cache.
LEMMA LoosenedInZone ==
    ASSUME IInv, NEW zs
    PROVE  \A b \in Actor : Loosened(task[b], zs) = Loosened(task[b], zs \cap Zone)
<1> SUFFICES ASSUME NEW b \in Actor PROVE Loosened(task[b], zs) = Loosened(task[b], zs \cap Zone)
  OBVIOUS
<1>1. task[b] \in Task /\ (task[b].held => task[b].zone \in Zone) /\ (task[b].edited => task[b].held)
  BY DEF IInv, CoreTypeOK, TaskOK, EditHeld
<1>2. CASE task[b].zone \in Zone
  BY <1>2 DEF Loosened
<1>3. CASE task[b].zone \notin Zone
  <2>1. ~task[b].held /\ ~task[b].edited /\ task[b].held \in BOOLEAN /\ task[b].edited \in BOOLEAN
    BY <1>1, <1>3 DEF Task
  <2>2. [task[b] EXCEPT !.held = FALSE, !.edited = FALSE] = task[b]
    BY <1>1, <2>1 DEF Task
  <2> QED BY <2>2 DEF Loosened
<1> QED BY <1>2, <1>3

LEMMA DropStep ==
    ASSUME IInv, NEW a \in Actor, NEW t \in Task, NEW zs \in SUBSET Zone, Continue(a, t, zs),
           UNCHANGED history, sent' \subseteq sent,
           cache' \in [Zone -> {None} \cup Copy],
           \A z \in Zone \ zs : cache'[z] = cache[z],
           \A z \in zs : cache'[z] # None =>
               cache'[z].serial \in Serials(z) /\ Agrees(z, cache'[z], {}),
           ~task[a].edited, ~t.edited, t.at \in {"idle", "sync", "edit", "serial"},
           t.at \notin {"idle", "sync"} => t.zone \in Zone,
           t.held => t.zone \in Zone /\ cache'[t.zone] # None, WriteFits(t)
    PROVE  IInv'
<1>1. /\ task' \in [Actor -> Task] /\ task'[a] = t
      /\ \A b \in Actor \ {a} : task'[b] = Loosened(task[b], zs)
  <2>1. \A b \in Actor : Loosened(task[b], zs) \in Task
    BY DEF Loosened, IInv, CoreTypeOK, Task
  <2> QED BY <2>1 DEF Continue
<1>2. CoreTypeOK'
  BY <1>1 DEF IInv, CoreTypeOK, Current
<1>3. ASSUME NEW b \in Actor \ {a}
      PROVE  /\ task'[b].zone = task[b].zone /\ task'[b].at = task[b].at
             /\ task'[b].from = task[b].from /\ task'[b].upto = task[b].upto
             /\ task'[b].write = task[b].write /\ task'[b].then = task[b].then
             /\ task'[b].left = task[b].left
             /\ task'[b].held => task[b].held /\ task[b].zone \notin zs
             /\ task'[b].edited => task[b].edited /\ task[b].zone \notin zs
             /\ task[b].edited /\ task[b].zone \notin zs => task'[b].edited
  <2>1. task[b] \in Task /\ task'[b] = Loosened(task[b], zs)
    BY <1>1 DEF IInv, CoreTypeOK
  <2>2. CASE task[b].zone \in zs
    <3>1. task'[b] = [task[b] EXCEPT !.held = FALSE, !.edited = FALSE]
      BY <2>1, <2>2 DEF Loosened
    <3> QED BY <2>1, <2>2, <3>1 DEF Task
  <2>3. CASE task[b].zone \notin zs
    BY <2>1, <2>3 DEF Loosened
  <2> QED BY <2>2, <2>3
<1>4. CopyOK'
  <2> SUFFICES ASSUME NEW z \in Zone, cache'[z] # None
               PROVE  /\ cache'[z].serial \in Serials(z)
                      /\ ~cache'[z].suspect => Agrees(z, cache'[z], Entering(z)')
    BY DEF CopyOK, Serials, Agrees, Touched, Current
  <2>1. CASE z \in zs
    BY <2>1 DEF Agrees
  <2>2. CASE z \notin zs
    <3>1. Entering(z)' = Entering(z)
      BY <1>1, <1>3, <2>2 DEF Entering, Actor
    <3> QED BY <2>2, <3>1 DEF IInv, CopyOK
  <2> QED BY <2>1, <2>2
<1>5. TaskOK'
  <2> SUFFICES ASSUME NEW b \in Actor PROVE
        /\ task'[b].at \notin {"idle", "sync"} => task'[b].zone \in Zone
        /\ task'[b].held => task'[b].zone \in Zone /\ cache'[task'[b].zone] # None
        /\ task'[b].at = "apply" =>
              task'[b].from \in 1 .. task'[b].upto /\ task'[b].upto \in Serials(task'[b].zone)
        /\ task'[b].at \in {"install", "takeover"} => task'[b].upto \in Serials(task'[b].zone)
        /\ task'[b].edited => task'[b].at \in {"relook", "serial", "takeover", "next", "edit"}
    BY DEF TaskOK, Serials
  <2>1. CASE b = a
    BY <1>1, <2>1
  <2>2. CASE b # a
    BY <1>3, <2>2 DEF IInv, TaskOK
  <2> QED BY <2>1, <2>2
<1>6. EditHeld'
  <2> SUFFICES ASSUME NEW b \in Actor, task'[b].edited
               PROVE  b = Loop /\ task'[b].held /\ task'[b].write \in 2 .. Current(task'[b].zone)
    BY DEF EditHeld, Current
  <2>1. b # a
    BY <1>1
  <2>2. task[b].edited /\ task[b].zone \notin zs /\ task'[b] = Loosened(task[b], zs)
    BY <1>1, <1>3, <2>1
  <2> QED BY <2>2 DEF IInv, EditHeld, Loosened
<1>7. EditOK'
  <2> SUFFICES ASSUME NEW b \in Actor, task'[b].edited, ~cache'[task'[b].zone].suspect
               PROVE  EditOf(task'[b].zone, task'[b].write, cache'[task'[b].zone], task'[b].left)
    BY DEF EditOK, EditOf, Touched, Serials, Current
  <2>1. b # a
    BY <1>1
  <2>2. task[b].zone \in Zone \ zs
    BY <1>3, <2>1 DEF IInv, TaskOK, EditHeld
  <2> QED BY <1>3, <2>1, <2>2 DEF IInv, EditOK
<1>8. WriteOK'
  <2> SUFFICES ASSUME NEW b \in Actor PROVE WriteFits(task'[b])
    BY DEF WriteOK, WriteFits, Changed, Touched, Serials, Current
  <2>1. CASE b = a
    BY <1>1, <2>1 DEF WriteFits
  <2>2. CASE b # a
    BY <1>3, <2>2 DEF IInv, WriteOK, WriteFits
  <2> QED BY <2>1, <2>2
<1> QED BY <1>2, <1>4, <1>5, <1>6, <1>7, <1>8 DEF IInv

LEMMA ReturnedShape ==
    ASSUME NEW t \in Task, NEW held \in BOOLEAN
    PROVE  /\ Returned(t, held) \in Task /\ Returned(t, held).at \in {"idle", "sync", "edit", "serial"}
           /\ Returned(t, held).edited => t.edited
           /\ WriteFits(t) => WriteFits(Returned(t, held))
           /\ Returned(t, held).at # "idle" => Returned(t, held).zone = t.zone
           /\ Returned(t, held).held => held /\ Returned(t, held).zone = t.zone
BY DEF Returned, WriteFits, Task, Step, NoTask

LEMMA InstallStep == ASSUME IInv, NEW a \in Actor, Install(a) PROVE IInv'
<1> DEFINE t == task[a]
           z == t.zone
           size == Size(history[z][t.upto])
           spent == IF t.then = "sync" THEN total ELSE total - Estimate({z})
           out == Evicted(size, spent) \cap Zone
           new == [serial |-> t.upto, records |-> history[z][t.upto], suspect |-> FALSE]
<1>1. t \in Task /\ z \in Zone /\ ~t.edited /\ t.upto \in Serials(z) /\ WriteFits(t)
  BY DEF IInv, CoreTypeOK, TaskOK, WriteOK, Install
<1>2. CASE Oversize(size)
  <2>1. TaskFits(Returned(t, FALSE))
    BY <1>1, ReturnedShape DEF TaskFits
  <2> QED BY <1>1, <1>2, <2>1, TaskStepOK DEF Install
<1>3. CASE ~Oversize(size)
  <2>1. new \in Copy
    <3>1. history[z][t.upto] \in SUBSET Record
      BY <1>1 DEF IInv, CoreTypeOK, Serials
    <3> QED BY <1>1, <3>1 DEF Copy, Serials, Task
  <2>2. Agrees(z, new, {})
    <3>1. Current(z) \in Serials(z) /\ t.upto <= Current(z)
      BY <1>1 DEF IInv, CoreTypeOK, Serials, Current
    <3>2. \A r \in Record : ~Touched(z, r, t.upto, Current(z)) =>
                             (r \in history[z][t.upto] <=> r \in history[z][Current(z)])
      BY <1>1, <3>1, SameValue DEF IInv, CoreTypeOK
    <3> QED BY <3>2 DEF Agrees
  <2>3. cache' = [Dropped(Evicted(size, spent)) EXCEPT ![z] = new]
    BY <1>3 DEF Install
  <2>4. /\ cache' \in [Zone -> {None} \cup Copy] /\ cache'[z] = new
        /\ \A y \in Zone \ (out \cup {z}) : cache'[y] = cache[y]
        /\ \A y \in out : y # z => cache'[y] = None
    BY <1>1, <2>1, <2>3 DEF Dropped, IInv, CoreTypeOK
  <2>5. Continue(a, Returned(t, TRUE), out \cup {z})
    <3>1. \A b \in Actor : Loosened(task[b], Evicted(size, spent) \cup {z}) = Loosened(task[b], out \cup {z})
      <4>1. (Evicted(size, spent) \cup {z}) \cap Zone = out \cup {z}
        BY <1>1
      <4> HIDE DEF out
      <4> QED BY <4>1, LoosenedInZone
    <3>2. Continue(a, Returned(t, TRUE), Evicted(size, spent) \cup {z})
      BY <1>3 DEF Install
    <3> QED BY <3>1, <3>2 DEF Continue
  <2>6. new.serial = t.upto
    OBVIOUS
  <2>7. \A y \in out \cup {z} : cache'[y] # None => cache'[y].serial \in Serials(y) /\ Agrees(y, cache'[y], {})
    <3> SUFFICES ASSUME NEW y \in out \cup {z}, cache'[y] # None
                 PROVE  cache'[y].serial \in Serials(y) /\ Agrees(y, cache'[y], {})
      OBVIOUS
    <3> HIDE DEF new, out
    <3>1. y = z
      BY <2>4
    <3> QED BY <1>1, <2>2, <2>4, <2>6, <3>1
  <2>8. cache'[z] # None
    BY <2>1, <2>4, NoneAssumption
  <2>9. UNCHANGED <<history, sent>>
    BY DEF Install
  <2> DEFINE u == Returned(t, TRUE)
  <2>10. /\ u \in Task /\ u.at \in {"idle", "sync", "edit", "serial"} /\ ~u.edited
         /\ u.at \notin {"idle", "sync"} => u.zone \in Zone
         /\ u.held => u.zone \in Zone /\ cache'[u.zone] # None
         /\ WriteFits(u)
    BY <1>1, <2>8, ReturnedShape
  <2> DEFINE zs == out \cup {z}
  <2>11. zs \in SUBSET Zone
    BY <1>1
  <2>12. /\ Continue(a, u, zs) /\ \A y \in Zone \ zs : cache'[y] = cache[y]
         /\ \A y \in zs : cache'[y] # None => cache'[y].serial \in Serials(y) /\ Agrees(y, cache'[y], {})
    BY <2>4, <2>5, <2>7
  <2> HIDE DEF u, zs
  <2>13. ~task[a].edited
    BY <1>1
  <2> HIDE DEF t
  <2> QED BY <2>4, <2>9, <2>10, <2>11, <2>12, <2>13, DropStep
<1> QED BY <1>2, <1>3
--------------------------------------------------------------------------------
(* A cached object changes in place *)

LEMMA ChangeStep ==
    ASSUME IInv, NEW a \in Actor, NEW z \in Zone, NEW new \in Copy, cache[z] # None,
           cache' = [cache EXCEPT ![z] = new], UNCHANGED <<history, sent>>,
           new.serial \in Serials(z), ~new.suspect => Agrees(z, new, EnteringBy(task'[Loop], z)),
           task' \in [Actor -> Task],
           \/ ~task'[a].edited
           \/ /\ a = Loop /\ task'[a].at \in {"relook", "next"} /\ task'[a].held /\ task'[a].zone = z
              /\ task'[a].write \in 2 .. Current(z)
              /\ ~new.suspect => EditOf(z, task'[a].write, new, task'[a].left),
           task[a].edited => task[a].zone = z,
           task'[a].at \in {"idle", "sync", "edit", "serial", "relook", "next"},
           task'[a].at \notin {"idle", "sync"} => task'[a].zone \in Zone,
           task'[a].held => task'[a].zone = z, WriteFits(task'[a]),
           \A b \in Actor \ {a} :
               \/ task'[b] = task[b] /\ (task[b].edited /\ task[b].zone = z /\ ~new.suspect =>
                                            EditOf(z, task[b].write, new, task[b].left))
               \/ task[b].zone = z /\ task'[b] = [task[b] EXCEPT !.edited = FALSE]
    PROVE  IInv'
<1>1. CoreTypeOK'
  BY DEF IInv, CoreTypeOK, Current
<1>2. /\ cache'[z] = new /\ \A y \in Zone : cache[y] # None => cache'[y] # None
      /\ \A y \in Zone \ {z} : cache'[y] = cache[y]
  BY NoneAssumption DEF IInv, CoreTypeOK
<1>3. ASSUME NEW b \in Actor \ {a}
      PROVE  /\ task'[b].zone = task[b].zone /\ task'[b].at = task[b].at
             /\ task'[b].from = task[b].from /\ task'[b].upto = task[b].upto
             /\ task'[b].write = task[b].write /\ task'[b].held = task[b].held
             /\ task'[b].then = task[b].then /\ task'[b].left = task[b].left
             /\ task'[b].edited => task'[b] = task[b]
             /\ task[b].zone # z => task'[b] = task[b]
  <2>1. task[b] \in Task
    BY DEF IInv, CoreTypeOK
  <2> QED BY <2>1 DEF Task
<1>4. CopyOK'
  <2> SUFFICES ASSUME NEW y \in Zone, cache'[y] # None
               PROVE  /\ cache'[y].serial \in Serials(y)
                      /\ ~cache'[y].suspect => Agrees(y, cache'[y], Entering(y)')
    BY DEF CopyOK, Serials, Agrees, Touched, Current
  <2>1. y # z => Entering(y)' = Entering(y)
    BY <1>3 DEF Entering, Actor
  <2>2. Entering(z)' = EnteringBy(task'[Loop], z)
    BY DEF Entering, EnteringBy
  <2> QED BY <1>2, <2>1, <2>2 DEF IInv, CopyOK
<1>5. TaskOK'
  <2> SUFFICES ASSUME NEW b \in Actor PROVE
        /\ task'[b].at \notin {"idle", "sync"} => task'[b].zone \in Zone
        /\ task'[b].held => task'[b].zone \in Zone /\ cache'[task'[b].zone] # None
        /\ task'[b].at = "apply" =>
              task'[b].from \in 1 .. task'[b].upto /\ task'[b].upto \in Serials(task'[b].zone)
        /\ task'[b].at \in {"install", "takeover"} => task'[b].upto \in Serials(task'[b].zone)
        /\ task'[b].edited => task'[b].at \in {"relook", "serial", "takeover", "next", "edit"}
    BY DEF TaskOK, Serials
  <2>1. CASE b = a
    BY <1>2, <2>1
  <2>2. CASE b # a
    BY <1>2, <1>3, <2>2 DEF IInv, TaskOK
  <2> QED BY <2>1, <2>2
<1>6. EditHeld'
  <2> SUFFICES ASSUME NEW b \in Actor, task'[b].edited
               PROVE  b = Loop /\ task'[b].held /\ task'[b].write \in 2 .. Current(task'[b].zone)
    BY DEF EditHeld, Current
  <2>1. CASE b = a
    BY <2>1
  <2>2. CASE b # a
    BY <1>3, <2>2 DEF IInv, EditHeld
  <2> QED BY <2>1, <2>2
<1>7. EditOK'
  <2> SUFFICES ASSUME NEW b \in Actor, task'[b].edited, ~cache'[task'[b].zone].suspect
               PROVE  EditOf(task'[b].zone, task'[b].write, cache'[task'[b].zone], task'[b].left)
    BY DEF EditOK, EditOf, Touched, Serials, Current
  <2>1. CASE b = a
    <3>1. EditOf(z, task'[a].write, new, task'[a].left) /\ task'[a].zone = z
      BY <1>2, <2>1
    <3> QED BY <1>2, <2>1, <3>1
  <2>2. CASE b # a /\ task[b].zone = z
    <3>1. task'[b] = task[b] /\ task[b].edited
      BY <1>3, <2>2
    <3>2. task[b] # [task[b] EXCEPT !.edited = FALSE]
      BY <3>1 DEF IInv, CoreTypeOK, Task
    <3> QED BY <1>2, <2>2, <3>1, <3>2
  <2>3. CASE b # a /\ task[b].zone # z
    <3>1. task[b].zone \in Zone
      BY <1>3, <2>3 DEF IInv, TaskOK, EditHeld
    <3> QED BY <1>2, <1>3, <2>3, <3>1 DEF IInv, EditOK
  <2> QED BY <2>1, <2>2, <2>3
<1>8. WriteOK'
  <2> SUFFICES ASSUME NEW b \in Actor PROVE WriteFits(task'[b])
    BY DEF WriteOK, WriteFits, Changed, Touched, Serials, Current
  <2>1. CASE b = a
    BY <2>1 DEF WriteFits
  <2>2. CASE b # a
    BY <1>3, <2>2 DEF IInv, WriteOK, WriteFits
  <2> QED BY <2>1, <2>2
<1> QED BY <1>1, <1>4, <1>5, <1>6, <1>7, <1>8 DEF IInv

LEMMA ApplyStep == ASSUME IInv, NEW a \in Actor, ApplyDiff(a) PROVE IInv'
<1> DEFINE t == task[a]
           z == t.zone
           u == Returned(t, t.held)
           new == Applied(cache[z], z, t.from, t.upto)
<1>1. t \in Task /\ z \in Zone /\ ~t.edited /\ t.upto \in Serials(z) /\ t.from \in 1 .. t.upto
      /\ t.held \in BOOLEAN /\ WriteFits(t)
  BY DEF IInv, CoreTypeOK, TaskOK, WriteOK, ApplyDiff, Task
<1>2. CASE ~t.held
  <2>1. Continue(a, u, {})
    <3>1. \A b \in Actor : Loosened(task[b], {}) = task[b]
      BY DEF Loosened
    <3> QED BY <1>2, <3>1 DEF ApplyDiff, Continue
  <2>2. TaskFits(u)
    BY <1>1, <1>2, ReturnedShape DEF TaskFits
  <2> QED BY <1>1, <1>2, <2>1, <2>2, TaskStepOK DEF ApplyDiff
<1>3. CASE t.held
  <2>1. cache[z] # None /\ cache[z] \in Copy /\ cache[z].serial \in Serials(z)
    BY <1>1, <1>3 DEF IInv, CoreTypeOK, CopyOK, TaskOK
  <2>2. new \in Copy /\ new.serial = t.upto /\ new.records = Patched(z, cache[z].records, t.from, t.upto)
    BY <1>1, <2>1 DEF Applied, Copy, Patched, Task
  <2>3. ASSUME ~new.suspect PROVE Agrees(z, new, Entering(z)) /\ cache[z].serial = t.from /\ ~cache[z].suspect
    <3>1. cache[z].serial = t.from /\ ~cache[z].suspect
      BY <2>1, <2>3 DEF Applied, Copy
    <3>2. Agrees(z, cache[z], Entering(z)) /\ cache[z].serial \in 1 .. t.upto /\ history \in [Zone -> Seq(SUBSET Record)]
      BY <1>1, <2>1, <3>1 DEF IInv, CoreTypeOK, CopyOK
    <3>3. Agrees(z, Applied(cache[z], z, cache[z].serial, t.upto), Entering(z))
      BY <1>1, <2>1, <3>2, PatchAgrees
    <3> QED BY <3>1, <3>3
  <2>4. /\ task' \in [Actor -> Task] /\ task'[a] = u
        /\ \A b \in Actor \ {a} : task'[b] = Undone(task[b], z, t.upto)
    <3>1. \A b \in Actor : Undone(task[b], z, t.upto) \in Task
      BY DEF Undone, IInv, CoreTypeOK, Task
    <3> QED BY <1>1, <1>3, <3>1, ReturnedShape DEF ApplyDiff
  <2>5. ASSUME NEW b \in Actor \ {a}
        PROVE  \/ task'[b] = task[b] /\ (task[b].edited /\ task[b].zone = z /\ ~new.suspect =>
                                             EditOf(z, task[b].write, new, task[b].left))
               \/ task[b].zone = z /\ task'[b] = [task[b] EXCEPT !.edited = FALSE]
    <3>0. task[b] \in Task
      BY DEF IInv, CoreTypeOK
    <3>1. CASE task[b].zone # z
      BY <2>4, <3>1 DEF Undone
    <3>2. CASE task[b].zone = z /\ ~(task[b].edited /\ t.upto >= task[b].write)
      BY <2>4, <3>0, <3>2 DEF Undone, Task
    <3>3. CASE task[b].zone = z /\ task[b].edited /\ t.upto >= task[b].write
      <4> DEFINE w == task[b].write
      <4>1. task'[b] = task[b]
        BY <2>4, <3>0, <3>3 DEF Undone, Task
      <4>2. w \in 2 .. Current(z) /\ w \in Serials(z) /\ Current(z) \in Serials(z) /\ t.upto <= Current(z)
        BY <1>1, <3>3 DEF IInv, EditHeld, Serials, Current, CoreTypeOK
      <4>3. ASSUME ~new.suspect, NEW r \in Record \ task[b].left, Touched(z, r, w - 1, w), ~Touched(z, r, w, Current(z))
            PROVE  r \in new.records <=> r \in history[z][w]
        <5>1. ~Touched(z, r, w, t.upto)
          <6>1. w \in Int /\ t.upto \in Int /\ Current(z) \in Int /\ w <= w
            BY <1>1, <4>2 DEF Task, Current, Serials
          <6>2. t.upto <= Current(z)
            BY <4>2
          <6> QED BY <1>1, <4>3, <6>1, <6>2, TouchedMonotone
        <5>2. r \in history[z][t.upto] <=> r \in history[z][w]
          BY <1>1, <3>3, <4>2, <5>1, SameValue DEF IInv, CoreTypeOK
        <5>3. r \in cache[z].records <=> r \in history[z][w]
          BY <2>3, <3>3, <4>3 DEF IInv, EditOK, EditOf
        <5> QED BY <2>2, <5>2, <5>3 DEF Patched
      <4> QED BY <4>1, <4>3 DEF EditOf
    <3> QED BY <3>1, <3>2, <3>3
  <2>6. /\ u.at \in {"idle", "sync", "edit", "serial"} /\ ~u.edited
        /\ u.at \notin {"idle", "sync"} => u.zone \in Zone
        /\ u.held => u.zone = z
        /\ WriteFits(u)
    BY <1>1, <1>3, ReturnedShape
  <2>7. cache' = [cache EXCEPT ![z] = new] /\ UNCHANGED <<history, sent>>
    BY <1>3 DEF ApplyDiff
  <2>8. ASSUME ~new.suspect PROVE Agrees(z, new, EnteringBy(task'[Loop], z))
    <3>1. Agrees(z, new, Entering(z)) /\ Loop \in Actor
      BY <2>3, <2>8 DEF Actor
    <3>2. CASE EnteringBy(task'[Loop], z) = Entering(z)
      BY <3>1, <3>2
    <3>3. CASE EnteringBy(task'[Loop], z) # Entering(z)
      <4> DEFINE w == task[Loop].write
                 left == task[Loop].left
      <4>1. /\ Loop # a /\ task[Loop].edited /\ task[Loop].zone = z /\ Entering(z) = left
            /\ left # {} /\ ~(t.upto >= w)
        <5>1. task[Loop] \in Task
          BY <3>1 DEF IInv, CoreTypeOK
        <5>2. Loop # a
          BY <1>1, <2>4, <2>6, <3>3 DEF Entering, EnteringBy
        <5>3. task'[Loop] = Undone(task[Loop], z, t.upto)
          BY <2>4, <3>1, <5>2
        <5>4. task'[Loop] # task[Loop]
          BY <3>3 DEF Entering, EnteringBy
        <5>5. task[Loop].zone = z /\ task'[Loop] = [task[Loop] EXCEPT !.edited = task[Loop].edited /\ t.upto >= w]
          BY <5>3, <5>4 DEF Undone
        <5>6. task[Loop].edited /\ ~(t.upto >= w)
          <6>1. task[Loop].edited \in BOOLEAN /\ (t.upto >= w) \in BOOLEAN
            BY <5>1 DEF Task
          <6> QED BY <5>1, <5>4, <5>5, <6>1 DEF Task
        <5>7. Entering(z) = left /\ EnteringBy(task'[Loop], z) = {}
          BY <5>1, <5>5, <5>6 DEF Entering, EnteringBy, Task
        <5> QED BY <3>3, <5>2, <5>5, <5>6, <5>7
      <4>2. w \in 2 .. Current(z) /\ left \subseteq Changed(z, w)
        BY <3>1, <4>1 DEF IInv, WriteOK, WriteFits
      <4>3. w - 1 \in Int /\ w \in Int /\ t.upto \in Int /\ t.upto <= w - 1 /\ w <= Current(z) /\ Current(z) \in Int
        BY <1>1, <4>1, <4>2 DEF Task, Serials, Current
      <4>4. \A r \in left : Touched(z, r, t.upto, Current(z))
        <5> SUFFICES ASSUME NEW r \in left PROVE Touched(z, r, t.upto, Current(z))
          OBVIOUS
        <5>1. r \in Record /\ Touched(z, r, w - 1, w)
          BY <4>2 DEF Changed
        <5> QED BY <1>1, <4>3, <5>1, TouchedMonotone
      <4> HIDE DEF new, left
      <4> QED BY <2>2, <3>1, <4>1, <4>4 DEF Agrees
    <3> QED BY <3>2, <3>3
  <2>9. /\ new.serial \in Serials(z)
        /\ ~new.suspect => Agrees(z, new, EnteringBy(task'[Loop], z))
        /\ task[a].edited => task[a].zone = z
        /\ ~task'[a].edited /\ task'[a].at \in {"idle", "sync", "edit", "serial", "relook", "next"}
        /\ task'[a].at \notin {"idle", "sync"} => task'[a].zone \in Zone
        /\ task'[a].held => task'[a].zone = z
        /\ WriteFits(task'[a])
    BY <1>1, <2>2, <2>4, <2>6, <2>8
  <2>10. task' \in [Actor -> Task] /\ cache[z] # None /\ z \in Zone /\ new \in Copy
    BY <1>1, <2>1, <2>2, <2>4
  <2> HIDE DEF new, u, z
  <2> QED BY <2>5, <2>7, <2>9, <2>10, ChangeStep
<1> QED BY <1>1, <1>2, <1>3

LEMMA EditStepOK == ASSUME IInv, Edit PROVE IInv'
<1> DEFINE t == task[Loop]
           z == t.zone
           w == t.write
           copy == cache[z]
           after(op, edited) == [t EXCEPT !.at = "relook", !.left = t.left \ op, !.edited = edited]
<1>0. Loop \in Actor
  BY DEF Actor
<1>1. PICK op \in (SUBSET t.left) \ {{}} :
         \/ /\ t.held /\ cache' = [cache EXCEPT ![z] = Entered(copy, t, op)]
            /\ Continue(Loop, after(op, t.edited \/ t.left = Changed(z, w)), {})
         \/ /\ t.held
            /\ \E records \in SUBSET Record : cache' = [cache EXCEPT ![z] = EnteredAmiss(copy, records)]
            /\ Continue(Loop, after(op, FALSE), {})
         \/ ~t.held /\ UNCHANGED cache /\ Continue(Loop, after(op, FALSE), {})
  BY DEF Edit
<1>2. /\ t \in Task /\ z \in Zone /\ t.left # {} /\ w \in 2 .. Current(z) /\ w \in Nat
      /\ t.left \subseteq Changed(z, w) /\ WriteFits(t)
      /\ op \subseteq t.left /\ UNCHANGED <<history, sent>>
  <2>1. t \in Task /\ z \in Zone /\ WriteFits(t) /\ UNCHANGED <<history, sent>>
    BY <1>0 DEF IInv, CoreTypeOK, TaskOK, WriteOK, Edit
  <2>2. t.left # {}
    <3>1. op # {} /\ op \subseteq t.left
      OBVIOUS
    <3> QED BY <3>1
  <2> QED BY <2>1, <2>2 DEF WriteFits, Task
<1>3. ASSUME NEW edited \in BOOLEAN
      PROVE  LET u == after(op, edited) IN
             /\ u \in Task /\ u.at = "relook" /\ u.zone = z /\ u.write = w /\ u.held = t.held
             /\ u.edited = edited /\ u.left = t.left \ op /\ u.then = t.then /\ WriteFits(u)
  <2> DEFINE u == after(op, edited)
  <2>1. /\ u \in Task /\ u.at = "relook" /\ u.zone = z /\ u.write = w /\ u.held = t.held
        /\ u.edited = edited /\ u.left = t.left \ op /\ u.then = t.then
    BY <1>2 DEF Task, Step
  <2> HIDE DEF u
  <2>2. WriteFits(u)
    BY <1>2, <2>1 DEF WriteFits
  <2> QED BY <2>1, <2>2 DEF u
<1>4. CASE ~t.held
  <2> DEFINE u == after(op, FALSE)
  <2>1. Continue(Loop, u, {}) /\ UNCHANGED cache
    BY <1>1, <1>4
  <2>2. u \in Task /\ u.at = "relook" /\ u.zone = z /\ ~u.held /\ ~u.edited /\ WriteFits(u)
    BY <1>3, <1>4
  <2>3. ~t.edited
    BY <1>0, <1>4 DEF IInv, EditHeld
  <2> HIDE DEF u
  <2>4. TaskFits(u)
    BY <1>2, <2>2 DEF TaskFits
  <2> QED BY <1>0, <1>2, <2>1, <2>3, <2>4, TaskStepOK
<1>5. CASE t.held
  <2>1. copy # None /\ copy \in Copy /\ copy.serial \in Serials(z)
    BY <1>0, <1>2, <1>5 DEF IInv, CoreTypeOK, CopyOK, TaskOK
  <2>2. \A b \in Actor \ {Loop} : ~task[b].edited
    BY DEF IInv, EditHeld
  <2>3. ASSUME NEW edited \in BOOLEAN, Continue(Loop, after(op, edited), {}),
               NEW new \in Copy, cache' = [cache EXCEPT ![z] = new], new.serial = copy.serial,
               ~new.suspect => Agrees(z, new, IF edited THEN t.left \ op ELSE {}),
               edited /\ ~new.suspect => EditOf(z, w, new, t.left \ op)
        PROVE  IInv'
    <3> DEFINE u == after(op, edited)
    <3>1. /\ u \in Task /\ u.at = "relook" /\ u.zone = z /\ u.write = w /\ u.held
          /\ u.edited = edited /\ u.left = t.left \ op /\ WriteFits(u)
      BY <1>3, <1>5
    <3>2. Continue(Loop, u, {})
      BY <2>3
    <3> HIDE DEF u
    <3>3. /\ task' \in [Actor -> Task] /\ task'[Loop] = u
          /\ \A b \in Actor \ {Loop} : task'[b] = task[b]
      <4>1. \A b \in Actor : Loosened(task[b], {}) = task[b]
        BY DEF Loosened
      <4> QED BY <1>0, <3>1, <3>2, <4>1 DEF Continue, IInv, CoreTypeOK
    <3>4. EnteringBy(task'[Loop], z) = IF edited THEN t.left \ op ELSE {}
      BY <3>1, <3>3 DEF EnteringBy
    <3>5. /\ \/ ~task'[Loop].edited
             \/ /\ task'[Loop].at \in {"relook", "next"} /\ task'[Loop].held /\ task'[Loop].zone = z
                /\ task'[Loop].write \in 2 .. Current(z)
                /\ ~new.suspect => EditOf(z, task'[Loop].write, new, task'[Loop].left)
          /\ task'[Loop].at \in {"idle", "sync", "edit", "serial", "relook", "next"}
          /\ task'[Loop].at \notin {"idle", "sync"} => task'[Loop].zone \in Zone
          /\ task'[Loop].held => task'[Loop].zone = z
          /\ WriteFits(task'[Loop])
          /\ task[Loop].edited => task[Loop].zone = z
      BY <1>2, <2>3, <3>1, <3>3
    <3>6. /\ new.serial \in Serials(z) /\ new \in Copy /\ z \in Zone /\ cache[z] # None
          /\ ~new.suspect => Agrees(z, new, EnteringBy(task'[Loop], z))
          /\ cache' = [cache EXCEPT ![z] = new] /\ UNCHANGED <<history, sent>>
      BY <1>2, <2>1, <2>3, <3>4
    <3> HIDE DEF z, t, w, copy, after
    <3> QED BY <1>0, <2>2, <3>3, <3>5, <3>6, ChangeStep
  <2>4. ASSUME NEW records \in SUBSET Record, cache' = [cache EXCEPT ![z] = EnteredAmiss(copy, records)],
               Continue(Loop, after(op, FALSE), {})
        PROVE  IInv'
    <3> DEFINE new == EnteredAmiss(copy, records)
    <3>1. new \in Copy /\ new.serial = copy.serial /\ new.suspect
      BY <2>1 DEF EnteredAmiss, Copy
    <3>2. cache' = [cache EXCEPT ![z] = new]
      BY <2>4
    <3> HIDE DEF new, after, t, z, w, copy
    <3> QED BY <2>3, <2>4, <3>1, <3>2
  <2>5. ASSUME cache' = [cache EXCEPT ![z] = Entered(copy, t, op)],
               Continue(Loop, after(op, t.edited \/ t.left = Changed(z, w)), {})
        PROVE  IInv'
    <3> DEFINE edited == t.edited \/ t.left = Changed(z, w)
               records == {r \in Record : IF r \in op THEN r \in history[z][w] ELSE r \in copy.records}
               suspect == copy.suspect \/ \E r \in op : Touched(z, r, w, copy.serial)
               new == [copy EXCEPT !.records = records, !.suspect = suspect]
    <3>1. cache' = [cache EXCEPT ![z] = new]
      BY <2>5 DEF Entered
    <3>2. suspect \in BOOLEAN /\ records \in SUBSET Record /\ edited \in BOOLEAN
      BY <1>2, <2>1 DEF Copy, Task
    <3>3. /\ new \in Copy /\ new.serial = copy.serial
          /\ new.records = records /\ new.suspect = suspect
      <4> HIDE DEF suspect, records
      <4> QED BY <2>1, <3>2 DEF Copy
    <3>4. /\ Current(z) \in Serials(z) /\ w \in Serials(z) /\ w - 1 \in Serials(z)
          /\ w \in Int /\ w - 1 \in Int /\ copy.serial \in Int /\ Current(z) \in Int
          /\ copy.serial <= Current(z) /\ w <= Current(z)
      BY <1>2, <2>1 DEF Serials, Current, IInv, CoreTypeOK
    <3>5. \A r \in op : r \in Record /\ Touched(z, r, w - 1, w)
      BY <1>2 DEF Changed
    <3>6. ASSUME ~suspect, NEW r \in Record, r \notin (IF edited THEN t.left \ op ELSE {}),
                 ~Touched(z, r, copy.serial, Current(z))
          PROVE  r \in records <=> r \in history[z][Current(z)]
      <4>1. CASE r \in op
        <5>1. Touched(z, r, w - 1, w) /\ ~Touched(z, r, w, copy.serial)
          BY <3>5, <3>6, <4>1
        <5>2. CASE copy.serial < w
          <6>1. copy.serial <= w - 1
            BY <3>4, <5>2
          <6> QED BY <1>2, <3>4, <3>6, <5>1, <6>1, TouchedMonotone
        <5>3. CASE w <= copy.serial
          <6>1. ~Touched(z, r, w, Current(z))
            BY <1>2, <2>1, <3>4, <3>6, <5>1, <5>3, TouchedCompose DEF IInv, CoreTypeOK
          <6>2. r \in history[z][w] <=> r \in history[z][Current(z)]
            BY <1>2, <3>4, <6>1, SameValue DEF IInv, CoreTypeOK
          <6> QED BY <4>1, <6>2
        <5> QED BY <3>4, <5>2, <5>3
      <4>2. CASE r \notin op
        <5>1. r \notin Entering(z)
          BY <3>6, <4>2 DEF Entering
        <5>2. Agrees(z, copy, Entering(z))
          BY <1>2, <2>1, <3>6 DEF IInv, CopyOK
        <5>3. r \in copy.records <=> r \in history[z][Current(z)]
          BY <3>6, <5>1, <5>2 DEF Agrees
        <5> QED BY <4>2, <5>3
      <4> QED BY <4>1, <4>2
    <3>7. ~new.suspect => Agrees(z, new, IF edited THEN t.left \ op ELSE {})
      BY <3>3, <3>6 DEF Agrees
    <3>8. ASSUME edited, ~suspect, NEW r \in Record \ (t.left \ op),
                 Touched(z, r, w - 1, w), ~Touched(z, r, w, Current(z))
          PROVE  r \in records <=> r \in history[z][w]
      <4>1. CASE r \in op
        BY <4>1
      <4>2. CASE r \notin op
        <5>1. r \in Changed(z, w) /\ r \notin t.left
          BY <3>8, <4>2 DEF Changed
        <5>2. t.edited /\ ~copy.suspect
          BY <3>8, <5>1
        <5>3. EditOf(z, w, copy, t.left)
          BY <1>0, <5>2 DEF IInv, EditOK
        <5>4. r \in copy.records <=> r \in history[z][w]
          BY <3>8, <5>1, <5>3 DEF EditOf
        <5> QED BY <4>2, <5>4
      <4> QED BY <4>1, <4>2
    <3>9. edited /\ ~new.suspect => EditOf(z, w, new, t.left \ op)
      BY <3>3, <3>8 DEF EditOf
    <3>10. Continue(Loop, after(op, edited), {})
      BY <2>5
    <3> HIDE DEF new, edited, after, t, z, w, copy
    <3> QED BY <2>3, <3>1, <3>2, <3>3, <3>7, <3>9, <3>10
  <2> HIDE DEF after, t, z, w, copy
  <2> QED BY <1>1, <1>5, <2>4, <2>5
<1> QED BY <1>2, <1>4, <1>5 DEF Task

\* The loop goes on with an edit behind it.
LEMMA KeepEditStep ==
    ASSUME IInv, NEW t \in Task, Continue(Loop, t, {}), UNCHANGED <<history, cache, sent>>,
           task[Loop].edited, t.edited, t.held, t.zone = task[Loop].zone,
           t.write = task[Loop].write, t.then = task[Loop].then, t.left = task[Loop].left,
           t.at \in {"serial", "takeover", "next", "edit"}, t.at = "takeover" => t.upto \in Serials(t.zone)
    PROVE  IInv'
<1>0. Loop \in Actor
  BY DEF Actor
<1>1. /\ task' \in [Actor -> Task] /\ task'[Loop] = t
      /\ \A b \in Actor \ {Loop} : task'[b] = task[b]
  <2>1. \A b \in Actor : Loosened(task[b], {}) = task[b]
    BY DEF Loosened
  <2> QED BY <1>0, <2>1 DEF Continue, IInv, CoreTypeOK
<1>2. t.zone \in Zone /\ cache[t.zone] # None /\ t.write \in 2 .. Current(t.zone)
  BY <1>0 DEF IInv, EditHeld, TaskOK
<1>3. CoreTypeOK'
  BY <1>1 DEF IInv, CoreTypeOK, Current
<1>4. CopyOK'
  <2>1. \A y \in Zone : Entering(y)' = Entering(y)
    BY <1>1 DEF Entering
  <2> QED BY <2>1, SameCopies DEF IInv
<1>5. TaskOK'
  <2> SUFFICES ASSUME NEW b \in Actor PROVE
        /\ task'[b].at \notin {"idle", "sync"} => task'[b].zone \in Zone
        /\ task'[b].held => task'[b].zone \in Zone /\ cache[task'[b].zone] # None
        /\ task'[b].at = "apply" =>
              task'[b].from \in 1 .. task'[b].upto /\ task'[b].upto \in Serials(task'[b].zone)
        /\ task'[b].at \in {"install", "takeover"} => task'[b].upto \in Serials(task'[b].zone)
        /\ task'[b].edited => task'[b].at \in {"relook", "serial", "takeover", "next", "edit"}
    BY DEF TaskOK, Serials
  <2>1. CASE b = Loop
    <3>1. t.at \notin {"apply", "install"} /\ (t.at = "takeover" => t.upto \in Serials(t.zone))
      OBVIOUS
    <3> QED BY <1>1, <1>2, <2>1, <3>1
  <2>2. CASE b # Loop
    BY <1>1, <2>2 DEF IInv, TaskOK
  <2> QED BY <2>1, <2>2
<1>6. EditOK'
  <2> SUFFICES ASSUME NEW b \in Actor, task'[b].edited, ~cache[task'[b].zone].suspect
               PROVE  EditOf(task'[b].zone, task'[b].write, cache[task'[b].zone], task'[b].left)
    BY DEF EditOK, EditOf, Touched, Serials, Current
  <2>1. /\ task[b].edited /\ task'[b].zone = task[b].zone /\ task'[b].write = task[b].write
        /\ task'[b].left = task[b].left
    BY <1>1
  <2> QED BY <2>1 DEF IInv, EditOK
<1>7. EditHeld' /\ WriteOK'
  <2>1. ASSUME NEW b \in Actor
        PROVE  /\ task'[b].edited => b = Loop /\ task'[b].held /\ task'[b].write \in 2 .. Current(task'[b].zone)
               /\ WriteFits(task'[b])
    <3>1. CASE b = Loop
      <4>1. WriteFits(t)
        BY <1>0 DEF IInv, WriteOK, WriteFits
      <4> QED BY <1>1, <1>2, <3>1, <4>1
    <3>2. CASE b # Loop
      BY <1>1, <3>2 DEF IInv, EditHeld, WriteOK
    <3> QED BY <3>1, <3>2
  <2> QED BY <2>1 DEF EditHeld, WriteOK, WriteFits, Changed, Touched, Serials, Current
<1> QED BY <1>3, <1>4, <1>5, <1>6, <1>7 DEF IInv

\* get_zone: the cached object, or a first transfer.
LEMMA GetZoneStep ==
    ASSUME IInv, ~task[Loop].edited, NEW t \in Task, t.zone \in Zone, WriteFits(t), ~t.edited,
           NEW next \in {"edit", "serial"},
           GetZoneThen(t, next), UNCHANGED <<history, cache>>, sent' \subseteq sent
    PROVE  IInv'
<1>0. Loop \in Actor
  BY DEF Actor
<1>1. CASE cache[t.zone] # None
  <2>1. TaskFits([t EXCEPT !.at = next, !.held = TRUE])
    BY <1>1 DEF TaskFits, WriteFits, Task, Step
  <2> QED BY <1>0, <1>1, <2>1, TaskStepOK DEF GetZoneThen
<1>2. CASE cache[t.zone] = None
  <2>1. TaskFits([t EXCEPT !.at = "full", !.held = FALSE, !.then = next])
    BY <1>2 DEF TaskFits, WriteFits, Task, Step
  <2> QED BY <1>0, <1>2, <2>1, TaskStepOK DEF GetZoneThen
<1> QED BY <1>1, <1>2

LEMMA TakeOverStep == ASSUME IInv, TakeOver PROVE IInv'
<1> DEFINE t == task[Loop]
           z == t.zone
           w == t.write
           copy == cache[z]
           new == TakenOver(copy, t)
<1>0. Loop \in Actor /\ NoTask \in Task
  BY DEF Actor, NoTask, Task, Step
<1>1. t \in Task /\ z \in Zone /\ t.upto \in Serials(z)
  BY <1>0 DEF IInv, CoreTypeOK, TaskOK, TakeOver
<1> DEFINE u == Done(t)
<1>4. /\ u \in Task /\ WriteFits(u)
      /\ u = NoTask \/ (u.at = "next" /\ u.zone = z)
      /\ u.held => t.held /\ u.zone = z
      /\ u.edited => /\ t.edited /\ u.at = "next" /\ u.held = t.held /\ u.zone = z /\ u.write = w
                     /\ u.left = t.left
      /\ EnteringBy(u, z) = Entering(z)
  <2>1. WriteFits(t)
    BY <1>0 DEF IInv, WriteOK
  <2>2. CASE t.left = {}
    <3>1. u = NoTask
      BY <2>2 DEF Done
    <3>2. WriteFits(NoTask) /\ ~NoTask.edited /\ ~NoTask.held
      BY DEF WriteFits, NoTask
    <3>3. Entering(z) = {} /\ EnteringBy(NoTask, z) = {}
      BY <2>2 DEF Entering, EnteringBy, NoTask
    <3> HIDE DEF u, z, t
    <3>4. u \in Task /\ WriteFits(u) /\ EnteringBy(u, z) = Entering(z)
      BY <1>0, <3>1, <3>2, <3>3
    <3>5. ~u.edited /\ ~u.held
      BY <3>1, <3>2
    <3> QED BY <3>1, <3>4, <3>5
  <2>3. CASE t.left # {}
    <3>1. u = [t EXCEPT !.at = "next"]
      BY <2>3 DEF Done
    <3>2. /\ u \in Task /\ u.at = "next" /\ u.zone = z /\ u.held = t.held /\ u.edited = t.edited
          /\ u.write = w /\ u.left = t.left /\ u.then = t.then
      BY <1>1, <3>1 DEF Task, Step
    <3> HIDE DEF u
    <3>3. WriteFits(u)
      BY <2>1, <3>2 DEF WriteFits
    <3> QED BY <3>2, <3>3 DEF Entering, EnteringBy
  <2> QED BY <2>2, <2>3
<1>2. CASE ~t.held
  <2>1. ~t.edited
    BY <1>0, <1>2 DEF IInv, EditHeld
  <2>2. Continue(Loop, u, {}) /\ UNCHANGED <<history, cache, sent>>
    BY <1>2 DEF TakeOver
  <2> HIDE DEF u
  <2>3. TaskFits(u)
    BY <1>1, <1>2, <1>4, <2>1 DEF TaskFits, NoTask
  <2> QED BY <1>0, <2>1, <2>2, <2>3, TaskStepOK
<1>3. CASE t.held
  <2>1. copy # None /\ copy \in Copy /\ copy.serial \in Serials(z)
    BY <1>0, <1>1, <1>3 DEF IInv, CoreTypeOK, CopyOK, TaskOK
  <2> DEFINE foreign == \E i \in copy.serial + 1 .. t.upto : ~(t.edited /\ i = w)
  <2>2. /\ new \in Copy /\ new.serial = t.upto /\ new.records = copy.records
        /\ new.suspect = (copy.suspect \/ foreign)
    <3> HIDE DEF foreign
    <3>1. (copy.suspect \/ foreign) \in BOOLEAN
      BY <2>1 DEF Copy
    <3>2. new = [copy EXCEPT !.serial = t.upto, !.suspect = (copy.suspect \/ foreign)]
      BY DEF TakenOver, foreign
    <3> HIDE DEF new
    <3> QED BY <1>1, <2>1, <3>1, <3>2 DEF Copy, Task
  <2>3. /\ Current(z) \in Serials(z) /\ t.upto \in Int /\ copy.serial \in Int /\ Current(z) \in Int
        /\ t.upto <= Current(z) /\ copy.serial <= Current(z)
    BY <1>1, <2>1 DEF IInv, CoreTypeOK, Serials, Current
  <2>4. ASSUME ~copy.suspect, ~foreign, NEW r \in Record \ Entering(z), ~Touched(z, r, t.upto, Current(z))
        PROVE  r \in copy.records <=> r \in history[z][Current(z)]
    <3>1. ~Touched(z, r, copy.serial, Current(z)) => (r \in copy.records <=> r \in history[z][Current(z)])
      BY <1>1, <2>1, <2>4 DEF IInv, CopyOK, Agrees
    <3>2. CASE t.upto <= copy.serial
      <4>1. ~Touched(z, r, copy.serial, Current(z))
        BY <1>1, <2>3, <2>4, <3>2, TouchedMonotone
      <4> QED BY <3>1, <4>1
    <3>3. CASE copy.serial < t.upto
      <4>1. t.edited /\ copy.serial + 1 = w /\ t.upto = w
        BY <2>3, <2>4, <3>3
      <4>2. CASE Touched(z, r, w - 1, w)
        <5>1. r \in copy.records <=> r \in history[z][w]
          <6>1. r \notin t.left
            BY <2>4, <4>1 DEF Entering
          <6>2. ~Touched(z, r, w, Current(z))
            BY <2>4, <4>1
          <6>3. EditOf(z, w, copy, t.left)
            BY <1>0, <2>4, <4>1 DEF IInv, EditOK
          <6> QED BY <2>4, <4>2, <6>1, <6>2, <6>3 DEF EditOf
        <5>2. r \in history[z][w] <=> r \in history[z][Current(z)]
          BY <1>1, <2>3, <2>4, <4>1, SameValue DEF IInv, CoreTypeOK
        <5> QED BY <5>1, <5>2
      <4>3. CASE ~Touched(z, r, w - 1, w)
        <5>1. w - 1 = copy.serial
          BY <2>3, <4>1
        <5>2. ~Touched(z, r, copy.serial, Current(z))
          <6>1. r \in Record /\ w \in Serials(z) /\ copy.serial <= w /\ w <= Current(z)
            BY <1>1, <2>3, <4>1
          <6>2. ~Touched(z, r, copy.serial, w) /\ ~Touched(z, r, w, Current(z))
            BY <2>4, <4>1, <4>3, <5>1
          <6> QED BY <1>1, <2>1, <2>3, <6>1, <6>2, TouchedCompose DEF IInv, CoreTypeOK
        <5> QED BY <3>1, <5>2
      <4> QED BY <4>2, <4>3
    <3> QED BY <2>3, <3>2, <3>3
  <2>5. ~new.suspect => Agrees(z, new, EnteringBy(u, z))
    BY <1>4, <2>2, <2>4 DEF Agrees
  <2>6. cache' = [cache EXCEPT ![z] = new] /\ UNCHANGED <<history, sent>>
    BY <1>3 DEF TakeOver
  <2>7. /\ task' \in [Actor -> Task] /\ task'[Loop] = u
        /\ \A b \in Actor \ {Loop} : task'[b] = task[b]
    <3>1. \A b \in Actor : Loosened(task[b], {}) = task[b]
      BY DEF Loosened
    <3>2. Continue(Loop, u, {})
      BY DEF TakeOver
    <3> HIDE DEF u
    <3> QED BY <1>0, <1>4, <3>1, <3>2 DEF Continue, IInv, CoreTypeOK
  <2>8. \A b \in Actor \ {Loop} : ~task[b].edited
    BY DEF IInv, EditHeld
  <2>9. /\ \/ ~task'[Loop].edited
           \/ /\ task'[Loop].at \in {"relook", "next"} /\ task'[Loop].held /\ task'[Loop].zone = z
              /\ task'[Loop].write \in 2 .. Current(z)
              /\ ~new.suspect => EditOf(z, task'[Loop].write, new, task'[Loop].left)
        /\ task'[Loop].at \in {"idle", "sync", "edit", "serial", "relook", "next"}
        /\ task'[Loop].at \notin {"idle", "sync"} => task'[Loop].zone \in Zone
        /\ task'[Loop].held => task'[Loop].zone = z
        /\ WriteFits(task'[Loop])
        /\ task[Loop].edited => task[Loop].zone = z
        /\ ~new.suspect => Agrees(z, new, EnteringBy(task'[Loop], z))
    <3>1. NoTask.at = "idle"
      BY DEF NoTask
    <3>2. ASSUME u.edited PROVE w \in 2 .. Current(z)
      BY <1>0, <1>4, <3>2 DEF IInv, EditHeld
    <3>3. ASSUME u.edited, ~new.suspect PROVE EditOf(z, w, new, t.left)
      <4>1. EditOf(z, w, copy, t.left)
        BY <1>0, <1>4, <2>2, <3>3 DEF IInv, EditOK
      <4> QED BY <2>2, <4>1 DEF EditOf
    <3> HIDE DEF u, new
    <3> QED BY <1>1, <1>3, <1>4, <2>5, <2>7, <3>1, <3>2, <3>3
  <2>10. new.serial \in Serials(z) /\ new \in Copy /\ z \in Zone /\ cache[z] # None
    BY <1>1, <2>1, <2>2
  <2> HIDE DEF new, z, t, u
  <2> QED BY <1>0, <2>6, <2>7, <2>8, <2>9, <2>10, ChangeStep
<1> QED BY <1>1, <1>2, <1>3 DEF Task

LEMMA LoopEditSteps == ASSUME IInv, Relook \/ AskSerial \/ NextOperation PROVE IInv'
<1> DEFINE t == task[Loop]
<1>0. Loop \in Actor /\ NoTask \in Task
  BY DEF Actor, NoTask, Task, Step
<1>1. t \in Task /\ t.zone \in Zone /\ WriteFits(t)
  BY <1>0 DEF IInv, CoreTypeOK, TaskOK, WriteOK, Relook, AskSerial, NextOperation
<1>2. t.edited => t.held /\ cache[t.zone] # None
  BY <1>0 DEF IInv, EditHeld, TaskOK
<1>3. ASSUME NEW next \in {"edit", "serial"}, GetZoneThen(t, next), UNCHANGED <<history, cache, sent>>
      PROVE  IInv'
  <2>1. CASE ~t.edited
    BY <1>1, <1>3, <2>1, GetZoneStep
  <2>2. CASE t.edited
    <3> DEFINE u == [t EXCEPT !.at = next, !.held = TRUE]
    <3>1. Continue(Loop, u, {})
      BY <1>2, <1>3, <2>2 DEF GetZoneThen
    <3>2. /\ u \in Task /\ u.edited /\ u.held /\ u.zone = t.zone /\ u.write = t.write
          /\ u.then = t.then /\ u.left = t.left /\ u.at = next
      BY <1>1, <2>2 DEF Task, Step
    <3> HIDE DEF u
    <3> QED BY <1>3, <2>2, <3>1, <3>2, KeepEditStep
  <2> QED BY <2>1, <2>2
<1>4. CASE Relook
  BY <1>3, <1>4 DEF Relook
<1>5. CASE NextOperation
  BY <1>3, <1>5 DEF NextOperation
<1>6. CASE AskSerial
  <2> DEFINE u == [t EXCEPT !.at = "takeover", !.upto = Current(t.zone)]
             v == [t EXCEPT !.at = "next"]
  <2>1. Current(t.zone) \in Serials(t.zone) /\ Current(t.zone) \in Nat
    BY <1>1 DEF IInv, CoreTypeOK, Serials, Current
  <2>2. /\ u \in Task /\ u.edited = t.edited /\ u.held = t.held /\ u.zone = t.zone /\ u.write = t.write
        /\ u.then = t.then /\ u.left = t.left /\ u.at = "takeover" /\ u.upto \in Serials(t.zone)
    BY <1>1, <2>1 DEF Task, Step
  <2>3. /\ v \in Task /\ v.edited = t.edited /\ v.held = t.held /\ v.zone = t.zone /\ v.write = t.write
        /\ v.then = t.then /\ v.left = t.left /\ v.at = "next"
    BY <1>1 DEF Task, Step
  <2>4. UNCHANGED <<history, cache, sent>>
    BY <1>6 DEF AskSerial
  <2>5. \/ t.left = {} /\ Continue(Loop, NoTask, {})
        \/ t.left # {} /\ Continue(Loop, v, {})
        \/ t.held /\ Continue(Loop, u, {})
    BY <1>6 DEF AskSerial, Done
  <2> HIDE DEF u, v
  <2>6. CASE t.left = {} /\ Continue(Loop, NoTask, {})
    <3>1. TaskFits(NoTask)
      BY <1>0 DEF TaskFits, WriteFits, NoTask
    <3> QED BY <1>0, <2>4, <2>6, <3>1, TaskStepOK
  <2>7. CASE (Continue(Loop, v, {}) \/ (t.held /\ Continue(Loop, u, {}))) /\ t.edited
    <3>1. CASE Continue(Loop, v, {})
      BY <1>2, <2>3, <2>4, <2>7, <3>1, KeepEditStep
    <3>2. CASE Continue(Loop, u, {})
      BY <1>2, <2>2, <2>4, <2>7, <3>2, KeepEditStep
    <3> QED BY <2>7, <3>1, <3>2
  <2>8. CASE (Continue(Loop, v, {}) \/ (t.held /\ Continue(Loop, u, {}))) /\ ~t.edited
    <3>0. t.held => cache[t.zone] # None
      BY <1>0 DEF IInv, TaskOK
    <3>1. CASE Continue(Loop, v, {})
      <4>1. WriteFits(v)
        BY <1>1, <2>3 DEF WriteFits
      <4>2. TaskFits(v)
        BY <1>1, <2>3, <2>8, <3>0, <4>1 DEF TaskFits
      <4> QED BY <1>0, <2>4, <2>8, <3>1, <4>2, TaskStepOK
    <3>2. CASE Continue(Loop, u, {})
      <4>1. WriteFits(u)
        BY <1>1, <2>2 DEF WriteFits
      <4>2. TaskFits(u)
        BY <1>1, <2>2, <2>8, <3>0, <4>1 DEF TaskFits
      <4> QED BY <1>0, <2>4, <2>8, <3>2, <4>2, TaskStepOK
    <3> QED BY <2>8, <3>1, <3>2
  <2>9. CASE t.edited
    BY <2>5, <2>6, <2>7, <2>9
  <2>10. CASE ~t.edited
    BY <2>5, <2>6, <2>8, <2>10
  <2> QED BY <2>9, <2>10
<1> QED BY <1>4, <1>5, <1>6

LEMMA StutterStep == ASSUME IInv, UNCHANGED <<history, sent, cache, task>> PROVE IInv'
<1>1. CoreTypeOK' /\ EditHeld' /\ WriteOK'
  BY DEF IInv, CoreTypeOK, EditHeld, WriteOK, WriteFits, Changed, Touched, Serials, Current
<1>2. CopyOK'
  <2>1. \A y \in Zone : Entering(y)' = Entering(y)
    BY DEF Entering
  <2> QED BY <2>1, SameCopies DEF IInv
<1>3. TaskOK'
  BY DEF IInv, TaskOK, Serials
<1>4. EditOK'
  <2>1. EditOK
    BY DEF IInv
  <2> QED BY <2>1 DEF EditOK, EditOf, Touched, Serials, Current
<1> QED BY <1>1, <1>2, <1>3, <1>4 DEF IInv

LEMMA LoopSteps ==
    ASSUME IInv, NEW z \in Zone,
           \/ BeginRefresh(z) \/ Notify(z) \/ BeginThread(z) \/ Read(z) \/ Invalidate(z) \/ SyncZone(z)
    PROVE  IInv'
<1>0. /\ Loop \in Actor /\ z \in Actor
      /\ \A b \in Actor : task[b] \in Task
      /\ NoTask \in Task
      /\ \A b \in Actor : task[b].at \in {"idle", "begin", "sync"} => ~task[b].edited
  <2>1. \A b \in Actor : task[b].at \in {"idle", "begin", "sync"} => ~task[b].edited
    BY DEF IInv, TaskOK
  <2> QED BY <2>1 DEF Actor, NoTask, Task, Step, IInv, CoreTypeOK
<1>1. CASE BeginRefresh(z)
  <2> DEFINE t == [NoTask EXCEPT !.zone = z]
  <2>1. t \in Task /\ t.zone = z /\ ~t.edited /\ WriteFits(t)
    BY DEF NoTask, Task, Step, WriteFits
  <2> HIDE DEF t
  <2> QED BY <1>0, <1>1, <2>1, RefreshFits DEF BeginRefresh, t
<1>2. CASE Notify(z)
  <2>1. TaskFits([NoTask EXCEPT !.at = "begin", !.zone = z])
    BY DEF TaskFits, WriteFits, NoTask, Task, Step
  <2> QED BY <1>0, <1>2, <2>1, TaskStepOK DEF Notify
<1>3. CASE BeginThread(z)
  <2>1. task[z].zone \in Zone /\ ~task[z].edited /\ WriteFits(task[z])
    BY <1>0, <1>3 DEF BeginThread, IInv, TaskOK, WriteOK
  <2> QED BY <1>0, <1>3, <2>1, RefreshFits DEF BeginThread
<1>4. CASE Read(z)
  <2>1. UNCHANGED <<history, sent, cache, task>>
    BY <1>4 DEF Read
  <2> QED BY <2>1, StutterStep
<1>5. CASE Invalidate(z)
  <2>1. /\ cache' \in [Zone -> {None} \cup Copy] /\ \A y \in Zone \ {z} : cache'[y] = cache[y]
        /\ \A y \in {z} : cache'[y] = None
    BY <1>5 DEF Invalidate, Dropped, IInv, CoreTypeOK
  <2>2. /\ NoTask.at = "idle" /\ ~NoTask.edited /\ ~NoTask.held /\ WriteFits(NoTask)
    BY DEF NoTask, WriteFits
  <2>3. /\ Continue(Loop, NoTask, {z}) /\ UNCHANGED <<history, sent>> /\ {z} \in SUBSET Zone
        /\ ~task[Loop].edited
    BY <1>0, <1>5 DEF Invalidate
  <2> QED BY <1>0, <2>1, <2>2, <2>3, DropStep
<1>6. CASE SyncZone(z)
  <2> DEFINE t == [task[Loop] EXCEPT !.zone = z, !.todo = task[Loop].todo \ {z},
                                     !.held = FALSE, !.then = "sync"]
  <2>1. /\ t \in Task /\ t.at = "sync" /\ ~t.held /\ t.zone = z /\ t.then = "sync" /\ ~t.edited
        /\ t.left = {} /\ ~task[Loop].edited
    BY <1>0, <1>6 DEF SyncZone, Task, Step, IInv, TaskOK, WriteOK, WriteFits
  <2> HIDE DEF t
  <2>2. TaskFits(t) /\ TaskFits([t EXCEPT !.at = "full"])
    BY <2>1 DEF TaskFits, WriteFits, Task, Step
  <2>3. Continue(Loop, t, {}) \/ Continue(Loop, [t EXCEPT !.at = "full"], {})
    BY <1>6 DEF SyncZone, t
  <2> QED BY <1>0, <1>6, <2>1, <2>2, <2>3, TaskStepOK DEF SyncZone
<1> QED BY <1>1, <1>2, <1>3, <1>4, <1>5, <1>6

LEMMA NextIInv == IInv /\ [Next]_vars => IInv'
<1> SUFFICES ASSUME IInv, [Next]_vars PROVE IInv'
  OBVIOUS
<1>0. /\ Loop \in Actor /\ NoTask \in Task /\ task[Loop] \in Task
      /\ TaskFits(NoTask) /\ (task[Loop].at \in {"idle", "sync"} => ~task[Loop].edited)
  BY DEF Actor, NoTask, Task, Step, IInv, CoreTypeOK, TaskOK, TaskFits, WriteFits
<1>1. CASE UNCHANGED vars
  BY <1>1, StutterStep DEF vars
<1>2. ASSUME NEW z \in Zone, ZoneStep(z) PROVE IInv'
  <2>1. ASSUME NEW rs \in SUBSET Record, ServerChanges(z, rs) \/ Written(z, rs) PROVE IInv'
    <3> DEFINE last == history[z][Current(z)]
               records == (last \ rs) \cup (rs \ last)
    <3>1. last \in SUBSET Record
      BY DEF IInv, CoreTypeOK, Current
    <3>2. /\ history' = [history EXCEPT ![z] = Append(history[z], records)]
          /\ sent' \subseteq sent \cup {<<z, Current(z) + 1>>} /\ UNCHANGED <<cache, task>>
      BY <2>1 DEF ServerChanges, Written, Moves
    <3>3. records \in SUBSET Record
      BY <3>1
    <3> QED BY <3>2, <3>3, HistoryStep
  <2> QED BY <1>2, <2>1, LoopSteps DEF ZoneStep
<1>3. ASSUME NEW a \in Actor, RefreshStep(a) PROVE IInv'
  BY <1>3, RefreshTaskSteps, ApplyStep, InstallStep DEF RefreshStep
<1>4. ASSUME NEW w \in sent, BeginEdit(w) PROVE IInv'
  <2> DEFINE t == [NoTask EXCEPT !.zone = w[1], !.write = w[2], !.left = Changed(w[1], w[2])]
  <2>1. w[1] \in Zone /\ w[2] \in Nat /\ w[2] \in 2 .. Current(w[1])
    BY DEF IInv, CoreTypeOK
  <2>4. Changed(w[1], w[2]) \in SUBSET Record
    BY DEF Changed
  <2>2. t \in Task /\ t.zone = w[1] /\ t.write = w[2] /\ ~t.edited /\ WriteFits(t)
    BY <2>1, <2>4 DEF NoTask, Task, Step, WriteFits
  <2>3. /\ GetZoneThen(t, "edit") /\ UNCHANGED <<history, cache>> /\ sent' \subseteq sent
        /\ ~task[Loop].edited
    BY <1>0, <1>4 DEF BeginEdit
  <2> HIDE DEF t
  <2> QED BY <2>1, <2>2, <2>3, GetZoneStep
<1>5. CASE EditStep
  BY <1>5, EditStepOK, LoopEditSteps, TakeOverStep DEF EditStep
<1>6. ASSUME NEW names \in Listings, NEW removeStale \in BOOLEAN, BeginSync(names, removeStale)
      PROVE  IInv'
  <2> DEFINE stale == IF removeStale THEN catalog \ names ELSE {}
             zs == stale \cap Zone
             t == [NoTask EXCEPT !.at = "sync", !.todo = names]
  <2>1. names \subseteq Zone
    BY CacheAssumption
  <2>2. t \in Task /\ t.at = "sync" /\ ~t.edited /\ ~t.held /\ WriteFits(t)
    BY <2>1 DEF NoTask, Task, Step, WriteFits
  <2>3. /\ cache' = Dropped(stale) /\ Continue(Loop, t, stale) /\ UNCHANGED <<history, sent>>
        /\ ~task[Loop].edited
    BY <1>0, <1>6 DEF BeginSync
  <2>4. /\ cache' \in [Zone -> {None} \cup Copy]
        /\ \A y \in Zone \ zs : cache'[y] = cache[y]
        /\ \A y \in zs : cache'[y] = None
    BY <2>3 DEF Dropped, IInv, CoreTypeOK
  <2>5. Continue(Loop, t, zs)
    BY <2>3, LoosenedInZone DEF Continue
  <2> HIDE DEF t, zs
  <2>6. zs \in SUBSET Zone
    BY DEF zs
  <2> QED BY <1>0, <2>2, <2>3, <2>4, <2>5, <2>6, DropStep
<1>7. CASE EndSync
  BY <1>0, <1>7, TaskStepOK DEF EndSync
<1>8. CASE Restart
  <2>1. /\ history' = history /\ sent' = {} /\ cache' = [z \in Zone |-> None]
        /\ task' = [a \in Actor |-> NoTask]
    BY <1>8 DEF Restart
  <2>2. CoreTypeOK'
    BY <1>0, <2>1 DEF IInv, CoreTypeOK, Current
  <2>3. CopyOK' /\ TaskOK' /\ EditOK' /\ EditHeld' /\ WriteOK'
    BY <2>1 DEF CopyOK, TaskOK, EditOK, EditHeld, WriteOK, WriteFits, NoTask
  <2> QED BY <2>2, <2>3 DEF IInv
<1> QED BY <1>1, <1>2, <1>3, <1>4, <1>5, <1>6, <1>7, <1>8 DEF Next

\* Whatever the loop, the NOTIFY threads and the server do, in any order: every cached
\* zone that none of the four named accidents befell can be brought up to date by the
\* differences since its serial, but for the operations of a batch that are still to be
\* entered in it (apply_ixfr_changes, apply_cache_updates, refresh_zone_serial).
THEOREM RecoverableAlways == Spec => []Recoverable
<1>1. IInv => Recoverable
  BY DEF IInv, CopyOK, Recoverable
<1> QED BY <1>1, InitIInv, NextIInv, PTL DEF Spec
--------------------------------------------------------------------------------
(* The LRU order and the sizes *)

\* A set of numbers has a least one.
LEMMA LeastNumber ==
    ASSUME NEW T \in SUBSET Nat, T # {}
    PROVE  \E m \in T : \A x \in T : m <= x
<1>1. PICK m \in T : \A x \in T : ~ (<<x, m>> \in OpToRel(<, Nat))
  BY NatLessThanWellFounded, WFMin
<1>2. \A x \in T : ~ (x < m)
  BY <1>1 DEF OpToRel
<1> QED
  BY <1>2

\* What holds at 0 and from each number to the next, up to n, holds at n.
LEMMA Induct ==
    ASSUME NEW n \in Nat, NEW Good \in SUBSET Nat, 0 \in Good,
           \A k \in 1 .. n : k - 1 \in Good => k \in Good
    PROVE  0 .. n \subseteq Good
<1> SUFFICES ASSUME (0 .. n) \ Good # {} PROVE FALSE
  OBVIOUS
<1>1. PICK m \in (0 .. n) \ Good : \A k \in (0 .. n) \ Good : m <= k
  <2> DEFINE T == (0 .. n) \ Good
  <2>1. T \in SUBSET Nat /\ T # {}
    OBVIOUS
  <2> HIDE DEF T
  <2>2. \E m \in T : \A k \in T : m <= k
    BY <2>1, LeastNumber
  <2> QED
    BY <2>2 DEF T
<1>2. m \in 1 .. n /\ m - 1 \in 0 .. n /\ ~ (m <= m - 1)
  BY <1>1
<1>3. m - 1 \in Good
  BY <1>1, <1>2
<1> QED
  BY <1>1, <1>2, <1>3

\* A recursion over the first numbers, from a first value and a function for each step.
StepsIn(A, n, step) == \A k \in 1 .. n : \A a \in A : step[k][a] \in A
Unrolls(A, n, first, step, f) ==
    /\ f \in [0 .. n -> A] /\ f[0] = first
    /\ \A k \in 1 .. n : f[k] = step[k][f[k - 1]]

\* It has a solution.
LEMMA Recursion ==
    ASSUME NEW A, NEW n \in Nat, NEW first \in A, NEW step, StepsIn(A, n, step)
    PROVE  \E f : Unrolls(A, n, first, step, f)
<1> DEFINE Solves(m, f) == f[0] = first /\ \A k \in 1 .. m : f[k] = step[k][f[k - 1]]
           Good == {m \in Nat : m <= n => \E f \in [0 .. m -> A] : Solves(m, f)}
<1>1. 0 \in Good
  <2> DEFINE f == [k \in 0 .. 0 |-> first]
  <2>1. f \in [0 .. 0 -> A] /\ Solves(0, f)
    OBVIOUS
  <2> HIDE DEF f, Solves
  <2> QED
    BY <2>1
<1>2. ASSUME NEW m \in 1 .. n, m - 1 \in Good PROVE m \in Good
  <2>1. PICK f \in [0 .. m - 1 -> A] : Solves(m - 1, f)
    BY <1>2
  <2>0. \A k \in 1 .. n : \A a \in A : step[k][a] \in A
    BY DEF StepsIn
  <2> DEFINE g == [k \in 0 .. m |-> IF k = m THEN step[m][f[m - 1]] ELSE f[k]]
  <2>2. f[m - 1] \in A /\ step[m][f[m - 1]] \in A
    <3>1. m - 1 \in 0 .. m - 1
      OBVIOUS
    <3>2. f[m - 1] \in A
      BY <3>1
    <3> QED
      BY <2>0, <3>2
  <2>3. g \in [0 .. m -> A]
    <3>1. \A k \in 0 .. m : k # m => k \in 0 .. m - 1
      OBVIOUS
    <3> QED
      BY <2>2, <3>1
  <2>4. m - 1 \in 0 .. m /\ 0 \in 0 .. m /\ m \in 0 .. m /\ m - 1 # m /\ m # 0
    OBVIOUS
  <2>5. g[0] = first
    <3>1. g[0] = f[0]
      BY <2>4
    <3> QED
      BY <2>1, <3>1
  <2>6. ASSUME NEW k \in 1 .. m
        PROVE  g[k] = step[k][g[k - 1]]
    <3>1. CASE k = m
      <4>1. g[k] = step[m][f[m - 1]] /\ g[m - 1] = f[m - 1]
        BY <2>4, <3>1
      <4> HIDE DEF g
      <4> QED
        BY <3>1, <4>1
    <3>2. CASE k # m
      <4>1. k \in 1 .. m - 1 /\ k \in 0 .. m /\ k - 1 \in 0 .. m /\ k - 1 # m
        BY <3>2
      <4>2. g[k] = f[k] /\ g[k - 1] = f[k - 1]
        BY <3>2, <4>1
      <4> HIDE DEF g
      <4> QED
        BY <2>1, <4>1, <4>2
    <3> QED
      BY <3>1, <3>2
  <2>7. Solves(m, g)
    <3> HIDE DEF g
    <3> QED
      BY <2>5, <2>6
  <2> HIDE DEF g, Solves
  <2> QED
    BY <2>3, <2>7
<1>3. n \in Good
  <2>1. Good \in SUBSET Nat
    OBVIOUS
  <2> HIDE DEF Good
  <2>2. \A k \in 1 .. n : k - 1 \in Good => k \in Good
    BY <1>2
  <2>3. 0 .. n \subseteq Good
    BY <1>1, <2>1, <2>2, Induct
  <2> QED
    BY <2>3
<1> QED
  BY <1>3 DEF Unrolls

Listed(s) == {s[i] : i \in DOMAIN s}
Once(s) == \A i, j \in DOMAIN s : s[i] = s[j] => i = j

\* The zones in the LRU order are the cached ones, each once.
LruOK ==
    /\ lru \in Seq(Zone) /\ Once(lru)
    /\ \A z \in Zone : cache[z] # None <=> z \in Listed(lru)
    /\ catalog \subseteq Zone /\ total \in Int

\* A zone that is not in the order comes last in it.
LEMMA AppendIs ==
    ASSUME NEW s \in Seq(Zone), Once(s), NEW z \in Zone, z \notin Listed(s)
    PROVE  /\ Append(s, z) \in Seq(Zone) /\ Once(Append(s, z))
           /\ Listed(Append(s, z)) = Listed(s) \cup {z}
<1> DEFINE t == Append(s, z)
<1>1. /\ t \in Seq(Zone) /\ DOMAIN s = 1 .. Len(s) /\ DOMAIN t = 1 .. Len(s) + 1
      /\ Len(s) \in Nat /\ t[Len(s) + 1] = z
      /\ \A i \in 1 .. Len(s) : t[i] = s[i]
  BY AppendProperties, LenProperties
<1> HIDE DEF t
<1>2. Listed(t) = Listed(s) \cup {z}
  <2>1. \A i \in 1 .. Len(s) + 1 : i \in 1 .. Len(s) \/ i = Len(s) + 1
    BY <1>1
  <2>2. Len(s) + 1 \in 1 .. Len(s) + 1 /\ \A i \in 1 .. Len(s) : i \in 1 .. Len(s) + 1
    BY <1>1
  <2> QED
    BY <1>1, <2>1, <2>2 DEF Listed
<1>3. Once(t)
  <2> SUFFICES ASSUME NEW i \in 1 .. Len(s) + 1, NEW j \in 1 .. Len(s) + 1, t[i] = t[j], i # j
               PROVE  FALSE
    BY <1>1 DEF Once
  <2>1. CASE i \in 1 .. Len(s) /\ j \in 1 .. Len(s)
    BY <1>1, <2>1 DEF Once
  <2>2. CASE i = Len(s) + 1 /\ j \in 1 .. Len(s)
    BY <1>1, <2>2 DEF Listed
  <2>3. CASE i \in 1 .. Len(s) /\ j = Len(s) + 1
    BY <1>1, <2>3 DEF Listed
  <2>4. /\ i \in 1 .. Len(s) \/ i = Len(s) + 1
        /\ j \in 1 .. Len(s) \/ j = Len(s) + 1
    BY <1>1
  <2> QED
    BY <2>1, <2>2, <2>3, <2>4
<1> QED
  BY <1>1, <1>2, <1>3 DEF t

\* Without some zones, the order has the others, each once.
LEMMA RemainingIs ==
    ASSUME lru \in Seq(Zone), Once(lru), NEW zs
    PROVE  /\ Remaining(zs) \in Seq(Zone) /\ Once(Remaining(zs))
           /\ Listed(Remaining(zs)) = Listed(lru) \ zs
<1> DEFINE n == Len(lru)
           First(k) == {lru[i] : i \in 1 .. k}
           Def(f) == f = [k \in 0 .. n |-> IF k = 0 THEN <<>>
                          ELSE IF lru[k] \in zs THEN f[k - 1] ELSE Append(f[k - 1], lru[k])]
           kept == CHOOSE f : Def(f)
<1>1. n \in Nat /\ DOMAIN lru = 1 .. n /\ \A i \in 1 .. n : lru[i] \in Zone
  BY LenProperties, ElementOfSeq
<1>2. Remaining(zs) = kept[n]
  BY DEF Remaining
<1>3. Def(kept)
  <2> DEFINE step == [k \in 1 .. n |-> [s \in Seq(Zone) |->
                         IF lru[k] \in zs THEN s ELSE Append(s, lru[k])]]
  <2>1. step \in [1 .. n -> [Seq(Zone) -> Seq(Zone)]]
    BY <1>1
  <2>2. <<>> \in Seq(Zone)
    OBVIOUS
  <2>3. PICK f \in [0 .. n -> Seq(Zone)] :
           f[0] = <<>> /\ \A k \in 1 .. n : f[k] = step[k][f[k - 1]]
    <3> HIDE DEF step, n
    <3>1. StepsIn(Seq(Zone), n, step)
      BY <2>1 DEF StepsIn
    <3>2. \E f : Unrolls(Seq(Zone), n, <<>>, step, f)
      BY <1>1, <2>2, <3>1, Recursion
    <3> QED
      BY <3>2 DEF Unrolls
  <2>4. \A k \in 0 .. n : k # 0 => k - 1 \in 0 .. n /\ k \in 1 .. n
    BY <1>1
  <2>5. \A k \in 0 .. n : f[k] = IF k = 0 THEN <<>>
                          ELSE IF lru[k] \in zs THEN f[k - 1] ELSE Append(f[k - 1], lru[k])
    <3> TAKE k \in 0 .. n
    <3> HIDE DEF n
    <3>1. f[k] = IF k = 0 THEN <<>> ELSE step[k][f[k - 1]]
      BY <2>3, <2>4
    <3>2. k # 0 => f[k - 1] \in Seq(Zone)
      BY <2>4
    <3>3. k # 0 => step[k][f[k - 1]] = IF lru[k] \in zs THEN f[k - 1] ELSE Append(f[k - 1], lru[k])
      BY <2>4, <3>2
    <3> HIDE DEF step
    <3> QED
      BY <3>1, <3>3
  <2>6. Def(f)
    <3> HIDE DEF n, step
    <3> QED
      BY <2>5
  <2> HIDE DEF Def
  <2> QED
    BY <2>6
<1> HIDE DEF kept
<1>4. /\ kept[0] = <<>>
      /\ \A k \in 1 .. n : kept[k] = IF lru[k] \in zs THEN kept[k - 1] ELSE Append(kept[k - 1], lru[k])
  <2> HIDE DEF n
  <2>1. 0 \in 0 .. n /\ \A k \in 1 .. n : k \in 0 .. n /\ k # 0
    BY <1>1
  <2> QED
    BY <1>3, <2>1
<1> DEFINE Fits(k) == /\ kept[k] \in Seq(Zone) /\ Once(kept[k]) /\ Listed(kept[k]) = First(k) \ zs
           Good == {k \in Nat : Fits(k)}
<1>5. 0 \in Good
  <2>1. First(0) = {} /\ DOMAIN <<>> = {} /\ <<>> \in Seq(Zone)
    OBVIOUS
  <2>2. Once(<<>>) /\ Listed(<<>>) = {}
    BY <2>1 DEF Once, Listed
  <2> HIDE DEF n, First
  <2>3. Fits(0)
    BY <1>4, <2>1, <2>2
  <2> HIDE DEF Fits
  <2> QED
    BY <2>3
<1>6. ASSUME NEW k \in 1 .. n, k - 1 \in Good PROVE k \in Good
  <2>1. k \in Nat /\ Fits(k - 1)
    BY <1>6
  <2>2. First(k) = First(k - 1) \cup {lru[k]} /\ lru[k] \in Zone
    <3>1. 1 .. k = (1 .. k - 1) \cup {k}
      BY <1>6
    <3> QED
      BY <1>1, <3>1
  <2>3. CASE lru[k] \in zs
    <3>1. kept[k] = kept[k - 1]
      BY <1>4, <2>3
    <3> HIDE DEF First, n
    <3> QED
      BY <2>1, <2>2, <2>3, <3>1
  <2>4. CASE lru[k] \notin zs
    <3> DEFINE s == kept[k - 1]
    <3>1. kept[k] = Append(s, lru[k]) /\ s \in Seq(Zone) /\ Once(s) /\ Listed(s) = First(k - 1) \ zs
      BY <1>4, <2>1, <2>4
    <3>2. lru[k] \notin Listed(s)
      <4>1. \A i \in 1 .. k - 1 : i \in DOMAIN lru /\ k \in DOMAIN lru /\ i # k
        BY <1>1, <1>6
      <4>2. lru[k] \notin First(k - 1)
        BY <4>1 DEF Once
      <4> HIDE DEF First
      <4> QED
        BY <3>1, <4>2
    <3> HIDE DEF First, n, s
    <3>3. kept[k] \in Seq(Zone) /\ Once(kept[k]) /\ Listed(kept[k]) = Listed(s) \cup {lru[k]}
      BY <2>2, <3>1, <3>2, AppendIs
    <3>4. Listed(kept[k]) = First(k) \ zs
      BY <2>2, <2>4, <3>1, <3>3
    <3> QED
      BY <2>1, <3>3, <3>4
  <2> QED
    BY <2>3, <2>4
<1> HIDE DEF Fits
<1>7. n \in Good
  <2>1. Good \in SUBSET Nat
    OBVIOUS
  <2> HIDE DEF Good, n
  <2>2. 0 .. n \subseteq Good
    BY <1>1, <1>5, <1>6, <2>1, Induct
  <2> QED
    BY <1>1, <2>2
<1>8. First(n) = Listed(lru)
  BY <1>1 DEF Listed
<1> HIDE DEF n, First
<1> QED
  BY <1>2, <1>7, <1>8 DEF Fits

\* What the sizes count: for each zone one unit for the object and one for every record.
Mark == CHOOSE m : m \notin Record
UnitsOf(c, z) == {z} \X (c[z].records \cup {Mark})
Units(c, zs) == UNION {UnitsOf(c, z) : z \in {y \in zs : c[y] # None}}

\* A cached object's units are as many as estimate_size_bytes says.
LEMMA UnitsOfSize ==
    ASSUME NEW c \in [Zone -> {None} \cup Copy], NEW z \in Zone, c[z] # None
    PROVE  /\ IsFiniteSet(UnitsOf(c, z)) /\ Cardinality(UnitsOf(c, z)) = Size(c[z].records)
           /\ Size(c[z].records) \in Nat
<1>1. c[z].records \in SUBSET Record
  BY DEF Copy
<1>2. IsFiniteSet(c[z].records) /\ Mark \notin c[z].records
  <2>1. Mark \notin Record
    BY NoSetContainsEverything DEF Mark
  <2>2. IsFiniteSet(Record)
    BY CacheAssumption DEF CacheAssumption
  <2> QED
    BY <1>1, <2>1, <2>2, FS_Subset
<1>3. Cardinality(c[z].records) \in Nat
  BY <1>2, FS_CardinalityType
<1> DEFINE M == c[z].records \cup {Mark}
<1>4. IsFiniteSet(M) /\ Cardinality(M) = Cardinality(c[z].records) + 1
  BY <1>2, FS_AddElement
<1> HIDE DEF M
<1>5. IsFiniteSet({z}) /\ Cardinality({z}) = 1
  BY FS_Singleton
<1>6. IsFiniteSet({z} \X M) /\ Cardinality({z} \X M) = Cardinality({z}) * Cardinality(M)
  BY <1>4, <1>5, FS_Product
<1>7. IsFiniteSet({z} \X M) /\ Cardinality({z} \X M) = 1 + Cardinality(c[z].records)
  BY <1>3, <1>4, <1>5, <1>6
<1> QED
  BY <1>3, <1>7 DEF UnitsOf, Size, M

\* The zones' units are apart.
LEMMA UnitsApart ==
    ASSUME NEW c, NEW zs, NEW ys, zs \cap ys = {}
    PROVE  Units(c, zs \cup ys) = Units(c, zs) \cup Units(c, ys) /\ Units(c, zs) \cap Units(c, ys) = {}
<1>1. \A u, xs : u \in Units(c, xs) <=> \E z \in xs : c[z] # None /\ u \in UnitsOf(c, z)
  BY DEF Units
<1>2. \A u, z, y : u \in UnitsOf(c, z) /\ u \in UnitsOf(c, y) => z = y
  BY DEF UnitsOf
<1>3. \A u : u \in Units(c, zs \cup ys) <=> u \in Units(c, zs) \cup Units(c, ys)
  BY <1>1
<1>4. \A u : ~ (u \in Units(c, zs) /\ u \in Units(c, ys))
  BY <1>1, <1>2
<1> QED
  BY <1>3, <1>4

\* So the numbers of units of two sets of zones add up.
LEMMA UnitsSum ==
    ASSUME NEW c, NEW zs, NEW ys, zs \cap ys = {},
           IsFiniteSet(Units(c, zs)), IsFiniteSet(Units(c, ys))
    PROVE  /\ IsFiniteSet(Units(c, zs \cup ys))
           /\ Cardinality(Units(c, zs \cup ys)) = Cardinality(Units(c, zs)) + Cardinality(Units(c, ys))
           /\ Cardinality(Units(c, zs)) \in Nat /\ Cardinality(Units(c, ys)) \in Nat
<1> DEFINE S == Units(c, zs)
           T == Units(c, ys)
<1>1. Units(c, zs \cup ys) = S \cup T /\ S \cap T = {} /\ IsFiniteSet(S) /\ IsFiniteSet(T)
  BY UnitsApart
<1> HIDE DEF S, T
<1>2. Cardinality({}) = 0 /\ Cardinality(S) \in Nat /\ Cardinality(T) \in Nat
  BY <1>1, FS_EmptySet, FS_CardinalityType
<1>3. /\ IsFiniteSet(S \cup T)
      /\ Cardinality(S \cup T) = Cardinality(S) + Cardinality(T) - Cardinality(S \cap T)
  BY <1>1, FS_Union
<1>4. Cardinality(S \cup T) = Cardinality(S) + Cardinality(T)
  <2>1. Cardinality(S \cap T) = 0
    BY <1>1, <1>2
  <2>2. PICK s \in Nat, t \in Nat : s = Cardinality(S) /\ t = Cardinality(T)
    BY <1>2
  <2>3. Cardinality(S \cup T) = s + t - 0
    BY <1>3, <2>1, <2>2
  <2> QED
    BY <2>2, <2>3
<1> QED
  BY <1>1, <1>2, <1>3, <1>4 DEF S, T

\* The estimate of some zones is the number of their units, in whatever order they are.
LEMMA EstimateIs ==
    ASSUME CoreTypeOK, LruOK, NEW zs \in SUBSET Zone
    PROVE  /\ IsFiniteSet(Units(cache, zs)) /\ Estimate(zs) = Cardinality(Units(cache, zs))
           /\ Estimate(zs) \in Nat
<1> DEFINE n == Len(lru)
           First(k) == {lru[i] : i \in 1 .. k}
           Part(k) == IF lru[k] \in zs THEN Size(cache[lru[k]].records) ELSE 0
           Def(f) == f = [k \in 0 .. n |-> IF k = 0 THEN 0
                          ELSE f[k - 1] + Part(k)]
           size == CHOOSE f : Def(f)
<1>1. /\ n \in Nat /\ DOMAIN lru = 1 .. n /\ \A i \in 1 .. n : lru[i] \in Zone
      /\ cache \in [Zone -> {None} \cup Copy]
  BY LenProperties, ElementOfSeq DEF LruOK, CoreTypeOK
<1>2. Estimate(zs) = size[n]
  BY DEF Estimate
<1>3. \A k \in 1 .. n : cache[lru[k]] # None /\ Part(k) \in Nat
  <2> TAKE k \in 1 .. n
  <2>1. lru[k] \in Zone /\ cache[lru[k]] # None
    BY <1>1 DEF LruOK, Listed
  <2>2. Size(cache[lru[k]].records) \in Nat
    BY <1>1, <2>1, UnitsOfSize
  <2> QED
    BY <2>1, <2>2
<1>4. Def(size)
  <2> DEFINE step == [k \in 1 .. n |-> [s \in Nat |-> s + Part(k)]]
  <2> HIDE DEF Part, n
  <2>1. StepsIn(Nat, n, step)
    BY <1>3 DEF StepsIn
  <2>2. PICK f : Unrolls(Nat, n, 0, step, f)
    <3> HIDE DEF step
    <3> QED
      BY <1>1, <2>1, Recursion
  <2>3. \A k \in 0 .. n : k # 0 => k - 1 \in 0 .. n /\ k \in 1 .. n
    BY <1>1
  <2>4. f \in [0 .. n -> Nat] /\ f[0] = 0 /\ \A k \in 1 .. n : f[k] = step[k][f[k - 1]]
    BY <2>2 DEF Unrolls
  <2>5. \A k \in 0 .. n : f[k] = IF k = 0 THEN 0 ELSE f[k - 1] + Part(k)
    <3> TAKE k \in 0 .. n
    <3>1. k # 0 => f[k - 1] \in Nat /\ f[k] = step[k][f[k - 1]]
      BY <2>3, <2>4
    <3>2. k # 0 => step[k][f[k - 1]] = f[k - 1] + Part(k)
      BY <2>3, <3>1
    <3> HIDE DEF step
    <3> QED
      BY <2>4, <3>1, <3>2
  <2>6. Def(f)
    <3> HIDE DEF step
    <3> QED
      BY <2>4, <2>5
  <2> HIDE DEF Def
  <2> QED
    BY <2>6
<1> HIDE DEF size
<1>5. size[0] = 0 /\ \A k \in 1 .. n : size[k] = size[k - 1] + Part(k)
  <2> HIDE DEF n, Part
  <2>1. 0 \in 0 .. n /\ \A k \in 1 .. n : k \in 0 .. n /\ k # 0
    BY <1>1
  <2> QED
    BY <1>4, <2>1
<1> HIDE DEF Def
<1> DEFINE In(k) == Units(cache, zs \cap First(k))
           Fits(k) == IsFiniteSet(In(k)) /\ size[k] = Cardinality(In(k))
           Good == {k \in Nat : Fits(k)}
<1>6. 0 \in Good
  <2>1. First(0) = {}
    OBVIOUS
  <2>2. In(0) = {}
    BY <2>1 DEF Units
  <2> HIDE DEF n, First, In
  <2>3. Fits(0)
    BY <1>5, <2>2, FS_EmptySet
  <2> HIDE DEF Fits
  <2> QED
    BY <2>3
<1>7. ASSUME NEW k \in 1 .. n, k - 1 \in Good PROVE k \in Good
  <2>1. k \in Nat /\ Fits(k - 1)
    BY <1>7
  <2>2. First(k) = First(k - 1) \cup {lru[k]} /\ lru[k] \in Zone /\ lru[k] \notin First(k - 1)
    <3>1. 1 .. k = (1 .. k - 1) \cup {k} /\ k \in 1 .. n
      BY <1>7
    <3>2. \A i \in 1 .. k - 1 : i \in DOMAIN lru /\ k \in DOMAIN lru /\ i # k
      BY <1>1, <1>7
    <3>3. lru[k] \notin First(k - 1)
      BY <3>2 DEF LruOK, Once
    <3> QED
      BY <1>1, <3>1, <3>3
  <2>3. CASE lru[k] \notin zs
    <3>1. zs \cap First(k) = zs \cap First(k - 1)
      <4> HIDE DEF First
      <4> QED
        BY <2>2, <2>3
    <3>2. size[k] = size[k - 1] + 0
      BY <1>5, <2>3
    <3> HIDE DEF First, n
    <3>3. size[k - 1] \in Nat
      BY <2>1, FS_CardinalityType
    <3>4. size[k] = size[k - 1]
      <4>1. PICK m \in Nat : m = size[k - 1]
        BY <3>3
      <4> QED
        BY <3>2, <4>1
    <3>5. In(k) = In(k - 1)
      BY <3>1
    <3> HIDE DEF In
    <3>6. Fits(k)
      BY <2>1, <3>4, <3>5
    <3> HIDE DEF Fits
    <3> QED
      BY <2>1, <3>6
  <2>4. CASE lru[k] \in zs
    <3>1. zs \cap First(k) = (zs \cap First(k - 1)) \cup {lru[k]} /\ (zs \cap First(k - 1)) \cap {lru[k]} = {}
      <4> HIDE DEF First
      <4> QED
        BY <2>2, <2>4
    <3>2. size[k] = size[k - 1] + Size(cache[lru[k]].records)
      BY <1>5, <2>4
    <3>3. Units(cache, {lru[k]}) = UnitsOf(cache, lru[k])
      BY <1>3 DEF Units
    <3>4. /\ IsFiniteSet(Units(cache, {lru[k]}))
          /\ Cardinality(Units(cache, {lru[k]})) = Size(cache[lru[k]].records)
      BY <1>1, <1>3, <2>2, <3>3, UnitsOfSize
    <3> HIDE DEF First, n
    <3>5. /\ IsFiniteSet(In(k))
          /\ Cardinality(In(k)) = Cardinality(In(k - 1)) + Cardinality(Units(cache, {lru[k]}))
      <4>1. PICK before : before = zs \cap First(k - 1)
        OBVIOUS
      <4>2. PICK new : new = {lru[k]}
        OBVIOUS
      <4>3. In(k) = Units(cache, before \cup new) /\ In(k - 1) = Units(cache, before)
        BY <3>1, <4>1, <4>2
      <4>4. before \cap new = {} /\ IsFiniteSet(Units(cache, before)) /\ IsFiniteSet(Units(cache, new))
        BY <2>1, <3>1, <3>4, <4>1, <4>2
      <4>5. /\ IsFiniteSet(Units(cache, before \cup new))
            /\ Cardinality(Units(cache, before \cup new)) =
                  Cardinality(Units(cache, before)) + Cardinality(Units(cache, new))
        BY <4>4, UnitsSum
      <4> HIDE DEF In
      <4> QED
        BY <4>2, <4>3, <4>5
    <3> HIDE DEF In
    <3> QED
      BY <2>1, <3>2, <3>4, <3>5
  <2> QED
    BY <2>3, <2>4
<1> HIDE DEF Fits
<1>8. n \in Good
  <2>1. Good \in SUBSET Nat
    OBVIOUS
  <2> HIDE DEF Good, n
  <2>2. 0 .. n \subseteq Good
    BY <1>1, <1>6, <1>7, <2>1, Induct
  <2> QED
    BY <1>1, <2>2
<1>9. First(n) = Listed(lru)
  BY <1>1 DEF Listed
<1> HIDE DEF n, First
<1>10. Units(cache, zs \cap Listed(lru)) = Units(cache, zs)
  <2>1. {y \in zs \cap Listed(lru) : cache[y] # None} = {y \in zs : cache[y] # None}
    BY DEF LruOK
  <2> QED
    BY <2>1 DEF Units
<1>11. IsFiniteSet(Units(cache, zs)) /\ size[n] = Cardinality(Units(cache, zs))
  BY <1>8, <1>9, <1>10 DEF Fits
<1> QED
  BY <1>2, <1>11, FS_CardinalityType
--------------------------------------------------------------------------------
(* The order and the cache change together *)

\* Nothing enters or leaves the cache, and no book changes.
LEMMA OrderKept ==
    ASSUME LruOK, UNCHANGED books, \A z \in Zone : cache'[z] # None <=> cache[z] # None
    PROVE  LruOK'
BY DEF LruOK, books, Once, Listed

\* Zones leave.
LEMMA OrderLeft ==
    ASSUME LruOK, NEW zs, lru' = Remaining(zs), catalog' \subseteq Zone, total' \in Int,
           \A y \in Zone : cache'[y] # None <=> cache[y] # None /\ y \notin zs
    PROVE  LruOK'
<1>1. lru' \in Seq(Zone) /\ Once(lru') /\ Listed(lru') = Listed(lru) \ zs
  BY RemainingIs DEF LruOK
<1> QED
  BY <1>1 DEF LruOK, Once, Listed

\* One of the zones that leave comes back last.
LEMMA OrderMoved ==
    ASSUME LruOK, NEW zs, NEW z \in zs \cap Zone, lru' = Append(Remaining(zs), z),
           catalog' \subseteq Zone, total' \in Int,
           \A y \in Zone : cache'[y] # None <=> y = z \/ (cache[y] # None /\ y \notin zs)
    PROVE  LruOK'
<1>1. /\ Remaining(zs) \in Seq(Zone) /\ Once(Remaining(zs))
      /\ Listed(Remaining(zs)) = Listed(lru) \ zs
  BY RemainingIs DEF LruOK
<1>2. lru' \in Seq(Zone) /\ Once(lru') /\ Listed(lru') = (Listed(lru) \ zs) \cup {z}
  BY <1>1, AppendIs
<1> QED
  BY <1>2 DEF LruOK, Once, Listed

\* A cached zone is used (move_to_end).
LEMMA OrderTouched ==
    ASSUME LruOK, NEW z \in Zone, cache[z] # None, MostRecent(z), UNCHANGED <<cache, total>>,
           catalog' \subseteq Zone
    PROVE  LruOK'
<1>1. \A y \in Zone : cache'[y] # None <=> y = z \/ (cache[y] # None /\ y \notin {z})
  OBVIOUS
<1>2. lru' = Append(Remaining({z}), z) /\ total' \in Int
  BY DEF MostRecent, LruOK
<1> QED
  BY <1>1, <1>2, OrderMoved

\* The model counts to its bound.
LEMMA CountedInt ==
    ASSUME NEW n \in Int
    PROVE  Counted(n) \in Int /\ (Counted(n) = n \/ Counted(n) \in {-MaxDrift, MaxDrift})
BY CacheAssumption DEF Counted, CacheAssumption

\* Only cached zones are evicted.
LEMMA EvictedCached ==
    ASSUME LruOK, NEW size, NEW spent
    PROVE  Evicted(size, spent) \subseteq Zone /\ \A z \in Evicted(size, spent) : cache[z] # None
<1>1. \A i \in DOMAIN lru : lru[i] \in Zone
  BY LenProperties, ElementOfSeq DEF LruOK
<1>2. Evicted(size, spent) \subseteq Listed(lru)
  BY DEF Evicted, Listed
<1>3. Listed(lru) \subseteq Zone
  BY <1>1 DEF Listed
<1> QED
  BY <1>2, <1>3 DEF LruOK

\* What the books are given are numbers.
LEMMA EstimateNat ==
    ASSUME CoreTypeOK, LruOK, NEW zs \in SUBSET Zone
    PROVE  Estimate(zs) \in Nat
BY EstimateIs

LEMMA LeaveInt ==
    ASSUME CoreTypeOK, LruOK, NEW zs \in SUBSET Zone
    PROVE  Counted(total - Estimate(zs)) \in Int
<1>1. Estimate(zs) \in Nat /\ total \in Int
  BY EstimateNat DEF LruOK
<1> QED
  BY <1>1, CountedInt

LEMMA SizeNat ==
    ASSUME NEW records \in SUBSET Record
    PROVE  Size(records) \in Nat
<1>1. IsFiniteSet(records)
  BY FS_Subset, CacheAssumption DEF CacheAssumption
<1> QED
  BY <1>1, FS_CardinalityType DEF Size

\* A transferred zone enters the cache last, after all that is evicted for it.
LEMMA InstallOrder == ASSUME IInv, LruOK, NEW a \in Actor, Install(a) PROVE LruOK'
<1> DEFINE t == task[a]
           z == t.zone
           size == Size(history[z][t.upto])
           spent == IF t.then = "sync" THEN total ELSE total - Estimate({z})
           out == Evicted(size, spent)
<1>1. z \in Zone /\ t.upto \in Serials(z) /\ history[z][t.upto] \in SUBSET Record
  <2>1. z \in Zone /\ t.upto \in Serials(z) /\ history[z] \in Seq(SUBSET Record)
    BY DEF IInv, CoreTypeOK, TaskOK, Install
  <2> QED
    BY <2>1, ElementOfSeq DEF Serials
<1>2. size \in Nat /\ total \in Int /\ Estimate({z}) \in Nat
  BY <1>1, SizeNat, EstimateNat DEF IInv, LruOK
<1>3. spent \in Int
  BY <1>2
<1>4. out \subseteq Zone
  BY EvictedCached
<1>5. Estimate(out) \in Nat
  BY <1>4, EstimateNat DEF IInv
<1>6. CASE Oversize(size)
  <2>1. UNCHANGED <<cache, books>>
    BY <1>6 DEF Install
  <2> QED
    BY <2>1, OrderKept
<1>7. CASE ~Oversize(size)
  <2> DEFINE new == [serial |-> t.upto, records |-> history[z][t.upto], suspect |-> FALSE]
  <2>1. /\ cache' = [Dropped(out) EXCEPT ![z] = new]
        /\ lru' = Append(Remaining(out \cup {z}), z)
        /\ catalog' = (catalog \ out) \cup (IF t.then = "sync" THEN {z} ELSE {})
        /\ total' = Counted(spent - Estimate(out) + size)
    BY <1>7 DEF Install
  <2>2. new # None
    <3>1. new \in Copy
      BY <1>1 DEF Copy, Serials
    <3> QED
      BY <3>1, NoneAssumption
  <2> HIDE DEF new, out, spent, size
  <2>3. total' \in Int
    BY <1>2, <1>3, <1>5, <2>1, CountedInt
  <2>4. catalog' \subseteq Zone
    BY <1>1, <2>1 DEF LruOK
  <2>5. \A y \in Zone : cache'[y] # None <=> y = z \/ (cache[y] # None /\ y \notin out \cup {z})
    BY <2>1, <2>2 DEF Dropped
  <2>6. z \in (out \cup {z}) \cap Zone
    BY <1>1
  <2> HIDE DEF z, t
  <2> QED
    BY <2>1, <2>3, <2>4, <2>5, <2>6, OrderMoved
<1> QED
  BY <1>6, <1>7
--------------------------------------------------------------------------------
(* What a step does to the cache and its books *)

InPlace(z) ==
    /\ cache[z] # None /\ cache'[z] # None /\ \A y \in Zone \ {z} : cache'[y] = cache[y]
    /\ UNCHANGED books
Touches(z) ==
    /\ cache[z] # None /\ MostRecent(z)
    /\ UNCHANGED <<cache, total>> /\ catalog' \subseteq Zone
Leave(zs) ==
    /\ cache' = Dropped(zs) /\ lru' = Remaining(zs) /\ catalog' \subseteq Zone
    /\ total' = Counted(total - Estimate(zs))

\* Nothing, a change in place, a use, zones that leave, a transferred zone, or a restart.
StepKind ==
    \/ UNCHANGED <<cache, books>>
    \/ \E z \in Zone : InPlace(z)
    \/ \E z \in Zone : Touches(z)
    \/ \E zs \in SUBSET Zone : Leave(zs)
    \/ \E a \in Actor : Install(a)
    \/ Restart

\* A cached object that is replaced by another stays cached.
LEMMA InPlaceIs ==
    ASSUME IInv, NEW z \in Zone, cache[z] # None, NEW new \in Copy,
           cache' = [cache EXCEPT ![z] = new], UNCHANGED books
    PROVE  StepKind
<1>1. cache'[z] = new /\ \A y \in Zone \ {z} : cache'[y] = cache[y]
  BY DEF IInv, CoreTypeOK
<1> QED
  BY <1>1, NoneAssumption DEF StepKind, InPlace

\* A difference, an edit and a takeover change one cached object, or none.
LEMMA InPlaceKinds ==
    ASSUME IInv, (\E a \in Actor : ApplyDiff(a)) \/ Edit \/ TakeOver
    PROVE  StepKind
<1>0. Loop \in Actor
  BY DEF Actor
<1>1. ASSUME NEW a \in Actor, task[a].held
      PROVE  /\ task[a].zone \in Zone /\ cache[task[a].zone] # None
             /\ cache[task[a].zone] \in Copy
  BY <1>1 DEF IInv, CoreTypeOK, TaskOK
<1>2. ASSUME NEW a \in Actor, ApplyDiff(a) PROVE StepKind
  <2> DEFINE t == task[a]
             new == Applied(cache[t.zone], t.zone, t.from, t.upto)
  <2>1. CASE ~t.held
    BY <1>2, <2>1 DEF ApplyDiff, StepKind
  <2>2. CASE t.held
    <3>1. t.upto \in Nat
      BY DEF IInv, CoreTypeOK, Task
    <3>2. new \in Copy
      BY <1>1, <2>2, <3>1 DEF Applied, Copy, Patched
    <3>3. cache' = [cache EXCEPT ![t.zone] = new] /\ UNCHANGED books
      BY <1>2, <2>2 DEF ApplyDiff
    <3> HIDE DEF new, t
    <3> QED
      BY <1>1, <2>2, <3>2, <3>3, InPlaceIs DEF t
  <2> QED
    BY <2>1, <2>2
<1>3. CASE Edit
  <2> DEFINE t == task[Loop]
             z == t.zone
             copy == cache[z]
  <2>1. CASE ~t.held
    BY <1>3, <2>1 DEF Edit, StepKind
  <2>2. CASE t.held
    <3>1. copy \in Copy /\ copy # None /\ z \in Zone
      BY <1>0, <1>1, <2>2
    <3>2. PICK new : /\ cache' = [cache EXCEPT ![z] = new]
                     /\ \/ \E op \in SUBSET t.left : new = Entered(copy, t, op)
                        \/ \E records \in SUBSET Record : new = EnteredAmiss(copy, records)
      BY <1>3, <2>2 DEF Edit
    <3>3. ASSUME NEW op \in SUBSET t.left PROVE Entered(copy, t, op) \in Copy
      <4> DEFINE records == {r \in Record : IF r \in op THEN r \in history[z][t.write] ELSE r \in copy.records}
                 suspect == copy.suspect \/ \E r \in op : Touched(z, r, t.write, copy.serial)
      <4>1. records \in SUBSET Record /\ suspect \in BOOLEAN
        BY <3>1 DEF Copy
      <4>2. Entered(copy, t, op) = [copy EXCEPT !.records = records, !.suspect = suspect]
        BY DEF Entered
      <4> HIDE DEF records, suspect
      <4> QED
        BY <3>1, <4>1, <4>2 DEF Copy
    <3>4. ASSUME NEW records \in SUBSET Record PROVE EnteredAmiss(copy, records) \in Copy
      BY <3>1 DEF EnteredAmiss, Copy
    <3>5. new \in Copy
      BY <3>2, <3>3, <3>4
    <3>6. UNCHANGED books
      BY <1>3 DEF Edit
    <3> HIDE DEF z, copy, t
    <3> QED
      BY <3>1, <3>2, <3>5, <3>6, InPlaceIs DEF copy
  <2> QED
    BY <2>1, <2>2
<1>4. CASE TakeOver
  <2> DEFINE t == task[Loop]
             copy == cache[t.zone]
             new == TakenOver(copy, t)
  <2>1. CASE ~t.held
    BY <1>4, <2>1 DEF TakeOver, StepKind
  <2>2. CASE t.held
    <3>1. copy \in Copy /\ copy # None /\ t.zone \in Zone /\ t.upto \in Nat
      BY <1>0, <1>1, <2>2 DEF IInv, CoreTypeOK, Task
    <3> DEFINE suspect == copy.suspect \/
                   \E i \in copy.serial + 1 .. t.upto : ~(t.edited /\ i = t.write)
    <3>2. suspect \in BOOLEAN
      BY <3>1 DEF Copy
    <3>3. new = [copy EXCEPT !.serial = t.upto, !.suspect = suspect]
      BY DEF TakenOver
    <3> HIDE DEF suspect, new
    <3>4. new \in Copy
      BY <3>1, <3>2, <3>3 DEF Copy
    <3>5. cache' = [cache EXCEPT ![t.zone] = new] /\ UNCHANGED books
      BY <1>4, <2>2 DEF TakeOver, new
    <3> HIDE DEF t, copy
    <3> QED
      BY <3>1, <3>4, <3>5, InPlaceIs DEF copy
  <2> QED
    BY <2>1, <2>2
<1> QED
  BY <1>2, <1>3, <1>4

\* Every step is of one of these kinds.
LEMMA StepKinds == ASSUME IInv, LruOK, [Next]_vars PROVE StepKind
<1>0. catalog \subseteq Zone
  BY DEF LruOK
<1>1. CASE UNCHANGED vars
  BY <1>1 DEF vars, books, StepKind
<1>2. ASSUME NEW z \in Zone, ZoneStep(z) PROVE StepKind
  <2>1. CASE BeginRefresh(z) \/ Notify(z) \/ BeginThread(z)
    BY <2>1 DEF BeginRefresh, Notify, BeginThread, StepKind
  <2>2. CASE Read(z)
    <3>1. Touches(z)
      BY <1>0, <2>2 DEF Read, Touches
    <3> QED
      BY <3>1 DEF StepKind
  <2>3. CASE Invalidate(z)
    <3>1. {z} \in SUBSET Zone /\ Leave({z})
      BY <1>0, <2>3 DEF Invalidate, Leave
    <3> QED
      BY <3>1 DEF StepKind
  <2>4. CASE SyncZone(z)
    <3>1. CASE cache[z] # None
      <4>1. Touches(z)
        BY <1>0, <2>4, <3>1 DEF SyncZone, Touches
      <4> QED
        BY <4>1 DEF StepKind
    <3>2. CASE cache[z] = None
      BY <2>4, <3>2 DEF SyncZone, books, StepKind
    <3> QED
      BY <3>1, <3>2
  <2>5. ASSUME NEW rs \in SUBSET Record, ServerChanges(z, rs) \/ Written(z, rs) PROVE StepKind
    BY <2>5 DEF ServerChanges, Written, StepKind
  <2> QED
    BY <1>2, <2>1, <2>2, <2>3, <2>4, <2>5 DEF ZoneStep
<1>3. ASSUME NEW a \in Actor, RefreshStep(a) PROVE StepKind
  <2>1. CASE QuerySerial(a) \/ AskDiff(a) \/ NoAnswer(a) \/ TransferAll(a)
    BY <2>1 DEF QuerySerial, AskDiff, NoAnswer, TransferAll, StepKind
  <2>2. CASE Install(a)
    BY <2>2 DEF StepKind
  <2>3. CASE ApplyDiff(a)
    BY <2>3, InPlaceKinds
  <2> QED
    BY <1>3, <2>1, <2>2, <2>3 DEF RefreshStep
<1>4. ASSUME NEW t, t.zone \in Zone, NEW next, GetZoneThen(t, next),
             UNCHANGED <<cache, catalog, total>>
      PROVE  StepKind
  <2>1. CASE cache[t.zone] # None
    <3>1. Touches(t.zone)
      BY <1>0, <1>4, <2>1 DEF GetZoneThen, Touches
    <3> QED
      BY <1>4, <3>1 DEF StepKind
  <2>2. CASE cache[t.zone] = None
    BY <1>4, <2>2 DEF GetZoneThen, books, StepKind
  <2> QED
    BY <2>1, <2>2
<1>5. ASSUME NEW w \in sent, BeginEdit(w) PROVE StepKind
  <2> DEFINE t == [NoTask EXCEPT !.zone = w[1], !.write = w[2], !.left = Changed(w[1], w[2])]
  <2>1. t.zone \in Zone
    BY DEF NoTask, IInv, CoreTypeOK
  <2>2. GetZoneThen(t, "edit") /\ UNCHANGED <<cache, catalog, total>>
    BY <1>5 DEF BeginEdit
  <2> HIDE DEF t
  <2> QED
    BY <1>4, <2>1, <2>2
<1>6. CASE EditStep
  <2>1. CASE Relook \/ NextOperation
    <3>1. task[Loop].zone \in Zone
      BY <2>1 DEF Relook, NextOperation, IInv, TaskOK, Actor
    <3> QED
      BY <1>4, <2>1, <3>1 DEF Relook, NextOperation
  <2>2. CASE AskSerial
    BY <2>2 DEF AskSerial, StepKind
  <2> QED
    BY <1>6, <2>1, <2>2, InPlaceKinds DEF EditStep
<1>7. ASSUME NEW names \in Listings, NEW removeStale \in BOOLEAN, BeginSync(names, removeStale)
      PROVE  StepKind
  <2> DEFINE stale == IF removeStale THEN catalog \ names ELSE {}
  <2>1. stale \in SUBSET Zone
    BY <1>0
  <2>2. Leave(stale)
    BY <1>0, <1>7 DEF BeginSync, Leave
  <2> QED
    BY <2>1, <2>2 DEF StepKind
<1>8. CASE EndSync
  BY <1>8 DEF EndSync, StepKind
<1>9. CASE Restart
  BY <1>9 DEF StepKind
<1> QED
  BY <1>1, <1>2, <1>3, <1>5, <1>6, <1>7, <1>8, <1>9 DEF Next
--------------------------------------------------------------------------------
\* And each kind keeps the order and the cache together.
LEMMA KindOrder == ASSUME IInv, LruOK, StepKind PROVE LruOK'
<1>0. CoreTypeOK
  BY DEF IInv
<1>1. CASE UNCHANGED <<cache, books>>
  BY <1>1, OrderKept
<1>2. ASSUME NEW z \in Zone, InPlace(z) PROVE LruOK'
  BY <1>2, OrderKept DEF InPlace
<1>3. ASSUME NEW z \in Zone, Touches(z) PROVE LruOK'
  BY <1>3, OrderTouched DEF Touches
<1>4. ASSUME NEW zs \in SUBSET Zone, Leave(zs) PROVE LruOK'
  <2>1. total' \in Int
    BY <1>0, <1>4, LeaveInt DEF Leave
  <2>2. \A y \in Zone : cache'[y] # None <=> cache[y] # None /\ y \notin zs
    BY <1>4 DEF Leave, Dropped
  <2> QED
    BY <1>4, <2>1, <2>2, OrderLeft DEF Leave
<1>5. ASSUME NEW a \in Actor, Install(a) PROVE LruOK'
  BY <1>5, InstallOrder
<1>6. CASE Restart
  <2>1. lru' = <<>> /\ catalog' = {} /\ total' = 0 /\ \A z \in Zone : cache'[z] = None
    BY <1>6 DEF Restart
  <2>2. DOMAIN <<>> = {} /\ <<>> \in Seq(Zone)
    OBVIOUS
  <2> QED
    BY <2>1, <2>2 DEF LruOK, Once, Listed
<1> QED
  BY <1>1, <1>2, <1>3, <1>4, <1>5, <1>6 DEF StepKind

\* The empty cache has an empty order.
LEMMA InitOrder == Init => LruOK
<1>1. DOMAIN <<>> = {} /\ <<>> \in Seq(Zone)
  OBVIOUS
<1> QED
  BY <1>1 DEF Init, LruOK, Once, Listed

LEMMA NextOrder == IInv /\ LruOK /\ [Next]_vars => LruOK'
BY StepKinds, KindOrder

--------------------------------------------------------------------------------
(* The books *)

\* Before and after a step the estimate of everything is the number of all units.
LEMMA TotalIs ==
    CoreTypeOK /\ LruOK =>
        /\ IsFiniteSet(Units(cache, Zone)) /\ Estimate(Zone) = Cardinality(Units(cache, Zone))
        /\ Estimate(Zone) \in Nat
BY EstimateIs

\* The same, of the state after a step.
LEMMA TotalIsAfter ==
    ASSUME CoreTypeOK', LruOK'
    PROVE  /\ IsFiniteSet(Units(cache', Zone)) /\ Estimate(Zone)' = Cardinality(Units(cache', Zone))
           /\ Estimate(Zone)' \in Nat
<1>1. (CoreTypeOK /\ LruOK =>
         /\ IsFiniteSet(Units(cache, Zone)) /\ Estimate(Zone) = Cardinality(Units(cache, Zone))
         /\ Estimate(Zone) \in Nat)'
  BY TotalIs, PTL
<1>2. Units(cache, Zone)' = Units(cache', Zone)
  BY DEF Units, UnitsOf
<1> QED
  BY <1>1, <1>2

\* The units depend on the records only.
LEMMA SameUnits ==
    ASSUME NEW c, NEW d, NEW zs,
           \A z \in zs : (c[z] # None <=> d[z] # None) /\ (c[z] # None => c[z].records = d[z].records)
    PROVE  Units(c, zs) = Units(d, zs)
<1>1. {z \in zs : c[z] # None} = {z \in zs : d[z] # None}
  OBVIOUS
<1>2. \A z \in {y \in zs : c[y] # None} : UnitsOf(c, z) = UnitsOf(d, z)
  BY DEF UnitsOf
<1> QED
  BY <1>1, <1>2 DEF Units

\* Zones that are not cached have no units.
LEMMA NoUnits ==
    ASSUME NEW c, NEW zs, \A z \in zs : c[z] = None
    PROVE  Units(c, zs) = {}
BY DEF Units

\* What the estimate says of the zones that leave, and of those that stay.
LEMMA Shares ==
    ASSUME CoreTypeOK, LruOK, NEW zs \in SUBSET Zone
    PROVE  /\ Estimate(Zone) = Estimate(zs) + Cardinality(Units(cache, Zone \ zs))
           /\ IsFiniteSet(Units(cache, Zone \ zs)) /\ Cardinality(Units(cache, Zone \ zs)) \in Nat
<1> DEFINE ys == Zone \ zs
<1>1. ys \in SUBSET Zone /\ zs \cap ys = {} /\ zs \cup ys = Zone
  OBVIOUS
<1> HIDE DEF ys
<1>2. /\ IsFiniteSet(Units(cache, zs)) /\ Estimate(zs) = Cardinality(Units(cache, zs))
      /\ IsFiniteSet(Units(cache, ys))
  BY <1>1, EstimateIs
<1>3. /\ Cardinality(Units(cache, zs \cup ys)) = Cardinality(Units(cache, zs)) + Cardinality(Units(cache, ys))
      /\ Cardinality(Units(cache, ys)) \in Nat
  BY <1>1, <1>2, UnitsSum
<1> QED
  BY <1>1, <1>2, <1>3, TotalIs DEF ys

Kept == total' - Estimate(Zone)' = total - Estimate(Zone)
Bounded == total' \in {-MaxDrift, MaxDrift}
Accident == \E z \in Zone : cache[z] # None /\ (Miscounts(z) \/ ChangesInPlace(z))

\* Without a change of a size and of the total, the books are kept.
LEMMA SameBooks ==
    ASSUME CoreTypeOK, LruOK, CoreTypeOK', LruOK', total' = total,
           \A z \in Zone : /\ cache'[z] # None <=> cache[z] # None
                           /\ cache'[z] # None => cache'[z].records = cache[z].records
    PROVE  Kept
<1>1. Units(cache', Zone) = Units(cache, Zone)
  BY SameUnits
<1> QED
  BY <1>1, TotalIs, TotalIsAfter DEF Kept

\* What leaves the cache leaves the total.
LEMMA LeaveBooks ==
    ASSUME CoreTypeOK, LruOK, CoreTypeOK', LruOK', NEW zs \in SUBSET Zone, Leave(zs)
    PROVE  Kept \/ Bounded
<1> DEFINE stay == Cardinality(Units(cache, Zone \ zs))
<1>1. /\ Estimate(Zone) = Estimate(zs) + stay /\ stay \in Nat
      /\ Estimate(zs) \in Nat /\ total \in Int
  BY Shares, EstimateIs DEF LruOK
<1>2. Estimate(Zone)' = stay
  <2> DEFINE ys == Zone \ zs
  <2>1. zs \cap ys = {} /\ zs \cup ys = Zone
    OBVIOUS
  <2>2. (\A z \in zs : cache'[z] = None) /\ \A z \in ys : cache'[z] = cache[z]
    BY DEF Leave, Dropped
  <2> HIDE DEF ys
  <2>3. Units(cache', zs) = {} /\ Units(cache', ys) = Units(cache, ys)
    BY <2>2, NoUnits, SameUnits
  <2>4. Units(cache', zs \cup ys) = Units(cache', zs) \cup Units(cache', ys)
    BY <2>1, UnitsApart
  <2>5. Units(cache', Zone) = Units(cache, ys)
    BY <2>1, <2>3, <2>4
  <2> QED
    BY <2>5, TotalIsAfter DEF ys
<1> HIDE DEF stay
<1>3. total' = total - Estimate(zs) \/ Bounded
  BY <1>1, CountedInt DEF Leave, Bounded
<1>4. total' = total - Estimate(zs) => Kept
  <2>1. PICK e \in Nat, s \in Nat : e = Estimate(zs) /\ s = stay
    BY <1>1
  <2>2. Estimate(Zone) = e + s /\ Estimate(Zone)' = s
    BY <1>1, <1>2, <2>1
  <2>3. total' = total - Estimate(zs) => total' - Estimate(Zone)' = total - Estimate(Zone)
    BY <1>1, <2>1, <2>2
  <2> QED
    BY <2>3 DEF Kept
<1> QED
  BY <1>3, <1>4

\* A transfer, but for those that miscount.  With what it evicts and the zone it
\* replaces, if any, all of that leaves the total, and the new size enters it.
LEMMA InstallBooks ==
    ASSUME IInv, LruOK, CoreTypeOK', LruOK', NEW a \in Actor, Install(a)
    PROVE  Kept \/ Bounded \/ Accident
<1> DEFINE t == task[a]
           z == t.zone
           size == Size(history[z][t.upto])
           spent == IF t.then = "sync" THEN total ELSE total - Estimate({z})
           out == Evicted(size, spent)
           new == [serial |-> t.upto, records |-> history[z][t.upto], suspect |-> FALSE]
<1>0. CoreTypeOK
  BY DEF IInv
<1>1. z \in Zone /\ t.upto \in Serials(z) /\ history[z][t.upto] \in SUBSET Record
  <2>1. z \in Zone /\ t.upto \in Serials(z) /\ history[z] \in Seq(SUBSET Record)
    BY DEF IInv, CoreTypeOK, TaskOK, Install
  <2> QED
    BY <2>1, ElementOfSeq DEF Serials
<1>2. new # None
  <2>1. new \in Copy
    BY <1>1 DEF Copy, Serials
  <2> QED
    BY <2>1, NoneAssumption
<1>3. CASE Oversize(size)
  <2>1. UNCHANGED <<cache, books>>
    BY <1>3 DEF Install
  <2> QED
    BY <1>0, <2>1, SameBooks DEF books
<1>4. ASSUME ~Oversize(size) PROVE
        /\ cache' = [Dropped(out) EXCEPT ![z] = new]
        /\ total' = Counted(spent - Estimate(out) + size)
  BY <1>4 DEF Install
<1>5. Estimate({z}) \in Nat /\ total \in Int /\ (cache[z] = None => Estimate({z}) = 0)
  <2>1. Estimate({z}) = Cardinality(Units(cache, {z})) /\ Estimate({z}) \in Nat
    BY <1>0, <1>1, EstimateIs
  <2>2. cache[z] = None => Units(cache, {z}) = {}
    BY NoUnits
  <2> QED
    BY <2>1, <2>2, FS_EmptySet DEF LruOK
<1>6. ASSUME ~Accident PROVE z \notin out /\ spent = total - Estimate({z})
  <2>1. CASE cache[z] = None
    <3>1. z \notin out
      BY <2>1, EvictedCached
    <3>2. spent = total - Estimate({z})
      BY <1>5, <2>1
    <3> QED
      BY <3>1, <3>2
  <2>2. CASE cache[z] # None
    <3>1. ~Miscounts(z)
      BY <1>1, <1>6, <2>2 DEF Accident
    <3>2. t.then # "sync" /\ z \notin Evicted(size, total - Estimate({z}))
      BY <3>1 DEF Miscounts
    <3> QED
      BY <3>2
  <2> QED
    BY <2>1, <2>2
<1>7. ASSUME ~Oversize(size), ~Accident PROVE Kept \/ Bounded
  <2> DEFINE zs == out \cup {z}
             stay == Cardinality(Units(cache, Zone \ zs))
  <2>1. out \in SUBSET Zone /\ z \notin out /\ spent = total - Estimate({z})
    BY <1>6, <1>7, EvictedCached
  <2>2. /\ \A y \in out : cache'[y] = None
        /\ \A y \in Zone \ zs : cache'[y] = cache[y]
        /\ cache'[z] = new
    BY <1>1, <1>4, <1>7, <2>1 DEF Dropped
  <2>3. total' = Counted(spent - Estimate(out) + size)
    BY <1>4, <1>7
  <2> HIDE DEF out, spent
  <2>4. Estimate(zs) = Estimate(out) + Estimate({z}) /\ Estimate(out) \in Nat
    <3>1. {z} \in SUBSET Zone /\ zs \in SUBSET Zone /\ out \cap {z} = {}
      BY <1>1, <2>1
    <3>2. /\ IsFiniteSet(Units(cache, out)) /\ Estimate(out) = Cardinality(Units(cache, out))
          /\ IsFiniteSet(Units(cache, {z})) /\ Estimate({z}) = Cardinality(Units(cache, {z}))
          /\ Estimate(zs) = Cardinality(Units(cache, zs)) /\ Estimate(out) \in Nat
      BY <1>0, <2>1, <3>1, EstimateIs
    <3> QED
      BY <3>1, <3>2, UnitsSum
  <2>5. Estimate(Zone) = Estimate(zs) + stay /\ stay \in Nat /\ IsFiniteSet(Units(cache, Zone \ zs))
    BY <1>0, <1>1, <2>1, Shares
  <2>6. Estimate(Zone)' = size + stay /\ size \in Nat
    <3> DEFINE ys == Zone \ {z}
               rest == Zone \ zs
    <3>1. /\ {z} \cap ys = {} /\ {z} \cup ys = Zone
          /\ rest \cap out = {} /\ rest \cup out = ys
      BY <1>1, <2>1
    <3>2. (\A y \in out : cache'[y] = None) /\ \A y \in rest : cache'[y] = cache[y]
      BY <2>2
    <3> HIDE DEF rest, ys
    <3>3. Units(cache', ys) = Units(cache, rest)
      <4>1. Units(cache', out) = {} /\ Units(cache', rest) = Units(cache, rest)
        BY <3>2, NoUnits, SameUnits
      <4>2. Units(cache', rest \cup out) = Units(cache', rest) \cup Units(cache', out)
        BY <3>1, UnitsApart
      <4> QED
        BY <3>1, <4>1, <4>2
    <3>4. /\ IsFiniteSet(Units(cache', {z})) /\ Cardinality(Units(cache', {z})) = size /\ size \in Nat
      <4>1. Units(cache', {z}) = UnitsOf(cache', z)
        BY <1>2, <2>2 DEF Units
      <4>2. /\ cache' \in [Zone -> {None} \cup Copy] /\ cache'[z] # None
            /\ cache'[z].records = history[z][t.upto]
        BY <1>2, <2>2 DEF CoreTypeOK
      <4> QED
        BY <1>1, <4>1, <4>2, UnitsOfSize
    <3>5. IsFiniteSet(Units(cache', ys)) /\ Cardinality(Units(cache', ys)) = stay
      BY <2>5, <3>3 DEF rest
    <3>6. Cardinality(Units(cache', {z} \cup ys)) =
             Cardinality(Units(cache', {z})) + Cardinality(Units(cache', ys))
      BY <3>1, <3>4, <3>5, UnitsSum
    <3>7. Cardinality(Units(cache', Zone)) = size + stay
      BY <3>1, <3>4, <3>5, <3>6
    <3> HIDE DEF size, stay
    <3> QED
      BY <3>4, <3>7, TotalIsAfter
  <2> HIDE DEF size, stay, zs
  <2>7. PICK e \in Nat, f \in Nat, s \in Nat, n \in Nat :
           e = Estimate(out) /\ f = Estimate({z}) /\ s = stay /\ n = size
    BY <1>5, <2>4, <2>5, <2>6
  <2>8. total' = Counted(total - f - e + n)
    BY <2>1, <2>3, <2>7
  <2>9. total' = total - f - e + n \/ Bounded
    BY <1>5, <2>8, CountedInt DEF Bounded
  <2>10. Estimate(Zone) = (e + f) + s /\ Estimate(Zone)' = n + s
    BY <2>4, <2>5, <2>6, <2>7
  <2>11. total' = total - f - e + n => total' - Estimate(Zone)' = total - Estimate(Zone)
    BY <1>5, <2>10
  <2> QED
    BY <2>9, <2>11 DEF Kept
<1> QED
  BY <1>3, <1>7

\* Each kind of step keeps the books, or is one of the exceptions.
LEMMA KindBooks ==
    ASSUME IInv, LruOK, IInv', LruOK', StepKind
    PROVE  Kept \/ Bounded \/ (cache' = Dropped(Zone) /\ total' = 0) \/ Accident
<1>0. CoreTypeOK /\ CoreTypeOK'
  BY DEF IInv
<1>1. CASE UNCHANGED <<cache, books>>
  BY <1>0, <1>1, SameBooks DEF books
<1>2. ASSUME NEW a \in Actor, Install(a) PROVE Kept \/ Bounded \/ Accident
  BY <1>0, <1>2, InstallBooks
<1>3. ASSUME NEW z \in Zone, InPlace(z) PROVE Kept \/ Bounded \/ Accident
  <2>1. CASE cache'[z].records = cache[z].records
    BY <1>0, <1>3, <2>1, SameBooks DEF InPlace, books
  <2>2. CASE \E a \in Actor : task[a].zone = z /\ Install(a)
    BY <1>2, <2>2
  <2>3. CASE /\ cache'[z].records # cache[z].records
             /\ ~\E a \in Actor : task[a].zone = z /\ Install(a)
    BY <1>3, <2>3 DEF InPlace, Accident, ChangesInPlace
  <2> QED
    BY <2>1, <2>2, <2>3
<1>4. ASSUME NEW z \in Zone, Touches(z) PROVE Kept
  BY <1>0, <1>4, SameBooks DEF Touches
<1>5. ASSUME NEW zs \in SUBSET Zone, Leave(zs) PROVE Kept \/ Bounded
  BY <1>0, <1>5, LeaveBooks
<1>6. CASE Restart
  BY <1>6 DEF Restart, Dropped
<1> QED
  BY <1>1, <1>2, <1>3, <1>4, <1>5, <1>6 DEF StepKind

\* The zones in the LRU order are the cached ones, each once, and everything keeps its
\* type, for any number of zones, threads and serials: no interleaving of evictions,
\* transfers, syncs and invalidations leaves a zone behind in one of the two
\* (_zones.pop, move_to_end).
THEOREM CacheTypeCorrect == Spec => []TypeOK
<1>1. IInv /\ LruOK => TypeOK
  <2> SUFFICES ASSUME IInv, LruOK PROVE TypeOK
    OBVIOUS
  <2>1. \A z \in Zone : cache[z] # None => cache[z].serial \in Serials(z)
    BY DEF IInv, CopyOK
  <2>2. \A a \in Actor : task[a].held => task[a].zone \in Zone /\ cache[task[a].zone] # None
    BY DEF IInv, TaskOK
  <2>3. CoreTypeOK /\ catalog \subseteq Zone /\ total \in Int
    BY DEF IInv, LruOK
  <2>4. /\ \A z \in Zone : cache[z] # None <=> \E i \in DOMAIN lru : lru[i] = z
        /\ \A i, j \in DOMAIN lru : lru[i] = lru[j] => i = j
    BY DEF LruOK, Once, Listed
  <2> QED
    BY <2>1, <2>2, <2>3, <2>4 DEF TypeOK
<1> QED
  BY <1>1, InitIInv, NextIInv, InitOrder, NextOrder, PTL DEF Spec

\* The count of bytes changes with the cache, for any zones, records, budget and order of
\* requests, transfers, NOTIFYs, evictions and syncs: only an object that changes in place
\* and a transfer that takes a replaced zone off twice or not at all put it out of step
\* (put, _evict_if_needed, sync_from_catalog, invalidate).
THEOREM BooksKeptAlways == Spec => BooksKept
<1>1. IInv /\ LruOK /\ IInv' /\ LruOK' /\ [Next]_vars =>
        [\/ total' - Estimate(Zone)' = total - Estimate(Zone)
         \/ total' \in {-MaxDrift, MaxDrift}
         \/ cache' = Dropped(Zone) /\ total' = 0
         \/ \E z \in Zone : cache[z] # None /\ (Miscounts(z) \/ ChangesInPlace(z))]_vars
  BY StepKinds, KindBooks DEF Kept, Bounded, Accident
<1> QED
  BY <1>1, InitIInv, NextIInv, InitOrder, NextOrder, PTL DEF Spec, BooksKept
================================================================================
