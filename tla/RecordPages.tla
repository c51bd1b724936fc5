------------------------------ MODULE RecordPages ------------------------------
(***************************************************************************)
(* A paginated listing of the API and the browser that pages through it:   *)
(* the RRsets of a zone, or a search in a zone or in all zones, of names   *)
(* or data, or of either; the list of zones is like the first, with one    *)
(* key per name.  The zone changes meanwhile, answers come late and in any *)
(* order, and the record table also takes in live messages.                *)
(*                                                                         *)
(* An RRset is its position in the order of the listing, (name, type).     *)
(* What a search of names or of data finds is the zone; a search of either *)
(* finds ByName by the names and ByData by the data.                       *)
(***************************************************************************)
EXTENDS Integers, FiniteSets, SequencesExt

CONSTANTS
    Key,               \* the RRsets there can be, in the order of the listing
    NameOf,            \* the position of each one's name among the names
    Idn,               \* the names that begin with "xn--"
    Plain,             \* the RRsets whose record name sorts after "__page_0__"
    Rank,              \* where the browser's order (compareRecords) puts each: of the names by
                       \* the locale, or of another column, so that some tie
    ByName, ByData,    \* what a search of either finds by the names, and by the data
    Queried,           \* the searches with a text, and not only with a type
    Zones,             \* what a zone may hold at first
    Size,              \* the page size (limit)
    None, Made,        \* no cursor; one made up by the browser, "__page_0__" or "__offset_0__"
    MaxLoads, MaxClicks, MaxChanges, MaxFailures      \* bounds

ASSUME PagesAssumption ==
    /\ Key \subseteq Nat /\ IsFiniteSet(Key) /\ NameOf \in [Key -> Nat]
    /\ Idn \subseteq Nat /\ Plain \subseteq Key
    /\ Zones \subseteq SUBSET Key
    /\ Rank \in [Key -> Int] /\ ByName \subseteq Key /\ ByData \subseteq Key
    /\ \A j, k \in Key : j < k => NameOf[j] <= NameOf[k]
    /\ Size \in Nat \ {0} /\ None \notin Key /\ Made \notin Key /\ None # Made
    /\ {MaxLoads, MaxClicks, MaxChanges, MaxFailures} \subseteq Nat /\ MaxLoads > 0

VARIABLES
    listing,           \* which of the listings this is
    zone,              \* the RRsets of the zone, or those that match
    page,              \* the state of the table
    loads,             \* requests in flight
    feed,              \* live messages in flight
    walk,              \* history variable, see below
    spent              \* how often the bounded things happened

vars == <<listing, zone, page, loads, feed, walk, spent>>

Cursor == Key \cup {None, Made}
Page == [items : SUBSET Key, current : Cursor, next : Key \cup {None}, more : BOOLEAN,
         total : Nat, history : Seq(Cursor)]

\* "search" and "global" look at names or at data, the other two at either.
Searches   == {"search", "global", "either", "either_global"}
EitherField == listing \in {"either", "either_global"}
AllZones   == listing \in {"global", "either_global"}

\* jump: the page asked for by its number, or 0; last: sent by goToLastPage; parts: which
\* of the two requests of a search of either are answered; seen: what the server had found
\* when it answered; old: since then a live message was applied, or an untold change made.
Load == [cursor : Cursor, jump : Nat, reset : BOOLEAN, last : BOOLEAN,
         answered : BOOLEAN, parts : SUBSET {"name", "data"}, seen : SUBSET Key, old : BOOLEAN]

\* A search of either sends two requests for its first page, and merges their answers.
Merged(load) == EitherField /\ load.cursor = None /\ load.jump = 0

\* old: a change that is not told was made since it was sent.
Message == [do : {"add", "delete", "reload"}, key : Key, old : BOOLEAN]

\* onward: since the first page only next pages were asked for, one after the other;
\* inStep: and goToLastPage never went on while another answer was on its way;
\* tidy: next or previous ones were, nothing failed and the zone did not change; kept: in the zone
\* ever since; shown: what was on a page; pushed: what a live message took off its page,
\* or put on it though the next page begins at it or before it: others had emptied the
\* page, or the browser's order, where rows tie, is not the listing's;
\* stale: the page is older than a live message that was applied before it, or than a
\* change that was not told, or the last load failed; at: the cursor of the page.
Walk == [onward : BOOLEAN, inStep : BOOLEAN, tidy : BOOLEAN, kept : SUBSET Key,
         shown : SUBSET Key, pushed : SUBSET Key, stale : BOOLEAN, at : Cursor]

MostRows == IF EitherField THEN 2 * Size ELSE Size

PartsWithin == \A i \in DOMAIN loads :
    Merged(loads[i]) => Cardinality(loads[i].seen) <= Size * Cardinality(loads[i].parts)

\* A page has at most as many rows as its size, twice as many where two answers are merged.
TypeOK ==
    /\ listing \in {"records"} \cup Searches /\ zone \subseteq Key
    /\ page \in Page /\ Cardinality(page.items) <= MostRows
    /\ loads \in Seq(Load) /\ Len(loads) <= MaxLoads /\ PartsWithin
    /\ feed \in Seq(Message)
    /\ walk \in Walk
    /\ spent \in [clicks : 0 .. MaxClicks, changes : 0 .. MaxChanges, failures : 0 .. MaxFailures]
--------------------------------------------------------------------------------
(* The server: get_all_rrsets, search_rrsets, search_all_zones *)

Smallest(S) == CHOOSE k \in S : \A j \in S : k <= j
Largest(S)  == CHOOSE k \in S : \A j \in S : j <= k
FirstOf(S, n) == {k \in S : Cardinality({j \in S : j < k}) < n}

\* Faulty: after the cursor instead of at or after it.
AtOrAfterSkips(rrsets, c) ==
    IF c = None THEN rrsets ELSE IF c = Made THEN {} ELSE {k \in rrsets : k > c}

\* The RRsets from the cursor on.  "name:type" is compared with both, unless it begins
\* with "xn--": then all of it is taken for a name, and sorts after that name.  The
\* searches compare names only.  A made-up cursor is taken for a record name.
AtOrAfter(rrsets, c) ==
    CASE c = None -> rrsets
      [] c = Made -> {k \in rrsets : \E j \in rrsets \cap Plain : j <= k}
      [] c \in Key /\ listing = "records" /\ NameOf[c] \notin Idn -> {k \in rrsets : k >= c}
      [] c \in Key /\ listing = "records" /\ NameOf[c] \in Idn ->
            {k \in rrsets : NameOf[k] > NameOf[c]}
      [] c \in Key /\ listing # "records" -> {k \in rrsets : NameOf[k] >= NameOf[c]}

\* What a search of either finds by its pattern in the names or the data; for want of a
\* text the pattern is ".*".
Matching(part) ==
    IF listing \in Queried THEN zone \cap (IF part = "name" THEN ByName ELSE ByData) ELSE zone

\* What the one request of any other page finds: from a cursor on, a search of either looks
\* at the names only; for a page by its number the server wants both to match.
Found(load) ==
    CASE ~EitherField -> zone
      [] EitherField /\ load.jump = 0 -> Matching("name")
      [] EitherField /\ load.jump # 0 -> Matching("name") \cap Matching("data")

\* The offset, when there is one, goes before the cursor.
Asked(load) ==
    IF load.jump = 0 THEN AtOrAfter(load.seen, load.cursor)
    ELSE load.seen \ FirstOf(load.seen, (load.jump - 1) * Size)

\* Faulty: in all listings the cursor is the last RRset of this page.
NextCursorLast(items, rest) == IF rest = {} THEN None ELSE Largest(items)

\* The cursor of the next page is its first RRset; in the search of all zones it is
\* the last one of this page.
NextCursor(items, rest) ==
    IF rest = {} THEN None
    ELSE IF AllZones THEN Largest(items) ELSE Smallest(rest)
--------------------------------------------------------------------------------
(* Sending requests *)

NoLoad == [cursor |-> None, jump |-> 0, reset |-> FALSE, last |-> FALSE,
           answered |-> FALSE, parts |-> {}, seen |-> {}, old |-> FALSE]

Init ==
    /\ listing \in {"records"} \cup Searches
    /\ zone \in Zones
    /\ page = [items |-> {}, current |-> None, next |-> None, more |-> FALSE,
               total |-> 0, history |-> <<>>]
    /\ loads = <<[NoLoad EXCEPT !.reset = TRUE]>>
    /\ feed = <<>>
    /\ walk = [onward |-> FALSE, inStep |-> FALSE, tidy |-> FALSE, kept |-> {}, shown |-> {},
               pushed |-> {}, stale |-> FALSE, at |-> None]
    /\ spent = [clicks |-> 0, changes |-> 0, failures |-> 0]

\* A click: the page as it is at once, and the request; nothing waits for earlier ones.
Click(p, load, onward, tidy) ==
    /\ spent.clicks < MaxClicks /\ Len(loads) < MaxLoads
    /\ spent' = [spent EXCEPT !.clicks = @ + 1]
    /\ page' = p
    /\ loads' = Append(loads, load)
    /\ walk' = [walk EXCEPT !.onward = @ /\ onward /\ loads = <<>>,
                            !.inStep = @ /\ onward /\ loads = <<>>,
                            !.tidy = @ /\ tidy /\ loads = <<>>]
    /\ UNCHANGED <<listing, zone, feed>>

\* loadRecords takes the cursor for the current one before it is answered.
AtCursor(p, c, history) == [p EXCEPT !.current = c, !.history = history]
OnNextPage(p) == AtCursor(p, p.next, Append(p.history, p.current))

\* Faulty: the page that is left is forgotten.
GoToNextPageForgets ==
    /\ page.more /\ page.next # None
    /\ Click(AtCursor(page, page.next, Append(page.history, page.next)),
             [NoLoad EXCEPT !.cursor = page.next], TRUE, TRUE)

GoToNextPage ==
    /\ page.more /\ page.next # None
    /\ Click(OnNextPage(page), [NoLoad EXCEPT !.cursor = page.next], TRUE, TRUE)

\* goToLastPage: the next page, and so on for as long as there is one.
GoToLastPage ==
    /\ page.more /\ page.next # None
    /\ Click(OnNextPage(page), [NoLoad EXCEPT !.cursor = page.next, !.last = TRUE], TRUE, TRUE)

GoToPrevPage ==
    /\ page.history # <<>>
    /\ LET c == Last(page.history)
       IN  Click(AtCursor(page, c, Front(page.history)), [NoLoad EXCEPT !.cursor = c], FALSE, TRUE)

\* goToFirstPage, and another page size, clear the history at once as well.
GoToFirstPage ==
    Click(AtCursor(page, None, <<>>), [NoLoad EXCEPT !.reset = TRUE], FALSE, FALSE)

\* A zone is selected or refreshed, a record saved.
Reload ==
    Click(AtCursor(page, None, page.history), [NoLoad EXCEPT !.reset = TRUE], FALSE, FALSE)

\* goToRecordPage makes up a history as long as it should be.
MadeUp(n) == [page EXCEPT !.history = [i \in 1 .. n - 1 |-> Made]]

GoToRecordPage(n) ==
    /\ listing \in {"records"} \cup Queried
    /\ (n - 1) * Size < page.total
    /\ Click(MadeUp(n), [NoLoad EXCEPT !.jump = n], FALSE, FALSE)

\* A search with a type and no text: the history is made up, but nothing is sent.  Another
\* page size forgets the history in the same way.
GoToNoPage(n) ==
    /\ listing \in Searches \ Queried
    /\ (n - 1) * Size < page.total
    /\ spent.clicks < MaxClicks
    /\ spent' = [spent EXCEPT !.clicks = @ + 1]
    /\ page' = MadeUp(n)
    /\ walk' = [walk EXCEPT !.onward = FALSE, !.inStep = FALSE, !.tidy = FALSE]
    /\ UNCHANGED <<listing, zone, loads, feed>>
--------------------------------------------------------------------------------
(* Answers *)

Serve(i) ==
    /\ ~loads[i].answered /\ ~Merged(loads[i])
    /\ loads' = [loads EXCEPT ![i].answered = TRUE, ![i].seen = Found(loads[i])]
    /\ UNCHANGED <<listing, zone, page, feed, walk, spent>>

\* One of the two requests finds up to a page of RRsets, or none.
PartSeen(i, part, rrsets) ==
    /\ ~loads[i].answered /\ Merged(loads[i]) /\ part \in {"name", "data"} \ loads[i].parts
    /\ loads' = [loads EXCEPT ![i].parts = @ \cup {part}, ![i].answered = loads[i].parts # {},
                              ![i].seen = @ \cup FirstOf(rrsets, Size)]
    /\ UNCHANGED <<listing, zone, page, feed, walk>>

ServePart(i, part) ==
    /\ PartSeen(i, part, Matching(part))
    /\ UNCHANGED spent

\* An error status is taken for an answer without results.
PartFails(i, part) ==
    /\ spent.failures < MaxFailures
    /\ spent' = [spent EXCEPT !.failures = @ + 1]
    /\ PartSeen(i, part, {})

\* The rows an answer shows, and what comes after them.  A merged answer shows all of it
\* and has no next page.
Shown(load)     == IF Merged(load) THEN load.seen ELSE FirstOf(Asked(load), Size)
Remaining(load) == IF Merged(load) THEN {} ELSE Asked(load) \ Shown(load)

\* The page an answer makes of p.
Answered(p, load) ==
    LET items == Shown(load)
        rest  == Remaining(load)
    IN  [p EXCEPT !.items = items, !.next = NextCursor(items, rest), !.more = rest # {},
                  !.total = Cardinality(load.seen),
                  !.history = IF load.reset THEN <<>> ELSE @,
                  !.current = IF load.jump # 0 THEN Made ELSE @]

\* Faulty: goToLastPage does not look whether there is a next page.
OverPastTheEnd(i, p) ==
    /\ page' = p
    /\ loads' = RemoveAt(loads, i) \o (IF ~loads[i].last THEN <<>>
                    ELSE <<[loads[i] EXCEPT !.cursor = p.next, !.answered = FALSE, !.parts = {},
                                            !.seen = {}]>>)

\* The load is over; goToLastPage goes on from the page as it is then.
Over(i, p) ==
    LET rest == RemoveAt(loads, i)
    IN  IF loads[i].last /\ p.more /\ p.next # None
        THEN page' = OnNextPage(p) /\ loads' = Append(rest, [loads[i] EXCEPT
                 !.cursor = p.next, !.answered = FALSE, !.parts = {}, !.seen = {},
                 !.old = FALSE])
        ELSE page' = p /\ loads' = rest

Deliver(i) ==
    /\ loads[i].answered
    /\ LET load == loads[i]
           p == Answered(page, load)
           first == load.reset /\ page.current = None /\ Len(loads) = 1
       IN  /\ Over(i, p)
           /\ walk' = [onward |-> first \/ walk.onward,
                       inStep |-> (first \/ walk.inStep) /\ (load.last => Len(loads) = 1),
                       tidy |-> (first /\ feed = <<>> /\ zone = load.seen) \/ walk.tidy,
                       kept |-> IF first THEN zone \cap load.seen ELSE walk.kept,
                       shown |-> IF first THEN p.items ELSE walk.shown \cup p.items,
                       pushed |-> IF first THEN {}
                                  ELSE walk.pushed \cup {k \in page.items \ p.items :
                                                          load.cursor = walk.at},
                       stale |-> load.old, at |-> load.cursor]
    /\ UNCHANGED <<listing, zone, feed, spent>>

\* An error status or no answer: the page stays, although a search forgets its history
\* even then, unless the request itself failed.
LoadFails(i) ==
    /\ spent.failures < MaxFailures
    /\ spent' = [spent EXCEPT !.failures = @ + 1]
    /\ \E forget \in {FALSE} \cup {listing # "records" /\ loads[i].reset /\ ~Merged(loads[i])} :
          Over(i, IF forget THEN [page EXCEPT !.history = <<>>] ELSE page)
    /\ walk' = [walk EXCEPT !.inStep = @ /\ (loads[i].last => Len(loads) = 1),
                            !.tidy = FALSE, !.stale = TRUE]
    /\ UNCHANGED <<listing, zone, feed>>
--------------------------------------------------------------------------------
(* Changes and live messages *)

\* Answers the server has given, and messages it has sent, before a change that is not told.
Outdated(i) == [loads[i] EXCEPT !.old = @ \/ loads[i].answered]

\* An UPDATE adds to an RRset or deletes some or all of it; the message is on its way.
\* After a full transfer it says only "zone_reload".  No message comes of a silent refresh,
\* nor while the browser is not connected, which it is after the zone was first loaded.
Change(k) ==
    /\ spent.changes < MaxChanges
    /\ spent' = [spent EXCEPT !.changes = @ + 1]
    /\ \E op \in {"add", "delete"}, left \in BOOLEAN, told \in BOOLEAN :
          /\ op = "add" => left
          /\ op = "delete" => k \in zone
          /\ zone' = IF left THEN zone \cup {k} ELSE zone \ {k}
          /\ IF told
             THEN /\ \E do \in {op, "reload"} :
                        feed' = Append(feed, [do |-> do, key |-> k, old |-> FALSE])
                  /\ UNCHANGED loads
             ELSE /\ feed' = [i \in DOMAIN feed |-> [feed[i] EXCEPT !.old = TRUE]]
                  /\ loads' = [i \in DOMAIN loads |-> Outdated(i)]
          /\ walk' = [walk EXCEPT !.kept = @ \cap zone', !.tidy = FALSE, !.stale = @ \/ ~told]
    /\ UNCHANGED <<listing, page>>

\* wouldFitOnPage, in the browser's order.  Null cursors are left out of the history it is
\* told, so that the second page, too, is taken for the first.
WouldFit(k) ==
    LET first == \A j \in page.items : Rank[k] < Rank[j]
        last  == \A j \in page.items : Rank[k] > Rank[j]
        room  == Cardinality(page.items) < Size
    IN  \/ page.items = {}
        \/ ~first /\ ~last
        \/ first /\ room /\ \A i \in DOMAIN page.history : page.history[i] = None
        \/ last /\ room /\ ~page.more

\* Faulty: the page is not cut.
WithRowUncut(k) == {page.items \cup {k}}

\* The rows with k among them, without the last if they are too many.  The sort leaves k
\* after the rows that tie with it; which comes last among other ties is left open.
WithRow(k) ==
    LET rows == page.items \cup {k}
        ends == {j \in rows : \A i \in rows : Rank[i] <= Rank[j]}
    IN  IF Cardinality(rows) <= Size THEN {rows}
        ELSE {rows \ {j} : j \in IF k \in ends THEN {k} ELSE ends}

\* applyLiveOperations, for an RRset that is not on the page: the pages it may make.
LiveAdd(k) ==
    {[page EXCEPT !.items = rows, !.total = @ + 1] :
        rows \in IF WouldFit(k) THEN WithRow(k) ELSE {page.items}}

\* Faulty: a deletion only counts.
LiveDeleteCounts(k) == [page EXCEPT !.total = @ - 1]

LiveDelete(k) ==
    [page EXCEPT !.items = @ \ {k}, !.total = IF @ = 0 THEN 0 ELSE @ - 1]

\* A "zone_change" that arrives.
ZoneChange(do, k) ==
    CASE do = "add" /\ k \notin page.items   -> LiveAdd(k)
      [] do = "delete" /\ k \in page.items   -> {LiveDelete(k)}
      [] (do = "add") = (k \in page.items)    -> {page}

\* The next message; a search takes in none.  "zone_reload" loads the current page again.
LiveMessage ==
    /\ feed # <<>>
    /\ feed' = Tail(feed)
    /\ LET reload == listing = "records" /\ Head(feed).do = "reload"
           k == Head(feed).key
       IN  /\ reload => Len(loads) < MaxLoads
           /\ page' \in IF listing # "records" \/ reload THEN {page}
                         ELSE ZoneChange(Head(feed).do, k)
           /\ loads' = [i \in DOMAIN loads |-> Outdated(i)]
                         \o [i \in 1 .. IF reload THEN 1 ELSE 0 |->
                               [NoLoad EXCEPT !.cursor = page.current]]
    /\ walk' = [walk EXCEPT !.shown = @ \cup page'.items,
                            !.pushed = @ \cup (page.items \ page'.items) \cup
                                {k \in page'.items \ page.items : page.more /\ k >= page.next},
                            !.stale = @ \/ Head(feed).old]
    /\ UNCHANGED <<listing, zone, spent>>
--------------------------------------------------------------------------------
Answer == \E i \in DOMAIN loads :
              Serve(i) \/ (\E part \in {"name", "data"} : ServePart(i, part)) \/ Deliver(i)

Next ==
    \/ GoToNextPage \/ GoToLastPage \/ GoToPrevPage \/ GoToFirstPage \/ Reload
    \/ \E n \in 1 .. Cardinality(Key) : GoToRecordPage(n) \/ GoToNoPage(n)
    \/ Answer
    \/ \E i \in DOMAIN loads :
          LoadFails(i) \/ \E part \in {"name", "data"} : PartFails(i, part)
    \/ \E k \in Key : Change(k)
    \/ LiveMessage

Spec == Init /\ [][Next]_vars

\* Requests are served and answers arrive.
FairSpec == Spec /\ WF_vars(Answer) /\ WF_vars(LiveMessage)
--------------------------------------------------------------------------------
(* Properties *)

\* Paging onward through the RRsets of a zone, or through a search of names or of data,
\* shows everything: an RRset that was in the zone ever since the first page is on one of
\* the pages, or is still to come, however the zone changes between two pages, and whatever
\* live messages do to the table.  A search of either, the default, is left out: it shows a
\* page of each of its two answers, calls that the total, and has no next page.
NothingSkipped ==
    walk.onward /\ loads = <<>> /\ ~EitherField =>
        \A k \in walk.kept \ walk.shown :
            page.more /\ k \in AtOrAfter(zone, page.next)

\* Paging onward through the RRsets of a zone shows no row on two pages, unless a live
\* message pushed it off the first of them, or had put it there although the next page
\* begins at it or before it: wouldFitOnPage knows neither the next page nor the order
\* of the listing, takes any row into a page that others emptied, and any at the name of
\* one of its rows.  When goToLastPage goes on before a page that was loaded again has
\* arrived, that page comes after the next one, so such walks are left out.
NothingRepeated ==
    [][\A i \in DOMAIN loads :
          Deliver(i) /\ listing = "records" /\ walk.inStep /\ Idn = {}
              /\ loads[i].cursor \notin {None, walk.at}
          => Answered(page, loads[i]).items \cap walk.shown \subseteq walk.pushed]_vars

\* Going back and forth in a zone that does not change, the rows are those of the page
\* whose number is shown.
PageNumberIsRight ==
    walk.tidy /\ loads = <<>> /\ listing = "records" /\ Idn = {} =>
        page.items = FirstOf(zone \ FirstOf(zone, Len(page.history) * Size), Size)

\* Once everything on the way has arrived, each row of the table exists: a live message
\* is not undone by what was loaded before it, unless its answer was overtaken by it.  A
\* table that a change was not told to, for want of a connection or since the refresh that
\* found it was silent, is right again only when it is next loaded.
RowsExist ==
    loads = <<>> /\ feed = <<>> /\ listing = "records" /\ ~walk.stale
        => page.items \subseteq zone

\* goToLastPage comes to an end, also when some of its requests fail, if no name has as
\* many RRsets as fit on a page.
LastPageReached == []<>(\A i \in DOMAIN loads : ~loads[i].last)
================================================================================
