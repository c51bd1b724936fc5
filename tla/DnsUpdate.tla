------------------------------- MODULE DnsUpdate -------------------------------
(***************************************************************************)
(* DNS UPDATE messages: the ones the code builds, and what a server makes  *)
(* of them.  A zone is the set of its records, <<name, type, rdata>>;      *)
(* TTLs, classes, SOA and DNSSEC records are left out.                     *)
(***************************************************************************)
EXTENDS Integers, FiniteSets, SequencesExt

CONSTANTS
    Name, Type, Record,
    Records,           \* the resource records there can be
    CNAME,             \* the type that stands alone at its name
    Protected          \* the RRsets no server lets go and no rollback touches (apex NS)

\* The apex, whose RRsets are the protected ones, never has a CNAME.
ASSUME UpdateAssumption ==
    /\ CNAME \in Type /\ Records \subseteq Name \X Type \X Record /\ IsFiniteSet(Records)
    /\ Protected \subseteq Name \X Type
    /\ \A x \in Protected, r \in Record : <<x[1], CNAME, r>> \notin Records

RRsetOf(zone, n, t) == {r \in Record : <<n, t, r>> \in zone}
TypesAt(zone, n) == {t \in Type : RRsetOf(zone, n, t) # {}}
RRs(n, t, data) == {<<n, t, r>> : r \in data}

\* conflicting_types_for_add
Conflicting(types, adding) == IF adding = CNAME THEN types \ {CNAME} ELSE types \cap {CNAME}

\* What a server's zone can hold.
Owner == {<<rr[1], rr[2]>> : rr \in Records}
Contents == {zone \in SUBSET Records :
                \A n \in Name : /\ \A r, s \in RRsetOf(zone, n, CNAME) : r = s
                                /\ CNAME \in TypesAt(zone, n) => TypesAt(zone, n) = {CNAME}}
--------------------------------------------------------------------------------
(* The server (RFC 2136) *)

\* Prerequisites; "exact" is the value-dependent one, all of its records together.
NxDomain(n) == [kind |-> "nxdomain", name |-> n]
YxDomain(n) == [kind |-> "yxdomain", name |-> n]
NxRRset(n, t) == [kind |-> "nxrrset", name |-> n, type |-> t]
YxRRset(n, t) == [kind |-> "yxrrset", name |-> n, type |-> t]
Exact(n, t, data) == [kind |-> "exact", name |-> n, type |-> t, data |-> data]

Prerequisite ==
    [kind : {"nxdomain", "yxdomain"}, name : Name]
    \cup [kind : {"nxrrset", "yxrrset"}, name : Name, type : Type]
    \cup [kind : {"exact"}, name : Name, type : Type, data : SUBSET Record]

Holds(p, zone) ==
    CASE p.kind = "nxdomain" -> TypesAt(zone, p.name) = {}
      [] p.kind = "yxdomain" -> TypesAt(zone, p.name) # {}
      [] p.kind = "nxrrset"  -> RRsetOf(zone, p.name, p.type) = {}
      [] p.kind = "yxrrset"  -> RRsetOf(zone, p.name, p.type) # {}
      [] p.kind = "exact"    -> RRsetOf(zone, p.name, p.type) = p.data

\* The update section.
AddRRs(n, t, data) == [do |-> "add", name |-> n, type |-> t, data |-> data]
DeleteRRs(n, t, data) == [do |-> "remove", name |-> n, type |-> t, data |-> data]
DeleteRRset(n, t) == [do |-> "drop", name |-> n, type |-> t]
DeleteName(n) == [do |-> "clear", name |-> n]

\* The updates there can be: an add is of records there can be, a deletion of records
\* names some.
Update ==
    {u \in [do : {"add", "remove"}, name : Name, type : Type, data : SUBSET Record] :
        /\ u.data # {}
        /\ u.do = "add" => /\ RRs(u.name, u.type, u.data) \subseteq Records
                           /\ u.type = CNAME => \A r, s \in u.data : r = s}
    \cup [do : {"drop"}, name : Name, type : Type] \cup [do : {"clear"}, name : Name]

\* The last record of a protected RRset stays.  (The records of an update are a set here;
\* in a message the one that comes last is the one that stays.)
LastOf(zone, u) ==
    LET there == RRsetOf(zone, u.name, u.type)
    IN  IF <<u.name, u.type>> \in Protected /\ there # {} /\ there \subseteq u.data
        THEN {<<u.name, u.type, CHOOSE r \in there : TRUE>>} ELSE {}

\* An add that would break the CNAME rule is ignored, silently; a CNAME replaces
\* the one that is there.  Ignored as silently is what would delete all of a protected
\* RRset (RFC 2136, 3.4.2.3 and 3.4.2.4).
Carried(zone, u) ==
    CASE u.do = "add" /\ Conflicting(TypesAt(zone, u.name), u.type) # {} -> zone
      [] u.do = "add" /\ Conflicting(TypesAt(zone, u.name), u.type) = {} ->
            (IF u.type = CNAME THEN zone \ RRs(u.name, CNAME, Record) ELSE zone)
                \cup RRs(u.name, u.type, u.data)
      [] u.do = "remove" -> zone \ (RRs(u.name, u.type, u.data) \ LastOf(zone, u))
      [] u.do = "drop"   ->
            IF <<u.name, u.type>> \in Protected THEN zone ELSE zone \ RRs(u.name, u.type, Record)
      [] u.do = "clear"  ->
            zone \ {rr \in zone : rr[1] = u.name /\ <<rr[1], rr[2]>> \notin Protected}

\* A message: its prerequisites, then its updates, all or nothing.
Message == [pre : SUBSET Prerequisite, ups : Seq(Update) \ {<<>>}]
Accepts(zone, msg) == \A p \in msg.pre : Holds(p, zone)
Result(zone, msg) == FoldLeft(Carried, zone, msg.ups)
--------------------------------------------------------------------------------
(* The messages of the DNS client.  An operation is an AtomicOperation; the data  *)
(* of a delete may be empty, listed or not, and then means the whole RRset.       *)

\* Faulty: the RRset must be absent, and that is all.
PrepareAddUntyped(o) ==
    [pre |-> {NxRRset(o.name, o.type)}, ups |-> <<AddRRs(o.name, o.type, o.data)>>]

\* _prepare_add_rrset
PrepareAdd(o) ==
    [pre |-> IF o.type = CNAME THEN {NxDomain(o.name)}
             ELSE {NxRRset(o.name, o.type), NxRRset(o.name, CNAME)},
     ups |-> <<AddRRs(o.name, o.type, o.data)>>]

\* The RRset as it is expected, or, when nothing is expected, any.
Expecting(n, t, data) == IF data = {} THEN YxRRset(n, t) ELSE Exact(n, t, data)

Deleted(o) == IF o.data = {} THEN DeleteRRset(o.name, o.type) ELSE DeleteRRs(o.name, o.type, o.data)

PrepareDelete(o, expected) ==
    [pre |-> {Expecting(o.name, o.type, expected)}, ups |-> <<Deleted(o)>>]

\* Faulty: any RRset will do.
PrepareReplaceAny(o, expected) ==
    [pre |-> {YxRRset(o.name, o.type)},
     ups |-> <<DeleteRRset(o.name, o.type), AddRRs(o.name, o.type, o.data)>>]

PrepareReplace(o, expected) ==
    [pre |-> {Expecting(o.name, o.type, expected)},
     ups |-> <<DeleteRRset(o.name, o.type), AddRRs(o.name, o.type, o.data)>>]

\* What the cache makes of an operation: update_rrset for an add and a replace;
\* delete_rrset deletes all records only when none were listed.
Cached(view, o) ==
    CASE o.action # "delete" ->
            (view \ RRs(o.name, o.type, Record)) \cup RRs(o.name, o.type, o.data)
      [] o.action = "delete" /\ o.listed -> view \ RRs(o.name, o.type, o.data)
      [] o.action = "delete" /\ ~o.listed -> view \ RRs(o.name, o.type, Record)
--------------------------------------------------------------------------------
(* Messages of several operations: build_update, nsupdate transactions, drafts *)

\* simulate_cname_exclusivity: which types are at which names before the i-th update.
\* (A delete of some records counts as one of the RRset.)
Simulated(types, ups, i) ==
    LET step(at, u) ==
            CASE u.do = "add" -> at \cup {<<u.name, u.type>>}
              [] u.do \in {"remove", "drop"} -> at \ {<<u.name, u.type>>}
              [] u.do = "clear" -> {x \in at : x[1] # u.name}
    IN  FoldLeft(step, types, SubSeq(ups, 1, i - 1))

CnameConflict(view, ups) ==
    LET types == {<<rr[1], rr[2]>> : rr \in view}
    IN  \E i \in DOMAIN ups :
            /\ ups[i].do = "add"
            /\ Conflicting({x[2] : x \in {y \in Simulated(types, ups, i) : y[1] = ups[i].name}},
                           ups[i].type) # {}

UpdatesOf(o) ==
    CASE o.action = "add"     -> <<AddRRs(o.name, o.type, o.data)>>
      [] o.action = "delete"  -> <<Deleted(o)>>
      [] o.action = "replace" -> <<DeleteRRset(o.name, o.type), AddRRs(o.name, o.type, o.data)>>

\* The automatic prerequisites of one operation of several: never that a name is
\* unused, since a delete of the same message may clear it.
AutoPrerequisites(o, view, ops) ==
    LET deletesCname == \E i \in DOMAIN ops :
            ops[i].action = "delete" /\ ops[i].name = o.name /\ ops[i].type = CNAME
    IN  IF o.action # "add" THEN {Expecting(o.name, o.type, RRsetOf(view, o.name, o.type))}
        ELSE {NxRRset(o.name, o.type)} \cup
             (IF o.type = CNAME \/ deletesCname THEN {} ELSE {NxRRset(o.name, CNAME)})

\* build_update with auto_prerequisites.
BuildUpdate(ops, view) ==
    [pre |-> UNION {AutoPrerequisites(ops[i], view, ops) : i \in DOMAIN ops},
     ups |-> FlattenSeq([i \in DOMAIN ops |-> UpdatesOf(ops[i])])]

\* UpdateBuildError: the cache contradicts an operation, or has a CNAME conflict.
BuildError(ops, view) ==
    \/ CnameConflict(view, BuildUpdate(ops, view).ups)
    \/ \E i \in DOMAIN ops :
          (ops[i].action = "add") # (RRsetOf(view, ops[i].name, ops[i].type) = {})

\* Faulty: adds of one RRset are merged wherever they are in the transaction.
OpsToAtomicAnywhere(ups) ==
    LET same(o, u) == o.action = "add" /\ o.name = u.name /\ o.type = u.type
        step(ops, u) ==
            IF u.do = "add" /\ \E i \in DOMAIN ops : same(ops[i], u)
            THEN [ops EXCEPT ![CHOOSE i \in DOMAIN ops : same(ops[i], u)].data = @ \cup u.data]
            ELSE Append(ops, [action |-> IF u.do = "add" THEN "add" ELSE "delete",
                              name |-> u.name, type |-> u.type,
                              data |-> IF u.do = "drop" THEN {} ELSE u.data,
                              listed |-> u.do # "drop"])
    IN  FoldLeft(step, <<>>, ups)

\* _ops_to_atomic: an nsupdate transaction as the operations of a draft; consecutive
\* adds of one RRset are one.  (A delete of a whole name is refused.)
OpsToAtomic(ups) ==
    LET step(ops, u) ==
            IF u.do = "add" /\ ops # <<>> /\ Last(ops).action = "add"
                /\ Last(ops).name = u.name /\ Last(ops).type = u.type
            THEN [ops EXCEPT ![Len(ops)].data = @ \cup u.data]
            ELSE Append(ops, [action |-> IF u.do = "add" THEN "add" ELSE "delete",
                              name |-> u.name, type |-> u.type,
                              data |-> IF u.do = "drop" THEN {} ELSE u.data,
                              listed |-> u.do # "drop"])
    IN  FoldLeft(step, <<>>, ups)

\* The UPDATE of a draft: the transaction's prerequisites, or the automatic ones.
DraftUpdate(msg, view) ==
    LET built == BuildUpdate(OpsToAtomic(msg.ups), view)
    IN  IF msg.pre = {} THEN built ELSE [built EXCEPT !.pre = msg.pre]
--------------------------------------------------------------------------------
(* Rollback, and serial numbers (RFC 1982) *)

\* The records of a batch as updates, protected ones left out.
EachAs(do, rrs) ==
    SetToSeq({[do |-> do, name |-> rr[1], type |-> rr[2], data |-> {rr[3]}] :
                 rr \in {x \in rrs : <<x[1], x[2]>> \notin Protected}})

\* Faulty: the batches in the order in which they were made.
ReverseOldestFirst(history, from, upto) ==
    FlattenSeq([k \in 1 .. upto - from |->
        LET before == history[from + k - 1]
            after  == history[from + k]
        IN  EachAs("remove", after \ before) \o EachAs("add", before \ after)])

\* _reverse_changes: the batches from the newest to the oldest, in each first the
\* additions, which are deleted, then the deletions, which are added.
ReverseChanges(history, from, upto) ==
    FlattenSeq([k \in 1 .. upto - from |->
        LET before == history[upto - k]
            after  == history[upto - k + 1]
        IN  EachAs("remove", after \ before) \o EachAs("add", before \ after)])

\* serial_lt, with serial numbers modulo 2 * half (half is 2^31 in the code).
SerialLt(s1, s2, half) ==
    LET diff == (s2 - s1) % (2 * half)
    IN  0 < diff /\ diff < half
================================================================================
