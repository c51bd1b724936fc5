------------------------------- MODULE RRsetOps -------------------------------
(***************************************************************************)
(* What one operation of a change does to its RRset, what its automatic    *)
(* prerequisite demands, and what the inverse operations of a revert do.   *)
(* An RRset is the set of its records; {} is an RRset that is absent (the  *)
(* code's None).  TTLs are left out.  The apex NS, which a server does not *)
(* let go (see DnsUpdate), is not such an RRset.                           *)
(***************************************************************************)
CONSTANT Record        \* the record values an RRset can hold

RRset == SUBSET Record

\* AtomicOperation plus the change's auto_prerequisites flag.  The routers
\* refuse an add or a replace that brings no record.
Operation == {o \in [action : {"add", "delete", "replace"}, data : RRset, auto : BOOLEAN] :
                 o.action # "delete" => o.data # {}}

\* Faulty: only a replace keeps the prior records.
SnapshotOfReplace(op, rrset) == IF op.action = "replace" THEN rrset ELSE {}

\* capture_prior_state: an add stores no prior records, only the snapshot mark.
SnapshotOf(op, rrset) == IF op.action = "add" THEN {} ELSE rrset

\* The prerequisites build_update derives from the cached RRset "view", as the
\* server judges them against "rrset": RRset absent for an add; every cached
\* record listed, hence an exact match (RFC 2136, 3.2.3), for a delete or a
\* replace; only "the RRset exists" when the cache holds none.
PrereqHolds(op, view, rrset) ==
    op.auto =>
        CASE op.action = "add" -> rrset = {}
          [] op.action # "add" /\ view # {} -> rrset = view
          [] OTHER -> rrset # {}

\* The update section build_update writes, applied by the server.
Effect(op, rrset) ==
    CASE op.action = "add"     -> rrset \cup op.data
      [] op.action = "delete"  -> IF op.data = {} THEN {} ELSE rrset \ op.data
      [] op.action = "replace" -> op.data

\* Faulty: the records a replace wrote are left in place.
RevertDeletesAdded(op) == IF op.action = "add" THEN op.data ELSE {}

\* build_revert_operations: the records the inverse UPDATE deletes, then adds.
RevertDeletes(op) == IF op.action = "delete" THEN {} ELSE op.data
RevertAdds(op, prior) == IF op.action = "add" THEN {} ELSE prior

\* An empty inverse is recorded without sending anything.
NothingToRevert(op, prior) == RevertDeletes(op) = {} /\ RevertAdds(op, prior) = {}

RevertEffect(op, prior, rrset) == (rrset \ RevertDeletes(op)) \cup RevertAdds(op, prior)

\* What the zone cache makes of it: the add at the end replaces the cached RRset.
RevertCached(op, prior, rrset) ==
    IF RevertAdds(op, prior) # {} THEN prior ELSE rrset \ RevertDeletes(op)
===============================================================================
