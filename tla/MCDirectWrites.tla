---------------------------- MODULE MCDirectWrites ----------------------------
(* An instance of DirectWrites for TLC: a name with an address RRset or a CNAME, and *)
(* the name servers of the zone.                                                 *)
EXTENDS DirectWrites

CONSTANTS n, apex, A, NS, r1, r2

SomeRecords == ({n} \X {A} \X Record) \cup {<<n, CNAME, r1>>, <<apex, NS, r1>>}
AnAddress == {{<<n, A, r1>>, <<apex, NS, r1>>}}
ApexNs == {<<apex, NS>>}
Lists == {<<n>>}

OneOp(action, t, data) == Operation(action, n, t, data)

\* A CNAME replaced by an address and the reverse, an add alone, a delete and an add
\* in the wrong order, an RRset added in two parts, one made smaller, and the name server
\* deleted, as an RRset or as a record, along with a write of the address.
SomeBatches ==
    {<<OneOp("delete", CNAME, {}), OneOp("add", A, {r1})>>,
     <<OneOp("delete", A, {r1}), OneOp("add", CNAME, {r1})>>,
     <<OneOp("add", A, {r1, r2})>>,
     <<OneOp("add", A, {r1}), OneOp("delete", CNAME, {})>>,
     <<OneOp("add", A, {r1}), OneOp("add", A, {r2})>>,
     <<OneOp("replace", A, {r2})>>,
     <<Operation("delete", apex, NS, {}), OneOp("add", A, {r1})>>,
     <<Operation("delete", apex, NS, {r1}), OneOp("delete", A, {r1})>>}

\* A transaction with a prerequisite, then one that clears the name and starts anew;
\* a replacement record by record; an address exchanged for a CNAME and back; and the
\* name of the zone cleared and given a name server.
SomeScripts ==
    {<<[pre |-> {YxRRset(n, A)}, ups |-> <<DeleteRRset(n, A), AddRRs(n, A, {r2})>>],
       [pre |-> {YxDomain(n)}, ups |-> <<DeleteName(n), AddRRs(n, CNAME, {r1})>>]>>,
     <<[pre |-> {}, ups |-> <<AddRRs(n, A, {r1}), AddRRs(n, A, {r2})>>],
       [pre |-> {YxDomain(n)},
        ups |-> <<AddRRs(n, A, {r1}), DeleteRRset(n, A), AddRRs(n, A, {r2})>>]>>,
     <<[pre |-> {}, ups |-> <<DeleteRRs(n, A, {r1}), AddRRs(n, CNAME, {r1})>>]>>,
     <<[pre |-> {}, ups |-> <<DeleteName(apex), AddRRs(apex, NS, {r1})>>]>>}
================================================================================
