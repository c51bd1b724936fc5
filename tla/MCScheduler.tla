------------------------------ MODULE MCScheduler ------------------------------
(* Instances of Scheduler for TLC. *)
EXTENDS Scheduler, TLC

CONSTANTS c1, c2, k1, k2, r1, r2

OneTarget == [c \in Change |-> k1]
OwnTarget == (c1 :> k1) @@ (c2 :> k2)

Ops(actions, datas, autos) ==
    {o \in Operation : o.action \in actions /\ o.data \in datas /\ o.auto \in autos}

AddOp == Ops({"add"}, {{r1}}, {TRUE})
ReplaceOps == Ops({"replace"}, {{r1}, {r2}}, {TRUE})
ReplaceOp == Ops({"replace"}, {{r1}}, {TRUE})
AllOps == Ops({"add", "replace", "delete"}, {{}, {r1}}, BOOLEAN)

AllPurgeable == {"applied", "failed", "cancelled", "expired", "reverted"}
================================================================================
