------------------------------ MODULE MCZoneCache ------------------------------
(* Instances of ZoneCache for TLC: one zone that changes, with two records; and  *)
(* a small one beside it that competes for room.                                 *)
EXTENDS ZoneCache, TLC

CONSTANTS z1, z2, a, b

\* z1 changes, z2 does not.
TwoChanges == [z \in Zone |-> IF z = z1 THEN 3 ELSE 1]
OneChange  == [z \in Zone |-> 2]

\* One record is there and one is not (adding and deleting are the same but for sizes).
OneThere == {{a}}
AnyStart == SUBSET Record

Symmetry == Permutations(Record)
================================================================================
