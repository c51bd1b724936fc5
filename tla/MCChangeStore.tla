----------------------------- MODULE MCChangeStore -----------------------------
(* Instances of ChangeStore for TLC: one and two changes, any caller. *)
EXTENDS ChangeStore, TLC

\* The changes are interchangeable, and so are the operations.
Symmetry == Permutations(Change) \cup Permutations(Op)

AllPurgeable == {"applied", "failed", "cancelled", "expired", "reverted"}
================================================================================
