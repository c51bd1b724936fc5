----------------------------- MODULE MCLiveUpdates -----------------------------
(* An instance of LiveUpdates for TLC: a zone, two browsers that watch it and    *)
(* one that watches all zones, two of them at one address.                       *)
EXTENDS LiveUpdates, TLC

CONSTANTS z1, s1, s2, s3, i1, i2

Wanted    == (s1 :> z1) @@ (s2 :> z1) @@ (s3 :> All)
Addresses == (s1 :> i1) @@ (s2 :> i2) @@ (s3 :> i1)

\* A write, or two, among subscribers that come and go; or changes by others and NOTIFYs.
SomeBudgets ==
    {[changes |-> 0, writes |-> 1, notifies |-> 0, mishaps |-> 1, sockets |-> {s1, s2, s3}],
     [changes |-> 0, writes |-> 2, notifies |-> 0, mishaps |-> 1, sockets |-> {s1, s2}],
     [changes |-> 2, writes |-> 1, notifies |-> 2, mishaps |-> 1, sockets |-> {s3}]}
================================================================================
