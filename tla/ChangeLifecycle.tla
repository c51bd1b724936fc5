---------------------------- MODULE ChangeLifecycle ----------------------------
(***************************************************************************)
(* What the scheduler promises about a change, with no clock, lease, row   *)
(* or DNS: its status, and the one loop or request that executes it.       *)
(* While a change is held only its holder decides what becomes of it; a    *)
(* holder that dies leaves it running, for another to take.                *)
(* Scheduler.tla implements this (Implements there).                       *)
(***************************************************************************)
CONSTANTS Change, Exec, Nobody

VARIABLES status, holder

lifecycleVars == <<status, holder>>

Pending == {"draft", "scheduled", "failed"}
Ended == {"applied", "failed", "cancelled", "expired", "reverted"}

Held(c) == holder[c] # Nobody
Busy(e) == \E c \in Change : holder[c] = e

\* The changes of S, none of them held, get status s.
Become(S, s) ==
    /\ \A c \in S : ~Held(c)
    /\ status' = [c \in Change |-> IF c \in S THEN s ELSE status[c]]

Init ==
    /\ status = [c \in Change |-> "absent"]
    /\ holder = [c \in Change |-> Nobody]

Submit(c) ==
    /\ status[c] = "absent"
    /\ \E s \in {"draft", "scheduled", "applied", "failed"} : Become({c}, s)
    /\ UNCHANGED holder

Edit(c) ==
    /\ status[c] \in Pending
    /\ \E s \in {"draft", "scheduled", "cancelled"} : Become({c}, s)
    /\ UNCHANGED holder

Scheduled == {c \in Change : status[c] = "scheduled"}

Expire(S) ==
    /\ S \subseteq Scheduled
    /\ Become(S, "expired")
    /\ UNCHANGED holder

\* e takes up c; overdue changes S expire on the way.
Acquire(e, c, S) ==
    /\ ~Busy(e) /\ ~Held(c)
    /\ status[c] \in Pending \cup {"running"}
    /\ S \subseteq Scheduled \ {c} /\ \A d \in S : ~Held(d)
    /\ status' = [d \in Change |-> IF d = c THEN "running"
                                   ELSE IF d \in S THEN "expired" ELSE status[d]]
    /\ holder' = [holder EXCEPT ![c] = e]

\* The holder records the outcome: done, to be retried, or given up.
Conclude(e, c) ==
    /\ holder[c] = e
    /\ \E s \in {"applied", "scheduled", "failed"} : status' = [status EXCEPT ![c] = s]
    /\ holder' = [holder EXCEPT ![c] = Nobody]

\* Holders die, or cannot record the outcome.
Drop(S) ==
    /\ holder' = [c \in Change |-> IF holder[c] \in S THEN Nobody ELSE holder[c]]
    /\ UNCHANGED status

Revert(c) == status[c] = "applied" /\ Become({c}, "reverted") /\ UNCHANGED holder

Forget(S) ==
    /\ \A c \in S : status[c] \in Ended
    /\ Become(S, "purged")
    /\ UNCHANGED holder

Next ==
    \/ \E c \in Change : Submit(c) \/ Edit(c) \/ Revert(c)
    \/ \E S \in SUBSET Change : Expire(S) \/ Forget(S)
    \/ \E e \in Exec, c \in Change, S \in SUBSET Change : Acquire(e, c, S)
    \/ \E e \in Exec, c \in Change : Conclude(e, c)
    \/ \E S \in SUBSET Exec : Drop(S)

Spec == Init /\ [][Next]_lifecycleVars
================================================================================
