------------------------------- MODULE MCWebhooks -------------------------------
(* An instance of Webhooks for TLC: three changes, one of them of the scheduler,  *)
(* and two targets, the second for some of them only.                             *)
EXTENDS Webhooks, TLC

CONSTANTS e1, e2, e3

SomeMatches == (e1 :> {1, 2}) @@ (e2 :> {1}) @@ (e3 :> {1, 2})
================================================================================
