------------------------- MODULE MCWebhookEndpoints -------------------------
(***************************************************************************)
(* Instances of WebhookEndpoints for TLC: two deliveries, so that one can  *)
(* be a redelivery of the other and both can fail, and two runs, for both  *)
(* of them or for one whose job has stalled.                               *)
(***************************************************************************)
EXTENDS WebhookEndpoints, TLC

CONSTANTS d1, d2, r1, r2

TwoDeliveries == {d1, d2}
OneRun == {r1}
TwoRuns == {r1, r2}
AllCommands == {"enable", "disable", "delete"}
LockCommands == {"enable", "delete"}

Symmetry == Permutations(TwoDeliveries) \cup Permutations(TwoRuns)

=============================================================================
