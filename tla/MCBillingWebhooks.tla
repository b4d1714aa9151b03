------------------------- MODULE MCBillingWebhooks -------------------------
(***************************************************************************)
(* Instances of BillingWebhooks for TLC: two events are enough for one to  *)
(* overtake the other, two runs for both, or one of them twice, to be at   *)
(* work.                                                                   *)
(***************************************************************************)
EXTENDS BillingWebhooks

CONSTANTS d1, r1, r2

OneDelivery == {d1}
TwoRuns == {r1, r2}

\* A handler with no guard and two that write a status.
ThreeKinds == {"checkout", "past_due", "canceled"}

=============================================================================
