-------------------------- MODULE MCWebhookPipeline --------------------------
(* An activation that names no payment, two reports of one payment, a failure. *)
EXTENDS WebhookPipeline

CONSTANTS activated, paid, paidAgain, declined, p1, p2, t1, t2

MCKindOf == [e \in Events |-> IF e = declined THEN "failed" ELSE "paid"]
MCPayOf ==
  [e \in Events |-> CASE e = activated -> Unset
                      [] e = declined -> p2
                      [] OTHER -> p1]
===============================================================================
