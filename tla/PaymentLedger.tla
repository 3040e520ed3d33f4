---------------------------- MODULE PaymentLedger ----------------------------
(***************************************************************************)
(* What the transactions of one subscription promise, whatever webhooks    *)
(* report: a payment is booked at most once, with what became of it, and a *)
(* booking is never taken back; the opening payment, booked as pending     *)
(* when the subscription is created, is settled at most once.              *)
(***************************************************************************)
CONSTANTS
  Payments,  \* payment ids the gateway has given out
  Outcome    \* what became of each: "success" or "failed"

VARIABLES
  opening,   \* the initial payment
  booked     \* payments that have a transaction, and its status

Init ==
  /\ opening \in {"none", "pending"}
  /\ booked = [p \in Payments |-> "none"]

Book(p) ==
  /\ booked[p] = "none"
  /\ booked' = [booked EXCEPT ![p] = Outcome[p]]

\* The opening payment is settled, often by a webhook that names no payment.
Settle(out) ==
  /\ opening = "pending" /\ opening' = out
  /\ \/ UNCHANGED booked
     \/ \E p \in Payments : Outcome[p] = out /\ Book(p)

Renew(p) == Book(p) /\ UNCHANGED opening

Next ==
  \/ \E out \in {"success", "failed"} : Settle(out)
  \/ \E p \in Payments : Renew(p)

Spec == Init /\ [][Next]_<<opening, booked>>
===============================================================================
