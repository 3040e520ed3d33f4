-------------------------- MODULE MCBillingLifecycle --------------------------
(* Subscriptions and an order for different offers.                           *)
EXTENDS BillingLifecycle, TLC

CONSTANTS s1, s2, o1, personal, power

MCOfferOf == [i \in Items |-> IF i = s2 THEN power ELSE personal]

\* Tasks do not differ, nor do two subscriptions for different offers, as long as
\* their offers change places with them.
Swap == (s1 :> s2 @@ s2 :> s1 @@ personal :> power @@ power :> personal)
HandlerSymmetry == Permutations(Tasks) \cup {Swap}

(* In one history the gateway charges, or a handler begins while another one  *)
(* runs; both at once are BillingFaults.                                      *)
MayBegin == Quiet \/ charges = 0

SplitNext ==
  \/ MayBegin /\ (StartExpiry \/ \E t \in Tasks : Start(t))
  \/ WorkerStep \/ \E t \in Tasks : Step(t)
  \/ \E t \in Procs : Abort(t)
  \/ Environment /\ (overlaps = 0 \/ charges' = charges)
  \/ Tick

SplitSpec == Init /\ [][SplitNext]_vars
===============================================================================
