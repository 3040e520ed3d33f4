\* A handler may overlap another and one may fail half way; a subscription and
\* a one-time order.  The worker makes progress beside them.
SPECIFICATION FairSpec
CONSTANTS
  s1 = s1  s2 = s2  o1 = o1
  personal = personal  power = power
  Subs = {s1}
  Orders = {o1}
  Tasks = {t1}
  Worker = worker
  OfferOf <- MCOfferOf
  Free = free
  Unset = Unset
  Period = 1
  Grace = 1
  MaxTime = 1
  MaxCharges = 1
  MaxOverlaps = 1
  MaxFaults = 1
INVARIANTS
  NoEarlyBlock
PROPERTIES
  LapsedIsSettled
\* The clock, the charges and the subscriptions are bounded: behaviours end.
CHECK_DEADLOCK FALSE
