\* When a cancellation takes effect.
SPECIFICATION Spec
CONSTANTS
  s1 = s1  s2 = s2  o1 = o1
  personal = personal  power = power
  Subs = {s1}
  Orders = {}
  Tasks = {t1}
  Worker = worker
  OfferOf <- MCOfferOf
  Free = free
  Unset = Unset
  Period = 2
  Grace = 1
  MaxTime = 2
  MaxCharges = 0
  MaxOverlaps = 0
  MaxFaults = 0
PROPERTIES
  CancelsAtPeriodEnd
\* The clock, the charges and the subscriptions are bounded: behaviours end.
CHECK_DEADLOCK FALSE
