\* What an upgrade leaves the subscriber with.
SPECIFICATION Spec
CONSTANTS
  s1 = s1  s2 = s2  o1 = o1
  personal = personal  power = power
  Subs = {s1, s2}
  Orders = {}
  Tasks = {t1}
  Worker = worker
  OfferOf <- MCOfferOf
  Free = free
  Unset = Unset
  Period = 1
  Grace = 1
  MaxTime = 1
  MaxCharges = 0
  MaxOverlaps = 0
  MaxFaults = 0
INVARIANTS
  UpgradeHasNoDowntime
\* The clock, the charges and the subscriptions are bounded: behaviours end.
CHECK_DEADLOCK FALSE
