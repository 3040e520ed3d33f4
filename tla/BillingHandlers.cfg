\* Two subscriptions without failures: handlers one at a time and charges, or no
\* charges and a handler that begins while another runs.
SPECIFICATION SplitSpec
CONSTANTS
  s1 = s1  s2 = s2  o1 = o1
  personal = personal  power = power
  Subs = {s1, s2}
  Orders = {}
  Tasks = {t1, t2}
  Worker = worker
  OfferOf <- MCOfferOf
  Free = free
  Unset = Unset
  Period = 1
  Grace = 1
  MaxTime = 1
  MaxCharges = 2
  MaxOverlaps = 1
  MaxFaults = 0
INVARIANTS
  TypeOK
  EntitlementFollowsPayer
  UserMirrorsEntitlement
  ChargedMandateIsKnown
  OneActiveSubscription
  NoChargeableMandateLeft
PROPERTIES
  GraceIsNotExtended
SYMMETRY HandlerSymmetry
\* The clock, the charges and the subscriptions are bounded: behaviours end.
CHECK_DEADLOCK FALSE
