\* What a retried event books.
SPECIFICATION Spec
CONSTANTS
  activated = activated  paid = paid  paidAgain = paidAgain  declined = declined
  p1 = p1  p2 = p2
  t1 = t1  t2 = t2
  Events = {activated}
  Payments = {p1, p2}
  KindOf <- MCKindOf
  PayOf <- MCPayOf
  Unset = Unset
  Tasks = {t1}
  MaxOverlaps = 0
  MaxRaises = 1
  MaxLosses = 0
INVARIANTS
  OneBookingPerEvent
