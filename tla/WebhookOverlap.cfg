\* Deliveries overlap and raise; the gateway delivers again.
SPECIFICATION FairSpec
CONSTANTS
  activated = activated  paid = paid  paidAgain = paidAgain  declined = declined
  p1 = p1  p2 = p2
  t1 = t1  t2 = t2
  Events = {activated, paid, paidAgain}
  Payments = {p1, p2}
  KindOf <- MCKindOf
  PayOf <- MCPayOf
  Unset = Unset
  Tasks = {t1, t2}
  MaxOverlaps = 2
  MaxRaises = 1
  MaxLosses = 0
INVARIANTS
  UniquePayment
  AppliedOnce
  AnsweredIsProcessed
PROPERTIES
  EventuallyProcessed
