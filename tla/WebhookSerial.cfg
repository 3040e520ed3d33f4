\* One delivery at a time; handlers raise and die.
SPECIFICATION Spec
CONSTANTS
  activated = activated  paid = paid  paidAgain = paidAgain  declined = declined
  p1 = p1  p2 = p2
  t1 = t1  t2 = t2
  Events = {activated, paid, paidAgain, declined}
  Payments = {p1, p2}
  KindOf <- MCKindOf
  PayOf <- MCPayOf
  Unset = Unset
  Tasks = {t1}
  MaxOverlaps = 0
  MaxRaises = 1
  MaxLosses = 1
INVARIANTS
  TypeOK
  ProcessedIsBooked
PROPERTIES
  ImplementsLedger
