\* Three calls under two keys.
SPECIFICATION Spec
CONSTANTS
  k1 = k1
  k2 = k2
  e1 = e1
  d1 = d1
  o1 = o1
  t1 = t1
  t2 = t2
  c1 = c1
  c2 = c2
  c3 = c3
  Keys = {k1, k2}
  Emails = {e1}
  NewDevices = {d1}
  Orders = {o1}
  Dates = {t1, t2}
  Bodies <- MCBodies
  Calls = {c1, c2, c3}
  Office = Office
  NoVisit = NoVisit
  NoCall = NoCall
  None = None
SYMMETRY MCSymmetry
INVARIANTS
  TypeOK
  TakenIsTrue
  RepetitionRecognised
  NoDeadlock
PROPERTY ImplementsLedger
CHECK_DEADLOCK FALSE
