CONSTANTS
  Requests = {p, q}
  Jobs = {j}
  Kinds = {"login", "pin", "refresh", "logout", "request_reset", "reset", "unlock",
           "setup", "password", "change_pin"}
  InitialStatuses = {"new"}
  LoginRetries = 2
  PinRetries = 1
  ResetRetries = 1
  UnlockRetries = 1
  Expiring = {}
  MayFail = {}
  MaxQueued = 1
  MaxWrongLogins = 3
  MaxWrongResets = 1
SPECIFICATION Spec
SYMMETRY Symmetry
INVARIANTS TypeOK LockoutEnforced GuessesBounded
PROPERTIES BlockedStaysBlocked ClosedStaysClosed PinLimitEndsSession
