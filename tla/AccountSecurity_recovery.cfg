CONSTANTS
  Requests = {p, q}
  Jobs = {j, k}
  Kinds = {"login", "unlock"}
  InitialStatuses = {"active"}
  LoginRetries = 1
  PinRetries = 2
  ResetRetries = 2
  UnlockRetries = 2
  Expiring = {"unlock", "session", "refresh_token"}
  MayFail = {"unlock_clear"}
  MaxQueued = 1
  MaxWrongLogins = 2
  MaxWrongResets = 0
SPECIFICATION FairSpec
INVARIANT CodeReachable
PROPERTY BlockedRecovers
CHECK_DEADLOCK FALSE
