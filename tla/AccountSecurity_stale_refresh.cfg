CONSTANTS
  Requests = {p, q}
  Jobs = {j}
  Kinds = {"login", "refresh", "logout"}
  InitialStatuses = {"active"}
  LoginRetries = 2
  PinRetries = 1
  ResetRetries = 1
  UnlockRetries = 1
  Expiring = {}
  MayFail = {}
  MaxQueued = 1
  MaxWrongLogins = 2
  MaxWrongResets = 0
SPECIFICATION Spec
PROPERTY OnlyLoginOpensSession
