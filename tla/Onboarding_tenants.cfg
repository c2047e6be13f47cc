\* Two calls that create a tenant, for one or two addresses.
SPECIFICATION Spec
CONSTANTS
  Calls = {c1, c2}
  Emails = {e1, e2}
  NoUser = NoUser
  None = None
  Own = Own
INVARIANTS TypeOK MailIsTrue
PROPERTY AdministratorGetsIn
CHECK_DEADLOCK FALSE
