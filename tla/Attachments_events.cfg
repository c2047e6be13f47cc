SPECIFICATION FairSpec
CONSTANTS
  Uploads = {u1, u2}
  Handlers = {h1, h2}
  Sizes = {s1, s2}
  Declared = s1
  NoObject = NoObject
  NoJob = NoJob
INVARIANTS TypeOK OnlyScannedServed
PROPERTIES StatusOnlyAdvances VerdictStoredOrLogged
