\* Three calls for three keys over a cache of two entries.
SPECIFICATION Spec
CONSTANTS
  Keys = {k1, k2, k3}
  Calls = {c1, c2, c3}
  MaxEntries = 2
  Zero = Zero
  None = None
INVARIANTS
  TypeOK
  BuffersFollowUse
  SharedLoad
  RefusedOnlyIfDropped
PROPERTY CallsEnd
