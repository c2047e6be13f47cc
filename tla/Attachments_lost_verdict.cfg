SPECIFICATION FairSpec
CONSTANTS
  Uploads = {u}
  Handlers = {g, h}
  Sizes = {s}
  Declared = s
  NoObject = NoObject
  NoJob = NoJob
PROPERTY VerdictStored
