CONSTANTS
  Customers = {b, c}
  ServiceOrders = {}
  Devices = {d}
  Values = {x, y}
  NoValue = NoValue
  Rotators = {p}
  Writers = {w}
  Initial = Initial
  NoWrite = NoWrite
  MaxVersion = 3
  BatchSize = 2
SPECIFICATION FairSpec
INVARIANTS OneRotationOpen OnlyLateWritesLost RetiredOnlyByLateWrites
PROPERTIES CommandEnds ImplementsPiiStore
