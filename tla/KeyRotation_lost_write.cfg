CONSTANTS
  Customers = {c}
  ServiceOrders = {}
  Devices = {}
  Values = {x, y}
  NoValue = NoValue
  Rotators = {p}
  Writers = {w}
  Initial = Initial
  NoWrite = NoWrite
  MaxVersion = 2
  BatchSize = 1
SPECIFICATION Spec
INVARIANT LookupMatchesCiphertext
