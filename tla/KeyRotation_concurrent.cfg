CONSTANTS
  Customers = {}
  ServiceOrders = {o}
  Devices = {d}
  Values = {x, y}
  NoValue = NoValue
  Rotators = {p, q}
  Writers = {w, u}
  Initial = Initial
  NoWrite = NoWrite
  MaxVersion = 3
  BatchSize = 1
SPECIFICATION Spec
SYMMETRY Symmetry
INVARIANTS TypeOK ExactlyOneActive Decryptable
