CONSTANTS
  c1 = c1
  c2 = c2
  d1 = d1
  d2 = d2
  d3 = d3
  Customers = {c1, c2}
  Devices = {d1, d2, d3}
  Orders = {o1, o2}
  Txs = {t1, t2}
  Times = {1}
  Owner <- MCOwner
  Initial = {d1, d3}
  Missing = Missing
  Free = Free
  Deleted = Deleted
  NoOrder = NoOrder
  NoRequest = NoRequest
  Requests <- MCRequests
  Null = Null
  None = None
  Filters <- MCFilters
SPECIFICATION Spec
SYMMETRY Symmetry
INVARIANTS TypeOK InspectionsApart RowsCoherent NoDeadlock ViewsAgree OfferedIsAttachable
PROPERTY NothingSkipped
