\* Every refresh is asked for on the EDT (the Refresh button).
SPECIFICATION Spec
CONSTANTS
  e1 = e1
  e2 = e2
  Endpoint = {e1, e2}
  Service = {s1, s2}
  NoService = NoService
  Absent = Absent
  Edt = Edt
  Caller = {Edt}
  MaxRefreshes = 3
  MaxChanges = 1
SYMMETRY EndpointSymmetry
CHECK_DEADLOCK FALSE
INVARIANTS
  BoardMatchesSettings
  FindingsMatchService
PROPERTIES
  NewestPublishes
  NoRegress
  ImplementsBoard
