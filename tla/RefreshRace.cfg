\* The startup activity and the Refresh button call refresh() without synchronisation, under fair
\* scheduling; and one fetch against every daemon, timer and cancellation.
SPECIFICATION MCSpec
CONSTANTS
  Endpoint = {e1}
  Service = {s1}
  NoService = NoService
  Absent = Absent
  Edt = Edt
  Caller = {Edt, Startup}
  MaxRefreshes = 3
  MaxChanges = 0
  MaxHops = 2
CHECK_DEADLOCK FALSE
INVARIANTS
  SpinnerHasOwner
  NoOrphanedRead
  SecretStaysHome
PROPERTIES
  RefreshSettles
  CallEnds
  ThreadReturned
