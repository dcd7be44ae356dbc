\* The promise of an offline run, in the same instance.
SPECIFICATION Spec
CONSTANTS
  Kind <- MCKind
  LockOnly <- MCLockOnly
  MaxVersion = 3
  Prerelease = {2}
  Grace = 1
  MaxNow = 3
  MaxNews = 2
  MaxEdits = 2
CHECK_DEADLOCK FALSE
INVARIANT RerunRefreshes
