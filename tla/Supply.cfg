\* Nine dependencies of three versions, the second a prerelease; two releases or re-pushes, two edits.
SPECIFICATION Spec
CONSTANTS
  Kind <- MCKind
  LockOnly <- MCLockOnly
  MaxVersion = 3
  Prerelease = {2}
  Grace = 1
  MaxNow = 3
  MaxNews = 2
  MaxEdits = 2
CHECK_DEADLOCK FALSE
INVARIANTS
  SyncedIsFresh
  LockLagIsTold
  AuditTells
