\* Two dialogs over one password safe; a token file and three endpoints, three changes of the file
\* or of credentials, two refreshes, POSIX permissions.
SPECIFICATION MCSpec
CONSTANTS
  Host = {"loopback", "hub"}
  Loopback = {"loopback"}
  DefaultHost = "loopback"
  Number = {80, 443, 4318}
  Project = {p1, p2}
  Persisted <- PersistedLists
  Text <- TypedLists
  Name = {""}
  Secret = {"token", "control"}
  Unsendable = {"control"}
  MaxEdits = 3
  Lines <- Configured
  HubUrl <- HubUrls
  Posix = TRUE
  None = None
  MaxTime = 1
  MaxChanges = 3
  MaxRefreshes = 2
CHECK_DEADLOCK FALSE
INVARIANTS
  SafeSendable
  TokenGoesHome
  TokenIsCurrent
PROPERTIES
  UntouchedKept
  SecretHasEndpoint
  AppliedOrStillEdited
