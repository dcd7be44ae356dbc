\* Highlighter and panel, with a file that is not on disk; a navigation, with an edit and one turn of the index.
SPECIFICATION MCSpec
CONSTANTS
  File = {"kept", "gone"}
  OnDisk = {"kept"}
  Editor = {"left", "right"}
  FileOf <- TwoFiles
  None = None
  Error = Error
  MaxJobs = 5
  MaxRefreshes = 1
  Language = {"java", "kotlin", "go", "csharp"}
  Installed <- MCInstalled
  Declarable <- MCDeclarable
  Project <- MCProject
  Reported <- MCReported
  Nowhere = "nowhere"
  MaxEdits = 1
  MaxShifts = 1
CHECK_DEADLOCK FALSE
INVARIANTS
  ViewsMatchFindings
  NoStrayMark
  OpensTheOnly
PROPERTIES
  FindingGetsMarked
