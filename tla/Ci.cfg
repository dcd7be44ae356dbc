\* One push after the base and a dispatch, the four jobs with conditions, one re-run.
SPECIFICATION FairSpec
CONSTANTS
  Plain = {}
  Source <- Sources
  Code <- Contents
  MaxCommits = 2
  MaxReruns = 1
CHECK_DEADLOCK FALSE
INVARIANTS
  GreenMeansPassed
PROPERTIES
  GateReports
