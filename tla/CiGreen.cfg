\* What CONTRIBUTING.md says of the gate, for a pull request, a fork and main.
SPECIFICATION Spec
CONSTANTS
  Plain = {}
  Source <- Sources
  Code <- Contents
  MaxCommits = 2
  MaxReruns = 0
CHECK_DEADLOCK FALSE
INVARIANTS
  GreenMeansChecked
