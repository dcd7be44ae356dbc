\* Two clones, one version.
SPECIFICATION Spec
CONSTANTS
  Machine = {ann, bob}
  Tag = {"v0.2.0"}
  None = None
  MaxCommits = 3
  MaxStarts = 2
SYMMETRY Clones
CHECK_DEADLOCK FALSE
PROPERTIES
  TagOnMain
  PushedWasVerified
