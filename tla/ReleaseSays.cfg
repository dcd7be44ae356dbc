\* One clone, one version: what the last message of release.sh says of the tag.
SPECIFICATION Spec
CONSTANTS
  Machine = {ann}
  Tag = {"v0.2.0"}
  None = None
  MaxCommits = 2
  MaxStarts = 1
CHECK_DEADLOCK FALSE
PROPERTIES
  PushedAsReported
