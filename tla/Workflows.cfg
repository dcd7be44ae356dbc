\* Two release runs of one version, two commits, builds and signatures that may differ; a relock run of
\* one pull request, two updates, two groups, two artifacts and a copy that differs.
SPECIFICATION MCSpec
CONSTANTS
  Tag = {"v0.2.0"}
  Commit = {merged, fix}
  Variant = {x, y}
  Run = {first, second}
  MaxReruns = 2
  NoTag = NoTag
  NoZip = NoZip
  Update = {"library", "platform"}
  Group = {"main", "idea"}
  Artifact = {"lib", "ide"}
  Digest = {"published", "other"}
  NoDigest = "none"
  Resolves <- Resolved
  MergedSums <- Merged
  RelockRun = {relocking}
  MaxCommits = 3
  MaxRelockReruns = 2
SYMMETRY Alike
CHECK_DEADLOCK FALSE
INVARIANTS
  UploadedWasTagged
  SignedWasReproduced
  ChecksumsKept
  RelockFits
PROPERTIES
  KeepsPromise
