\* Two source files, two builds a day, one archive with one fault, two versions and one mishap.
SPECIFICATION Spec
CONSTANTS
  ClassOf <- MCClassOf
  SourceOf <- MCSources
  Reports <- MCReports
  Rates <- MCRates
  Parent <- MCParent
  Root = "plugin"
  Optional = {"notice"}
  Main = "main"
  Frontend = "frontend"
  Options = "options"
  Overlap = 2
  Longest = 3
  Archive <- MCArchive
  Version <- MCVersion
  Build = {"x", "y"}
  Certificate = {"old", "new"}
  ExpiresAt <- MCExpiry
  StrayZip <- MCStrayZip
  StrayManifest <- MCStrayManifest
  LastDay = 3
  MaxMishaps = 1
CHECK_DEADLOCK FALSE
INVARIANTS
  CountsAgree
  MergedIsMeasured
  CheckedHolds
  AcceptedIsClosed
  MarkersAreSeen
  AuditBindsPublic
  HealthyIsFine
