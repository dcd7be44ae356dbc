---------------------------- MODULE SupplyChain ----------------------------
(***************************************************************************)
(* The repository's supply-chain inputs, what upstream publishes, and the  *)
(* two verdicts of check-supply-chain.py on them: the offline check that   *)
(* gates every pull request and the online audit that runs every day.      *)
(*                                                                         *)
(* Everything that is recorded about a release (its tag, date, checksum,   *)
(* URL, lock line, verification component) is represented by the version   *)
(* it is true of, so that "out of step" is an inequality.                  *)
(***************************************************************************)
EXTENDS Naturals, FiniteSets

CONSTANTS
  Kind,        \* the kind of each dependency of the inventory
  MaxVersion,  \* bound: upstream publishes versions 1..MaxVersion
  Prerelease,  \* the versions among them that are not stable
  Grace,       \* FRESHNESS_GRACE, in ticks of the clock
  LockOnly     \* the products whose lock line the verifier alone uses

Dependencies == DOMAIN Kind
Versions == 1..MaxVersion
OfKind(k) == {d \in Dependencies : Kind[d] = k}
Products == OfKind("product")

\* A wrapper JAR comes with the Gradle of the inventory.
ASSUME KindAssumption == OfKind("wrapper") # {} => OfKind("gradle") # {}
ASSUME VersionAssumption == MaxVersion \in Nat \ {0} /\ Grace \in Nat

VARIABLES
  now,        \* the clock
  released,   \* when upstream published each version, 0 before it does
  repushed,   \* the image tag that was pushed again, and when; tag 0 for none
  tree,       \* the values the repository declares for each dependency
  inventory,  \* config/supply-chain.json
  lock,       \* the version on each product's line of gradle.lockfile
  components, \* <<product, version>> pairs of verification-metadata.xml
  download    \* the workflow download: the tag in its URL, its pinned checksum

repositoryVars == <<tree, inventory, lock, components, download>>
upstreamVars == <<now, released, repushed>>

Entry == [version : Versions, release : Versions, releasedAt : Versions,
          sha256 : Versions, source : 0..MaxVersion]

---------------------------------------------------------------------------
(* Reading the repository                                                  *)

\* No field of such an entry is declared anywhere else: Renovate moves the
\* entry itself.
Undeclared == OfKind("tool")

\* declared_fields: which fields of the entry the declaration proves.
DeclaredFields(d) ==
  CASE d \in Undeclared -> {}
    [] Kind[d] = "image" -> {"version", "release"}
    [] Kind[d] = "wrapper" -> {"sha256"}
    [] OTHER -> {"version"}

\* official_source: the version the URL has to name, 0 for a URL that names none.
OfficialSource(d, entry) ==
  CASE Kind[d] \in {"plugin", "nuget"} -> entry.version
    [] Kind[d] \in {"action", "tool"} -> entry.release
    [] OTHER -> 0

---------------------------------------------------------------------------
(* The offline check                                                       *)

\* The version of an action or an image is a hash, which tells nothing.
Legible(d) == Kind[d] \notin {"action", "image"}

\* check_inventory: an entry is stable and names its official source.
EntryFits(d) ==
  /\ Legible(d) => inventory[d].version \notin Prerelease
  /\ inventory[d].source = OfficialSource(d, inventory[d])

\* check_declarations: something is declared, and nothing else than the entry
\* says. An action's pins are not compared here.
DeclarationFits(d) ==
  \/ d \in Undeclared \/ Kind[d] = "action"
  \/ /\ tree[d] # {}
     /\ \A v \in tree[d], f \in DeclaredFields(d) : inventory[d][f] = v

\* check_verification_metadata: each locked component has its checksums.
LocksCovered == \A d \in Products : <<d, lock[d]>> \in components

\* check_build_files: Gradle files, version catalogs and .NET projects.
InBuildFiles == {d \in Dependencies : Kind[d] \in {"plugin", "maven", "product", "nuget"}}
TreeStable == \A d \in InBuildFiles : tree[d] \cap Prerelease = {}

Accepted ==
  /\ \A d \in Dependencies : EntryFits(d) /\ DeclarationFits(d)
  /\ LocksCovered
  /\ TreeStable

---------------------------------------------------------------------------
(* The online audit, when every source answers                             *)

\* The wrapper JAR comes with a Gradle release.
Upstream(d) == IF Kind[d] = "wrapper" THEN CHOOSE g \in OfKind("gradle") : TRUE ELSE d

Out(d, v) == released[Upstream(d)][v] # 0
Candidates(d) == {v \in Versions \ Prerelease : Out(d, v)}
Newest(S) == CHOOSE v \in S : \A w \in S : w <= v

\* latest_eligible: what Renovate has had the time to merge, twice over.
Matured(d) == {v \in Candidates(d) : released[Upstream(d)][v] + Grace <= now}

Ok == "ok"
Drift == "drift"
Mismatch == "mismatch"

\* Mutant: the date is taken as it stands.
FreshnessOnly(d, version, releasedAt) ==
  IF version \notin Candidates(d) THEN Mismatch
  ELSE IF Matured(d) = {} \/ version < Newest(Matured(d)) THEN Drift
  ELSE Ok

\* validate_release
ValidateRelease(d, version, releasedAt) ==
  IF version \notin Candidates(d) \/ releasedAt # version THEN Mismatch
  ELSE IF Matured(d) = {} \/ version < Newest(Matured(d)) THEN Drift
  ELSE Ok

\* verify_gradle: for Gradle and its wrapper JAR.
VerifyGradle(d) ==
  LET e == inventory[d] IN
  IF e.version # Newest(Candidates(d)) THEN Drift
  ELSE IF e.releasedAt # e.version \/ e.sha256 # e.version THEN Mismatch
  ELSE Ok

\* verify_github: the release comes first, then what the tag points at.
VerifyGithub(d) ==
  LET e == inventory[d]
      release == ValidateRelease(d, e.release, e.releasedAt) IN
  IF e.source # e.release THEN Mismatch
  ELSE IF release # Ok THEN release
  ELSE IF e.version # e.release THEN Mismatch
  ELSE Ok

\* verify_container: a tag that was pushed again is forgiven for a while, and
\* nothing else of the entry is looked at.
VerifyContainer(d) ==
  LET e == inventory[d] IN
  IF repushed.tag # e.release
  THEN ValidateRelease(d, e.release, e.releasedAt)
  ELSE IF repushed.at + Grace <= now THEN Drift ELSE Ok

\* check_online
Verify(d) ==
  CASE Kind[d] \in {"gradle", "wrapper"} -> VerifyGradle(d)
    [] Kind[d] \in {"action", "tool"} -> VerifyGithub(d)
    [] Kind[d] = "image" -> VerifyContainer(d)
    [] OTHER -> ValidateRelease(d, inventory[d].version, inventory[d].releasedAt)

\* exit_status: 2 when drift is all there is to say.
ExitStatus ==
  LET verdicts == {Verify(d) : d \in Dependencies} IN
  IF ~Accepted \/ Mismatch \in verdicts THEN 1 ELSE IF Drift \in verdicts THEN 2 ELSE 0
=============================================================================
