---------------------------- MODULE ReleaseAudit ----------------------------
(***************************************************************************)
(* verify-release.py and check-plugin-signature.py: the manifest that the  *)
(* release workflow makes of the files it is about to publish, and what    *)
(* release-verification.yml finds of them, day after day, at GitHub and at *)
(* the Marketplace.                                                        *)
(*                                                                         *)
(* A file is what it was made of, and its digest is the file itself.  A    *)
(* plugin ZIP: the build its entries are from, the certificate its author  *)
(* signed with, and whether JetBrains signed it too.                       *)
(***************************************************************************)
EXTENDS Naturals, FiniteSets

CONSTANTS
  Version,       \* 1..n, in their order
  Build,         \* what may be built of a version
  Certificate,   \* the author's certificates
  ExpiresAt,     \* the last day of each, of all members of its chain
  StrayZip,      \* what a plugin ZIP may be replaced by
  StrayManifest, \* what a manifest may be replaced by
  LastDay,       \* bound: the clock
  MaxMishaps     \* bound: what goes wrong in public

VARIABLES
  day,
  identity,  \* the certificate config/signing-identities.json approves, or None
  secret,    \* the certificate the signing secrets hold
  desk,      \* the files of the publishing job, or Nothing
  stage,     \* what the publishing job does next
  github,    \* per version: the four assets, or Nothing
  market,    \* per version: the plugin ZIP the Marketplace gives, or None
  audit,     \* what the last audit said, as long as nothing has changed
  mishaps,
  published  \* history: per version, the manifest the job published

auditVars == <<day, identity, secret, desk, stage, github, market, audit, mishaps, published>>

None == "none"

Plugin ==
  [build : Build \cup {None}, author : Certificate \cup {None}, jetbrains : BOOLEAN]
ReleaseManifest ==
  [version : Version \cup {0}, certificate : Certificate \cup {None}, unsigned : Plugin, zip : Plugin,
   sbom : Build \cup {None}]

ASSUME AuditAssumption ==
  /\ Version \subseteq Nat /\ IsFiniteSet(Version)
  /\ None \notin Build /\ None \notin Certificate
  /\ StrayZip \subseteq Plugin /\ StrayManifest \subseteq ReleaseManifest

Unsigned(b) == [build |-> b, author |-> None, jetbrains |-> FALSE]

NoPlugin == Unsigned(None)
NoManifest == [version |-> 0, certificate |-> None, unsigned |-> NoPlugin, zip |-> NoPlugin,
               sbom |-> None]
Nothing == [zip |-> NoPlugin, sbom |-> None, certificate |-> None, manifest |-> NoManifest]
NoDesk == [version |-> 0, unsigned |-> NoPlugin, files |-> Nothing]

AuditInit ==
  /\ day = 1
  /\ identity = None
  /\ secret \in Certificate
  /\ desk = NoDesk /\ stage = "idle"
  /\ github = [v \in Version |-> Nothing]
  /\ market = [v \in Version |-> NoPlugin]
  /\ audit = "none" /\ mishaps = 0
  /\ published = [v \in Version |-> NoManifest]

---------------------------------------------------------------------------
(* The checks                                                              *)

\* certificate_details, read_identity and certificate_identity: approved, and
\* no member of the chain expired.  Without an active identity nothing is.
CertificateFits(c) == identity # None /\ c = identity /\ day <= ExpiresAt[c]

\* verify_official: JetBrains' signer finds the author's signature.
VerifiesWith(zip, c) == zip.author = c

\* Mutant: the signed ZIP may hold any payload.
SignedAlone(unsigned, signed) == signed.author # None

\* compare_payload: take the signature block away, and the unsigned ZIP is left.
SamePayload(unsigned, signed) ==
  signed.author # None /\ ~signed.jetbrains /\ Unsigned(signed.build) = unsigned

\* create
ManifestOf(version, unsigned, files) ==
  [version |-> version, certificate |-> files.certificate, unsigned |-> unsigned,
   zip |-> files.zip, sbom |-> files.sbom]

MayCreate(d) ==
  /\ CertificateFits(d.files.certificate)
  /\ VerifiesWith(d.files.zip, d.files.certificate)
  /\ SamePayload(d.unsigned, d.files.zip)

\* Mutant: JetBrains' copy has to be the very file.
SameBytes(signed, marketplace) == signed = marketplace

\* zip_payload: the same entries, byte for byte.
SameEntries(signed, marketplace) == signed.build = marketplace.build

\* verify.  Before it is distributed, the Marketplace's ZIP is the signed one.
Verifies(version, files, marketplace, distributed) ==
  LET manifest == files.manifest IN
  /\ manifest.version = version
  /\ CertificateFits(files.certificate)
  /\ manifest.certificate = files.certificate
  /\ files.zip = manifest.zip
  /\ distributed => marketplace # files.zip
  /\ files.sbom = manifest.sbom
  /\ VerifiesWith(files.zip, files.certificate)
  /\ VerifiesWith(marketplace, files.certificate)
  /\ SameEntries(files.zip, marketplace)

---------------------------------------------------------------------------
(* Maintainers, and time                                                   *)

Quiet == audit' = "none"

Tomorrow ==
  /\ day < LastDay
  /\ day' = day + 1
  /\ Quiet
  /\ UNCHANGED <<identity, secret, desk, stage, github, market, mishaps, published>>

\* The signing secrets are replaced, or another certificate is approved.
Rotate ==
  /\ \E c \in Certificate :
       \/ secret' = c /\ c # secret /\ UNCHANGED identity
       \/ identity' = c /\ c # identity /\ UNCHANGED secret
  /\ Quiet
  /\ UNCHANGED <<day, desk, stage, github, market, mishaps, published>>

---------------------------------------------------------------------------
(* The publishing job of release.yml, which may be given up at any step    *)

Step(from, to) == stage = from /\ stage' = to

\* Gradle signs what it is told to, or something else that lies about.
Sign(v) ==
  /\ Step("idle", "create")
  /\ \E unsigned, b \in Build :
       desk' = [version |-> v, unsigned |-> Unsigned(unsigned),
                files |-> [zip |-> [build |-> b, author |-> secret, jetbrains |-> FALSE],
                           sbom |-> b, certificate |-> secret, manifest |-> NoManifest]]
  /\ Quiet
  /\ UNCHANGED <<day, identity, secret, github, market, mishaps, published>>

Create ==
  /\ Step("create", "upload")
  /\ MayCreate(desk)
  /\ desk' = [desk EXCEPT !.files.manifest = ManifestOf(desk.version, desk.unsigned, desk.files)]
  /\ UNCHANGED <<day, identity, secret, github, market, audit, mishaps, published>>

\* publishPlugin, after a first verification: a version is taken once.
Upload ==
  /\ Step("upload", "publish")
  /\ Verifies(desk.version, desk.files, desk.files.zip, FALSE)
  /\ market[desk.version] = NoPlugin
  /\ market' = [market EXCEPT ![desk.version] = desk.files.zip]
  /\ Quiet
  /\ UNCHANGED <<day, identity, secret, desk, github, mishaps, published>>

\* gh release create, after another one.
Publish ==
  /\ Step("publish", "idle")
  /\ Verifies(desk.version, desk.files, desk.files.zip, FALSE)
  /\ github[desk.version] = Nothing
  /\ github' = [github EXCEPT ![desk.version] = desk.files]
  /\ published' = [published EXCEPT ![desk.version] = desk.files.manifest]
  /\ desk' = NoDesk
  /\ Quiet
  /\ UNCHANGED <<day, identity, secret, market, mishaps>>

GiveUp ==
  /\ stage # "idle"
  /\ stage' = "idle" /\ desk' = NoDesk
  /\ UNCHANGED <<day, identity, secret, github, market, audit, mishaps, published>>

---------------------------------------------------------------------------
(* In public                                                               *)

\* JetBrains adds its signature.
Countersign(v) ==
  /\ market[v] # NoPlugin /\ ~market[v].jetbrains
  /\ market' = [market EXCEPT ![v].jetbrains = TRUE]
  /\ Quiet
  /\ UNCHANGED <<day, identity, secret, desk, stage, github, mishaps, published>>

\* What the Marketplace gives is not what it took, or one of the four assets is replaced.
Mishap(v) ==
  /\ mishaps < MaxMishaps
  /\ mishaps' = mishaps + 1
  /\ \/ /\ market[v] # NoPlugin
        /\ \E z \in StrayZip : market' = [market EXCEPT ![v] = z]
        /\ UNCHANGED github
     \/ /\ github[v] # Nothing
        /\ \/ \E z \in StrayZip : github' = [github EXCEPT ![v].zip = z]
           \/ \E b \in Build : github' = [github EXCEPT ![v].sbom = b]
           \/ \E c \in Certificate : github' = [github EXCEPT ![v].certificate = c]
           \/ \E m \in StrayManifest : github' = [github EXCEPT ![v].manifest = m]
        /\ UNCHANGED market
  /\ Quiet
  /\ UNCHANGED <<day, identity, secret, desk, stage, published>>

---------------------------------------------------------------------------
(* release-verification.yml                                                *)

Released == {v \in Version : github[v] # Nothing}

\* The latest version that has a release at GitHub.
LatestReleased == CHOOSE v \in Released : \A w \in Released : w <= v

AuditFinds ==
  LET v == LatestReleased IN
  Verifies(v, github[v], market[v], TRUE)

Audit ==
  /\ Released # {}
  /\ audit = "none"
  /\ audit' = IF AuditFinds THEN "fine" ELSE "failed"
  /\ UNCHANGED <<day, identity, secret, desk, stage, github, market, mishaps, published>>

AuditNext ==
  \/ Tomorrow \/ Rotate \/ Create \/ Upload \/ Publish \/ GiveUp \/ Audit
  \/ \E v \in Version : Sign(v) \/ Countersign(v) \/ Mishap(v)

AuditSpec == AuditInit /\ [][AuditNext]_auditVars

---------------------------------------------------------------------------
(* Properties                                                              *)

\* When the audit is fine, the Marketplace gives what GitHub has under the latest released
\* version, entry for entry, and both are signed with a certificate that is approved and not
\* expired, whatever was replaced.  As long as the manifest is the one that was published,
\* it has moreover the entries of the unsigned build the manifest records, which the audit
\* never sees, is countersigned by JetBrains, and the SBOM is of that build.  A manifest that
\* was replaced may name any unsigned build: verify-release.py:200-202 only check its form.
AuditBindsPublic ==
  audit = "fine" =>
    \E v \in Released :
      /\ \A w \in Released : w <= v
      /\ market[v].build = github[v].zip.build
      /\ market[v].author = identity /\ github[v].zip.author = identity
      /\ day <= ExpiresAt[identity]
      /\ github[v].manifest = published[v] =>
           /\ Unsigned(market[v].build) = published[v].unsigned
           /\ github[v].sbom = market[v].build
           /\ market[v].jetbrains

\* The audit does not cry wolf: if nothing went wrong in public, the latest
\* release is countersigned, and the certificate it was signed with is still
\* approved and valid, the audit is fine.
HealthyIsFine ==
  \A v \in Released :
    /\ \A w \in Released : w <= v
    /\ mishaps = 0 /\ market[v].jetbrains
    /\ github[v].zip.author = identity /\ day <= ExpiresAt[identity]
    => audit # "failed"
=============================================================================
