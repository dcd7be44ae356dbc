# Verification of the Perf Sentinel plugin

TLA+ models of the Perf Sentinel plugin for JetBrains IDEs, the TLC configurations that
check them on small instances, and TLAPS proofs of what matters most for instances of any
size. The reference is the code: every definition that models code is listed in
`PROJECT.json` ("map") with the lines it stands for.

    tlc -workers 2 -config RefreshEdt.cfg MCRefresh.tla     # check an instance
    tlapm RefreshServiceProofs.tla                          # check the proofs of a module

## The system

`src/main/kotlin/io/github/robintra/perfsentinel` is the plugin; the rest of the repository
builds, tests, checks and releases it.

| Part | State it keeps | Operations | Talks to |
|---|---|---|---|
| Refresh service (`service/PerfSentinelProjectService`) | volatile `state`, plain `refreshJob` | `refresh`, `publish`, `navigate` | settings, daemon client, password safe, token file; publishes `FINDINGS_TOPIC` on the EDT |
| Refresh state (`core/RefreshState`) | immutable snapshots per endpoint | `forService`, `updated` | - |
| Daemon client (`core/DaemonClient`) | none between calls; per call a connection, a pool thread, a continuation | `fetch` | the daemon over HTTP |
| Settings store (`settings/PerfSentinelSettings`) | endpoints, service override (workspace file) | `loadState`, `update`, `snapshot` | dialog writes on the EDT, refreshes read on workers |
| Settings dialog (`settings/PerfSentinelConfigurable`) | text fields, secret fields, `storedSecrets` | `createComponent`, `reset`, `isModified`, `apply`, `disposeUIResources` | settings store, password safe |
| Endpoint credentials (`settings/EndpointCredentials`) | the IDE-wide password safe (external) | `get`, `set` | every project, every IDE of the user |
| Endpoint configuration (`core/EndpointConfig`) | none | `normalizeEndpoints`, `credentialAllowed`, `credentialRefusal` | settings, dialog, token file, client |
| CLI token file (`core/CliTokenFile`) | none; the file belongs to `perf-sentinel login` | `locate`, `read`, `forEndpoint` | refresh service |
| Finding contract, SQL tables (`core/FindingContract`, `core/SqlTableExtractor`) | none | parsing | client, resolvers |
| Highlighter (`editor/FindingHighlighter`) | `findings`, `highlighters`, `highlightJob` | topic and editor listeners, `dispose` | editors |
| Tool window (`ui/PerfSentinelToolWindowFactory`) | rows, selection, details | `render`, buttons | service, settings dialog |
| Startup activity (`service/PerfSentinelStartupActivity`) | none | `execute`, off the EDT, once per project | highlighter, service |
| Navigation and resolvers (`navigation`, `java`, `kotlin`, `go`, ..., Rider front end and C# back end) | none | `resolve` | IDE indexes, Rider protocol |
| Release script (`scripts/release.sh`) | what one execution remembers; the clone's branch, tree and tags; origin's main and tags | checks, gates, `git tag -s`, `git push` | the maintainer's clone, GitHub |
| Release workflow (`.github/workflows/release.yml`, `scripts/compare-plugin-builds.py`) | runs, artifacts, Marketplace versions, GitHub releases | validate, build, compare, publish, re-runs | GitHub, Marketplace |
| CI (`.github/workflows/ci.yml`, `scripts/check-ci-results.py`) | runs, job results, artifacts, the gate's verdict | classify, run or skip each job, judge; cancellation, re-runs | GitHub |
| Gradle retry (`scripts/ci/gradle-retry.sh`) | attempt, log | run, look, sleep | Gradle; not modelled |
| Relock (`.github/workflows/relock.yml`, `scripts/ci/relock.py`) | collected checksums, the patch, the branch | resolve group by group, insert, apply, commit | Renovate's branch, GitHub, Gradle |
| Supply chain (`scripts/check-supply-chain.py`, `scripts/sync-supply-chain.py`) | the inventory, what build files declare, lock lines, verification components, workflow pins | offline check, daily online audit, synchronisation | GitHub, Maven, JetBrains, NuGet, Docker Hub; Renovate and maintainers edit what it reads |
| Archive inspection (`scripts/inspect-plugin-zip.py`) | window, count | structure, then entry after entry | both Windows builds of CI |
| Coverage (`scripts/check-coverage.py`) | `config/coverage-baseline.json` | read a report, `establish`, `check` | both Windows builds of CI, maintainers |
| Release verification (`scripts/verify-release.py`, `scripts/check-plugin-signature.py`, `.github/workflows/release-verification.yml`) | the release manifest, `config/signing-identities.json` | `create`, `verify`, the daily audit | the release workflow, GitHub, Marketplace |
| Repository checkers (the other `scripts`) | none | policy checks of configuration text | CI |

How they interact: the startup activity creates the highlighter and calls `refresh()` from
a background thread; the tool window's button calls `refresh()` on the EDT. A refresh is a
coroutine: it reads the settings, publishes "refreshing" on the EDT, fetches from all
endpoints at once, and publishes the result on the EDT, where highlighter and panel are
called before the EDT does anything else. A release begins with a tag that `release.sh`
signs and pushes from a maintainer's clone; the push starts `release.yml`, which builds
twice, compares, waits for a reviewer, signs, uploads to the Marketplace and then creates
the GitHub release.

What is hard: the unlocked `refreshJob` under two threads; a cancelled refresh whose block
already waits for the EDT; reads of `state` and of two settings fields that are used long
after; three threads around one HTTP connection; a password safe shared with dialogs nobody
sees, whose calls fail one by one; a token file that others write between two reads of it;
listeners that come after the events; CI runs that are cancelled, skipped and run again, and
whose one verdict must mean something; a commit put on a branch that moves; derived files written one after the other from
sources that may not answer, while others edit what they are derived from; bytes that arrive
in chunks; a certificate that is replaced between a release and its audit; a release script
that looks at a clone and at origin in one command and acts in another; a workflow whose
steps fail half way and are run again a day later. `PROJECT.json`
("hazards") has one entry per such place, at its line, with the properties that watch it.

What makes each part correct:

- refresh: one refresh at work, the newest wins, nothing known is lost, findings never shown
  under a service they were not fetched for, the spinner always ends;
- client: every call ends within its timeout, gives its thread back, and keeps its secret;
- settings and credentials: no secret lost, overwritten unasked, or stored where nobody
  sends it; a bad workspace file hurts nobody; the dialog is clean after an apply;
- navigation: the only place a finding can mean, whatever the order of the resolvers;
- watchers: marks and rows agree with the state once things are quiet, none is left behind;
- token file: a login's token is current and goes to the hub that issued it; a bad file
  troubles that hub only;
- CI: a green gate means that what its classification calls for passed, on that commit; it
  always reports;
- relock: what is committed fits the commit below it and weakens no checksum;
- release script: a pushed tag is on a commit that was merged, and on the one the gates ran
  on, but for one moment (`slip`);
- release workflow: what is uploaded was built, reproducibly, from a commit an allowed signer
  tagged; a version is uploaded once, and GitHub gets the same bytes or nothing;
- supply chain: what is recorded of a dependency is about one release of it; a lock left
  behind is refused, was warned of, or is the trace of an offline run or an edit; a content audit has seen every pin;
- archive inspection: an accepted archive is tiled by its entries, each after the directory
  it is in, and no byte of any entry was outside a window that was searched;
- coverage: what is counted agrees up to the total; a baseline says what was measured;
- release verification: a content audit ties what the public gets to the build that was
  compared, as its manifest says, signed by a certificate that is approved today; it does not cry wolf.

## Modules

| Module | Models |
|---|---|
| `Snapshots` | `RefreshState.kt`: snapshots and boards as data |
| `FindingsBoard` | abstract specification: what the user may rely on the findings board to do |
| `RefreshService` | `refresh()`, its coroutine, the EDT, the settings store as a refresh sees it |
| `DaemonClient` | `fetch` and `execute`: coroutine, pool thread, timer, canceller, redirects |
| `EndpointConfig` | `normalizeEndpoints` and `credentialAllowed` over abstract URLs |
| `SettingsDialog` | `PerfSentinelConfigurable`, `PerfSentinelSettings`, `EndpointCredentials` |
| `Watchers` | highlighter, tool window panel and startup activity |
| `Navigation` | `navigate`, `AnchorNavigator`, the resolvers of Java, Kotlin, C# and the platform's symbol index |
| `TokenFile` | `CliTokenFile` in a refresh, while the file is changed |
| `Ci` | `ci.yml` and `check-ci-results.py` |
| `Relock` | `relock.yml` and `relock.py`, while the branch moves |
| `ReleaseScript` | `release.sh` in several clones, while branches and tags move |
| `ReleasePromise` | abstract specification: what a release of a version promises |
| `ReleaseWorkflow` | `release.yml`: runs, failures, re-runs, deleted and moved tags |
| `SupplyChain` | `check-supply-chain.py`: the repository's inputs, the offline check and the online audit |
| `SupplySync` | `sync-supply-chain.py` at work on them, with upstream, Renovate and maintainers |
| `PluginZip` | `inspect-plugin-zip.py` |
| `CoverageReport` | `check-coverage.py`: the Kover and the Cobertura reader |
| `Coverage` | `check-coverage.py`: baseline and check, with the two Windows builds of `ci.yml` |
| `ReleaseAudit` | `verify-release.py`, `check-plugin-signature.py`, `release-verification.yml` |
| `MCRefresh`, `MCRefreshRace` (with the client), `MCCredentials` (dialogs, token file), `MCWatchers`, `MCCi`, `MCReleaseScript`, `MCWorkflows` (release, relock), `MCSupply`, `MCEvidence` | instances for TLC |
| `RefreshServiceProofs`, `DaemonClientProofs`, `SettingsProofs` (with the token file), `WatchersProofs` (with navigation), `ReleaseScriptProofs`, `ReleaseWorkflowProofs`, `SupplyProofs` (with relock), `EvidenceProofs` (archives, coverage, audit, CI gate) | theorems and proofs |

`RefreshService` and `FindingsBoard` both extend `Snapshots`; `RefreshService` instantiates
`FindingsBoard` (`Board`) with its own `state`. `SettingsDialog` and `TokenFile` extend `EndpointConfig`.
`ReleaseWorkflow` instantiates `ReleasePromise` (`Promise`). The two halves of a release
meet in the tag at origin only: the workflow model lets any tag be pushed, by a script or by
hand, so what it shows does not depend on `release.sh`. `SupplySync` extends `SupplyChain`.
`MCEvidence` puts `CoverageReport`, `Coverage`, `PluginZip` and `ReleaseAudit` side by side;
they share no state, so a behaviour moves one of them (`part`) and leaves the others alone.
`MCWatchers` does the same with `Watchers` and `Navigation`, `MCRefreshRace` with `RefreshService`
and `DaemonClient`, `MCCredentials` with `SettingsDialog` and `TokenFile`, `MCWorkflows` with
`ReleaseWorkflow` and `Relock`.
Operators named "Mutant" in their comment are plausible bugs; they stand before the
definition they would replace and no specification uses them.

### RefreshService

State: `settings`, `state`, `refreshJob` and `job` are the code's; `pc` and `held` are where
each caller of `refresh()` is (it cancels, launches, and stores the job, with other threads
between any two of these steps); `edtJob` is the publish block the EDT is running. A click,
an `apply()` and a publish block exclude each other on the EDT (`EdtFree`). A job is cut
where the code can be overtaken: each settings field, the volatile read of `state`, every
fetch, `awaitAll`, and the hand-over to the EDT. Findings are abstracted to the service they
were fetched for, time to a counter. A failed fetch, for whatever reason, is one outcome.

A cancelled job's local steps before its next suspension point change nothing shared, so
they are left out and the job stops (`Stop`). A block the EDT has begun is not interrupted;
a block still queued is not run once its job is cancelled (`StartPublish` needs a live job).
`CancelPrevious` reads `refreshJob` or what the caller stored itself: the field is not
volatile.

Not modelled: exceptions thrown by the job outside its `runCatching` (the listeners and
`snapshot()` are assumed not to throw: it drops every line it cannot use, `ValidLines` of
`SettingsDialog`); a wall clock
that is set back (timestamps grow); `navigate`. Assumed of the instance: refreshes are asked
for a bounded number of times.

### DaemonClient

One call. `secret` says whether a secret is given and fit to be sent; the checks that refuse
it precede any request. `handler` is `invokeOnCancellation`'s block, which runs on the
canceller's thread, or at once if the cancellation came before the registration; its two
lines are two steps. The pool thread's steps are: open (the request is sent here), store the
connection, check the continuation, read, check again, resume. The answer's size limit and
JSON contract make one outcome, "findings" or "failure". `HttpRequests` follows redirects
inside `request.connection`, at most `MaxHops` of them. `CallEnds` sees a resume that is lost,
not one too many: the single task cannot resume twice here.

### EndpointConfig and SettingsDialog

A line of the endpoint list is a URL in abstract syntax: scheme, host, the numbers after the
host's colons, and two flags, `tidy` for what normalization rewrites and `flawed` for what it
refuses. Ports are kept apart because dropping one can uncover another: `normalizeEndpoints`
(line 37) makes `https://hub:443` of `https://hub:443:443`, an authority `java.net.URI`
accepts, and `https://hub` of that. The instance has no such URL. With one,
`AppliedOrStillEdited` fails, since `apply()` normalizes once and `snapshot()` again: the dialog stays modified.
`OnePort` says that no line has two ports, `TextsSettle` that a list normalized once is normal;
the theorems about lists have the second as their hypothesis and show that the first implies
it. TLC evaluates both on the instance (`ListsSettle` of `MCCredentials`).

A dialog's `phase` tells which of the three ways into `syncCredentials` it is on. Each
`EndpointCredentials.set` and `get` is a step of its own, since other dialogs (another
project, another IDE on the same keychain) use the safe meanwhile, and any of them may fail
(`FailSync`): the safe keeps what was written, the dialog keeps its fields and
`storedSecrets`. The service name is a value that is compared; its trimming is left out.

### Watchers

Each EDT event is one action with all the listeners it calls. A refresh is reduced to what
`RefreshService` was shown to do: it announces a state and then publishes a result, unless it
is asked for again first. A file is "on disk" or not, which is what the VFS lookup of a
highlight job decides. A cancelled highlight job is over at once: it shares nothing before
its block on the EDT, which is not run.

### Navigation

A double click launches `navigate`: `FindFile` and `ReadLine` are `DirectAnchorResolver`; then
every resolver is asked (`Ask`, `AskBackend` and `FindAnchor` for Rider, whose back end answers
first and whose front end then looks for the file), `EndAsk` takes the only hit, and without
any, `AskFallback` lets Java guess the class of a table; `Open` is the block on the EDT.  Any
resolver not asked yet may be next: that is every order of registration at once.  `project` is
what the sources declare under the reported name, by language, and which classes map the
table; it may be edited, indexing may begin or end, a resolver may throw, the back end may be
interrupted and the project may close between any two steps.

`OpensTheOnly` compares the outcome with `Wanted`, which knows of no order: it holds for a
project that stands still, whichever resolvers fail, and the part on guesses holds whenever
indexing begins or ends. `Wanted` counts declarations, so that a Kotlin function Java
sees as a light class counts once. It is not claimed while the index comes or goes: where
indexing begins after Java answered and before Kotlin was asked, Kotlin answers nothing and
Java's hit is the only one, although both declare the name; asked in the other order, Kotlin
would win. The comment at `DirectAnchorResolver.kt:43`, that "registration order must not pick
a winner", does not hold then. Nor do two navigations know of each other: of two clicks, the
first may open its file last.  Bounds: one navigation, since none reads what another writes;
two resolvers, of which either order is another registration; one edit and one turn of the
index, which starts in either state, so both "lost on the way" and "came back" occur.

### TokenFile

`file` is what lies at the token's path: its kind, whether only the owner may read it, and
its content: a login (number, `hub_url`, the hub that issued it, expiry) or something that
does not parse. Logins, logouts and damage come between any two of a refresh's steps: the
look at the attributes, the look at the mode, the reading, the clock, and each endpoint's
question. `own` is whether the password safe has a credential of the endpoint's own, which wins. The hub
that issued a token is history: the file only says `hub_url`, which may have been emptied.

One refresh at a time: refreshes only read the file and share nothing here. A read of the
content is one step, and a file half written is one that does not parse. That a person puts
one hub's token beside another hub's URL is not modelled: the program could not know.

### Ci

`run[r]` is a CI run: the commit, what it is compared with, the class of the change, each
job's result and the gate's. A push to a pull request or main starts a run and cancels what
is unfinished of earlier ones; `source` is which of the three it is. Jobs without needs of
their own are members of `Plain`; the four with needs or conditions of their own are named.
A job whose condition holds passes or fails; the Windows builds may fail after their
artifacts were uploaded, and artifacts stay for later attempts.

A cancelled or timed-out job counts as failed, as `needs` and the gate treat it. The base of
a pull request is fixed: commit 1. Of a commit only its code counts. `git diff --name-only`
prints a path of a change of code or it does not (`SeesCode`): of a renamed file git prints the
new name only, so a source file moved into `docs/` is a change of documentation; and inside
`if` a `git diff` that fails looks like a `grep` that found nothing (line 47). Nothing is
printed that did not change. What a green gate says is therefore in two properties:
`GreenMeansPassed`, relative to the classification, holds; `GreenMeansChecked`, relative to the
code, fails (see Findings).

### Relock

A commit is the update it proposes, the update its locks are for, and its checksums. A run
remembers the head it began with, downloads group after group (each download may bring any
content, an artifact may not be found), and commits onto the branch, which Renovate or a
maintainer moves meanwhile. Any step may fail; the commit's answer may be lost; either job is
run again, with the patch as long as it is kept. What is committed is the files of the
commit the run began with, so fitting the head is for `expectedHeadOid` to ensure.

The text of the metadata file, its order, and the check of the paths a patch touches are left
out: a refused patch is `JobFails`. A run is taken to resolve all that its update moves. Whoever
dispatches it names the modules (`relock.yml:15`, `relock.py:169,196`), and a configuration that
fails to resolve is a warning (`relock.py:48,55`): a run told of too few commits less than
`RelockFits` says, and CI's own verification is what notices.

### ReleaseScript

`script[m]` is the script a clone runs: `pc`, the tag and `--dry-run`, `round` (which of the
three calls of `ensure_ready` it is in or after), `verified` (`VERIFIED_SHA`) and `remote`
(what `git ls-remote` answered). Each command that looks at the clone or at origin is a step
of its own, so merges, pulls, commits and checkouts fall between any two. Commits are
numbered as they are made; `tree` is "clean", "dirty" or "elsewhere" (another branch), which
decides what HEAD is when `git tag -s` tags it (`Head`).

`Fail` stands for every `fail` and every command that fails, at every step, without undoing
anything; only `VerifyTag` removes the tag it rejects. `Push` may succeed and not be
reported. Signing keys, their fingerprints and the gates' outcome are "passes or fails"; the
tree the gates see is not modelled.

Assumed: main is never rewound at origin; a clone's main is at most one commit ahead. The clone
may be used at any time. From the last comparison (line 98) to `git tag -s` (line 100) this
matters: line 105 compares the new tag with main as it is then, not with `VERIFIED_SHA`, so a
commit that landed in between is tagged and pushed. `slip` is history: whether main moved
there, by a pull ("pulled") or by a commit of the clone's own ("committed"). The properties say
that this moment is the only one: `PushedWasVerified` excepts pushes after either,
`TagOnMain` only those after a commit, since a pull gives what was merged. That the script
reports what it pushed is not true (`PushedAsReported`, see Findings).

### ReleaseWorkflow and ReleasePromise

`run[r]` is a workflow run: its tag and commit, `stage` (the step it is at), `job` (the job
that failed), the artifacts and `digest` it hands from job to job, `kept` (they are kept one
day), and the signed file. A build is its commit and a variant, for whatever a build that is
not reproducible leaves in it; the comparison is equality of both. A step may fail at any
time (`Fail`), an upload may succeed and its answer be lost (`Upload`, `Release`), and a run
is run again from its failed job, with the artifacts of earlier attempts, or from the start.
Runs of one tag follow each other (the `concurrency` group); a queued run is superseded by a
later push of its tag. Tags are deleted and pushed again, by allowed signers or others.

External: the Marketplace takes a version once, and `gh release create` wants a tag and no
release of it. The content checks of the archives, the SBOM, the plugin verifier and the
signature's checks pass or fail; a failure is `Fail`.

`ReleasePromise` has no runs: a version is uploaded once; its GitHub release follows with the
same bytes while somebody still holds them (`fresh`), or never. A consequence worth knowing
when a release goes wrong: a run that fails between Marketplace and GitHub cannot be
completed by running it again, since its job uploads first and the Marketplace refuses.

### SupplyChain and SupplySync

Whatever is recorded about a release (version, tag, date, checksum, URL, lock line,
verification component, pinned download) is represented by the number of the release it is
true of, so "out of step" is an inequality. `Kind` has one dependency of every kind that is
treated differently: Gradle and the JAR of its wrapper, a plugin, a library the script has no
route for, two products of which one is locked for the verifier alone, an action whose
version is a hash, a tool whose entry is its own declaration, a container image.

`Accepted` is the offline check, `Verify` the online one with all its answers, `ExitStatus`
the status of both. `Begin` computes what a run of the synchronisation will write (`Proved`
by the repository, `Answered` by the sources, the URL last); then every write is a step of its own, in the code's
order: a product's lock line, its component, ..., the workflow's checksum, the inventory. Any
subset of one, all or none of the sources is silent during a run (`mute`). Before it writes the
inventory an online run prints its problems (`PrintProblems`); an offline run writes first and prints
its notice then (`WriteInventory`, `Notice`). A run is cut off between any two writes or prints
(`CutOff`). `toTell` is what a run has yet to say, and `told`, which is history, how a lock line
came to lag: "warned" of in print, "promised" by the notice, "excused" when an offline run was
cut off before its notice or a declaration was edited, or "no". Upstream publishes and an image's tag is pushed again
between runs; Renovate, maintainers and the Relock workflow edit, completely or not.

`LockLagIsTold` says that no accepted lag is "no". It is the order of lines 499 and 510 that
makes it true of online runs: problems are printed before the inventory, which hides them from
the check, is written. Two things the model shows that a user of these scripts should know.
The offline notice says "rerun with --online to refresh them" of the lock
(sync-supply-chain.py:515), and a rerun does not, since it looks only at the products whose
version *it* moves: `RerunRefreshes` fails (see Findings). And a re-pushed image tag hides a
missed release until its grace is over, which `AuditTells` allows for (`Forgiven`).

Left out: the format of every file, the answers' syntax, the policy for exceptions, NuGet's
source mapping and lock files, and `--check`. A refresh sees one state of the repository and
of upstream: nobody edits while the script runs.

### PluginZip

`CheckStructure` is all that is decided before any entry is read: what makes an archive
canonical is one flag, except the three things the rest depends on: no name twice, entries that
tile the bytes up to the central directory, the closed set of names with every directory
before what is in it. Then a chunk of any size is read at a time. A pattern that must not
match is a marker, an interval of bytes of one entry; it is found if it lies in a window. `OverlapAssumption` (a marker is no longer than
what is kept, and one) is true of the tokens and of build paths: where these have no bound it is at their end,
and a match of the kept length matches already. It is not true of the first pattern (line 40),
which is unbounded in its middle: a private key's header with more than some 230 capitals and
spaces between `BEGIN` and `PRIVATE KEY` is not covered, and no such header is in use.

### CoverageReport and Coverage

A Kover report is a LINE counter per method, class, source file and for the whole, and the
line records of each file; a Cobertura report is line records per class and two counts. The
levels above the package are added up in the same way and left out. `CountsAgree` compares
what the readers accept with the sum over all methods, or the set of all lines.

`Coverage` is what is done with the totals: a maintainer establishes a surface's baseline and commits
it, the two Windows builds establish it anew in copies of their own, and CI compares three
files. A percentage is its fraction. The builds may measure anything: their tests need not be
deterministic. `check` is used by maintainers, with a reference report of their choice.

### ReleaseAudit

A file is what it was made of: a plugin ZIP is the build its entries are from, its author's
certificate and whether JetBrains has signed it too; its digest is the file. The publishing
job is `Sign`, `Create`, `Upload`, `Publish`, each after the checks that precede it, and may
be given up anywhere, so that the Marketplace has a version GitHub has not. What Gradle signs may
be something else than the compared ZIP: that is what the scripts are there to notice. Days
pass, certificates are replaced and expire, JetBrains countersigns, and (`Mishap`) any of the
four assets, or what the Marketplace gives, is replaced. Only the latest release at GitHub is
audited. The unsigned build is known to the audit from `release.json` alone, and only by form
(`verify-release.py:200-202`): with another manifest the audit may be content although the
manifest names a build nobody released. `AuditBindsPublic` therefore has two parts: GitHub and
Marketplace agree under the approved certificate, whatever was replaced; and both are the
compared build as long as the manifest is the one that was published (`published`, history).
`HealthyIsFine` leaves out the case in which an audit fails by design, the rotation or expiry
of the certificate the latest release is signed with; what it covers is a secret rotated ahead
of a release, the expiry of other certificates, and an audit while the next release is half published.

## Runs

| Run | Instance | Question |
|---|---|---|
| `refresh_edt` | 1 caller (EDT), 3 refreshes, 1 settings change, 2 endpoints, 2 services; 1.26 million states | `NewestPublishes`, `NoRegress`, `BoardMatchesSettings`, `FindingsMatchService`, and that the service implements `FindingsBoard` |
| `refresh_race` | startup thread and EDT, 3 refreshes, 1 endpoint, 1 service, fairness; or 1 call, 2 redirects, fairness; 0.15 million states | what survives the race on `refreshJob`: `SpinnerHasOwner`, `RefreshSettles`; of a call `NoOrphanedRead`, `SecretStaysHome`, `CallEnds`, `ThreadReturned` |
| `credentials` | 2 projects, 3 edits, 2 persisted and 4 typed lists; or 2 endpoints (one the default), 3 changes of the token file, 2 refreshes; 1.88 million states | `SafeSendable`, `UntouchedKept`, `SecretHasEndpoint`, `AppliedOrStillEdited`; `TokenGoesHome`, `TokenIsCurrent` |
| `watchers` | 2 editors, 2 files (one not on disk), 5 highlight jobs, fairness; or 1 navigation, 2 resolvers, 1 edit, 1 turn of the index; 1.03 million states | `ViewsMatchFindings`, `NoStrayMark`, `FindingGetsMarked`; `OpensTheOnly` |
| `ci` | the 4 jobs with conditions, pull request, fork and main, 2 commits and a dispatch, 1 re-run, fairness; 0.42 million states | `GreenMeansPassed`, `GateReports` |
| `ci_green` | the same, without re-runs and fairness | `GreenMeansChecked`, which fails |
| `release_script` | 2 clones, 1 version, 3 commits, 2 starts; 1.66 million states | `TagOnMain`, `PushedWasVerified` |
| `release_says` | 1 clone, 2 commits, 1 start | `PushedAsReported`, which fails |
| `workflows` | 2 runs of 1 version, 2 commits, 2 build variants, 2 re-runs; or relock: 2 updates, 2 groups, 2 artifacts, 3 commits, 1 run, 2 re-runs; 1.45 million states | `UploadedWasTagged`, `SignedWasReproduced`, and that the workflow implements `ReleasePromise`; `ChecksumsKept`, `RelockFits` |
| `supply_chain` | one dependency of each of the nine kinds, 3 versions of which one is not stable, grace of 1, 2 releases or re-pushes, 2 edits; 0.36 million states | `SyncedIsFresh`, `LockLagIsTold`, `AuditTells` |
| `sync_promise` | the same | `RerunRefreshes`, which fails |
| `evidence` | 5 487 reports; 3 coverage rates; 1 925 archives; 2 versions, 2 builds, 2 certificates, 3 days, 1 mishap; 1.70 million states | `CountsAgree`, `MergedIsMeasured`, `CheckedHolds`, `AcceptedIsClosed`, `MarkersAreSeen`, `AuditBindsPublic`, `HealthyIsFine` |

With both callers `NewestPublishes` and `NoRegress` are not claimed: if the
startup activity and a click overlap, both may cancel the same job, two refreshes then live,
and the older may publish last. They are properties of refreshes asked for on the EDT, which
is every refresh but the first. The project survives the race (`refresh_race`, and
`FindingsAlwaysMatch` below): what is shown is right for its service, and the spinner stops.

Why the bounds are enough. Three refreshes give an old one, one that overtakes it and one
after both; the proofs remove the bound for the safety properties they cover. One settings
change has the two stores of `update` fall on either side of a refresh's two reads. Two
endpoints give success beside failure; two services a change of service. Two dialogs and
three edits allow: a secret set in one, shown in the other, cleared in the first, written by
the second. Five highlight jobs are one more than two editors and one refresh schedule.
Three commits are the verified one, one merged meanwhile and one made locally; two starts let
two clones race for a version, or one try again. Two runs and two re-runs let a version be
pushed, fail, be deleted, pushed on another commit and run again, with the first run re-run
in between. Three changes of the token file are a login, something done to it, and another
login, in one refresh or across two. Two commits and a re-run let a run be cancelled by the
next, run again, and cancel that one in turn; the jobs without needs or conditions of their
own differ from `jvm` only in that no job needs them. One relock run and two re-runs let it
commit, lose the answer and try both jobs again; runs of one pull request follow each other,
so a second adds only another start. Two edits and two pieces of news let a product be
declared anew, the run for it be cut off, and another version be declared on top; three versions
with an unstable one in the middle separate the newest from the newest stable, and a grace of
one the released from the matured. A report has three methods in two classes of two files, and one
counter wrong or one part missing; an archive has six entries, in every order, three of them at
any offsets, or a marker of up to three bytes at any place of up to five, read in all ways; the proportion of
kept bytes to marker is the code's. Two versions let the audit look at the wrong one; two
builds and two certificates let each be exchanged.

Deadlock is not checked: each system may really come to rest (every refresh done, the call
ended, the dialogs closed), and the bounds end behaviours. That the right things happen
before rest is what the liveness properties say.

Symmetry, with safety properties only: `RefreshEdt.cfg` on endpoints, `ReleaseScript.cfg` on
clones, `Workflows.cfg` on the release workflow's commits, variants and runs.

## Fairness

- `RefreshService`: a `refresh()` that has begun returns, `update` stores its second field, a
  job that can step steps. The fetches end because `DaemonClient` ends them (`CallEnds`);
  that the password safe and the token file answer, which no timeout covers, is assumed; the EDT empties its queue because its blocks do not wait. Nothing obliges a user to
  click, to edit or to close the project.
- `DaemonClient`: threads run, the five-second timer fires. The network owes nothing: that a
  call ends although the daemon stays silent is the point of the timer.
- `Watchers`: the startup activity, refreshes and highlight jobs go on; an opened editor's
  event is delivered.

- `Ci`: the runner goes on with a run whose jobs are not over. Every job has a time limit, so
  each ends; which way it ends nobody owes.

The release models, `TokenFile`, `Relock`, the supply chain and the evidence state safety only,
and no fairness: nothing obliges a maintainer, a reviewer, a source or a runner to go on.

## Findings

Three statements of the repository that its code does not keep, each with a run whose trace
shows how.

- `release_says`: `release.sh:108` says `pushed signed tag %s at %s` of the verified commit. A
  commit made in the clone after line 98 and before line 100 is tagged instead; line 105 compares
  with main, where that commit is by then. Comparing with `VERIFIED_SHA` there would do.
- `ci_green`: the gate "fails when any applicable check fails" (`CONTRIBUTING.md:41`). A change
  of code that `git diff --name-only` does not show is classified as documentation
  (`ci.yml:47`), no job applies, and the gate is green.
- `sync_promise`: "the derived lock and verification entries were left untouched: rerun with
  --online to refresh them" (`sync-supply-chain.py:514-515`). The rerun finds the inventory moved
  and nothing to derive, and leaves the lock line without a word.

## Theorems

Every safety property of every run is proved, for any finite or infinite sets of endpoints,
services, callers, projects, clones, tags, commits and runs, and for any bounds. Where the
code can only meet finitely many (what a report lists, the resolvers, the versions of a
release) the module assumes that much by name; hypotheses beyond that are stated below, with
the theorem that has them. Of each proof the invariant is what matters: which facts, beside
the property, every step needs and keeps.

### The plugin

- `RefreshServiceProofs`: `TypeCorrect`, `FindingsAlwaysMatch` and `SpinnerAlwaysOwned` for any
  number of racing callers. `FindingsMatchService` alone is not inductive: a job carries a
  board from its read of `state` to its publication, so `IInv` also says that every board a
  job carries is sound (`JobInv`), is for the job's own service and lists the job's endpoints.
  Nor is `SpinnerHasOwner`: the announcement of a job that is cancelled while it is on the EDT
  would start the spinner for nobody, unless such a block has an owner too (`OwnerInv`),
  and a caller that has cancelled must know the job it will launch (`CallerInv`).
- The same module under the hypothesis `Caller = {Edt}`: `SingleFlight`,
  `NewestAlwaysPublishes`, `NeverRegresses`, `BoardImplemented`, `BoardFollowsSettings`. The
  invariant `EInv` says that only the newest call's job is live and that `refreshJob` names it
  whenever the EDT is between two calls (`CallInv`), that a block on the EDT belongs to it
  (`EdtInv`), that the board it carries is the one on show once announced (`AgreeInv`), and that no
  time in any board is later than the clock (`ClockInv`). `NoRegress` and the refinement
  follow from `AgreeInv`: what `PublishResult` overwrites is what the job started from.
  `BoardFollowsSettings` adds `FollowInv`: a refresh asked for after the last change has read,
  or will read, the settings as they are.
- `DaemonClientProofs`: `TypeCorrect`, `NeverOrphaned`, `SecretAlwaysHome`, for any redirect
  limit. `NeverOrphaned` rests on: a thread that reads has stored its connection, and it found
  the continuation active after that, so a later canceller finds the connection.
- `SettingsProofs`, on the safe: `SafeAlwaysSendable`, `UntouchedAlwaysKept`. `Inv` adds what a
  dialog must remember: a field nobody touched shows the stored secret, and what is left to
  write was touched and has passed `apply()`'s checks. Neither depends on normalization, so
  they hold for two-port URLs as well.
- `SettingsProofs`, on lists: `DialogTypeCorrect`; `SecretAlwaysHasEndpoint` and
  `AppliedAlwaysSettled` under the hypothesis `TextsSettle`, which `OnePortSettles` derives from
  `OnePort` for lists of any length, and which two-port URLs really break. `ListInv` says that
  what a project queries is fixed under normalization, that what an `apply()` has submitted is
  what is queried, and that what it has yet to write is still among the dialog's edits.
- `SettingsProofs`, on the token file: `TokenTypeCorrect`, `TokenAlwaysGoesHome`,
  `TokenAlwaysCurrent`. `TokenInv` follows the token: a usable file names the hub that issued it
  (`FileInv`), so does what the refresh read of it (`CliInv`), nobody was asked before the clock
  was read (`OrderInv`), and an answer is about the content that was read (`AnswerInv`).
- `WatchersProofs`, on marks and rows: `TypeCorrect`, `MarksStayTracked`, `ViewsAlwaysMatch`. Only
  the job scheduled last can still do something (`LastInv`); once a refresh was announced it has
  marked the findings on show or is on its way with them (`MarkInv`); the panel has the
  state's rows and no details but the selection's (`PanelInv`); after `dispose` nothing is
  tracked and nothing pending (`TrackInv`). At rest these four are `ViewsMatchFindings`.
- `WatchersProofs`, on navigation: `NavTypeCorrect`, `OnlyTargetOpened`, for any languages,
  installed resolvers and findings. While the project holds still, the hits so far are the
  answers of those asked so far, in whatever order (`StillInv`); guesses find classes only, and
  nobody guesses while Java has the method, whatever the index does meanwhile (`GuessInv`);
  nobody has failed who is still to be asked (`FailInv`).

### Release and repository

- `ReleaseScriptProofs`, with no hypothesis: `TypeCorrect`, `TagAlwaysOnMain`,
  `PushAlwaysVerified`. `Inv` adds an order: from round 2 on a script's verified commit is
  at most what it read from origin, which is at most the clone's main (`Ordered`); so when
  the last comparison finds main equal to the verified commit, all three are one, and it was
  head at origin. What a script has by step is `Fits`; what may be tagged, by how main slipped,
  is `OnTarget`.
- `ReleaseWorkflowProofs`: `UploadedAlwaysTagged`, `SignedAlwaysReproduced`, `PromiseKept`.
  The invariant says what a run has at each stage (`RunInv`), that runs of one tag are never
  at work together (`OneAtWork`), which is what keeps an uploaded ZIP the one its run is about
  to release, and that an allowed tag at origin is on record (`TagsInv`).
- `SupplyProofs`, on relock: `RelockTypeCorrect`, `ChecksumsAlwaysKept`, `RelockAlwaysFits`. A run's
  patch fits the commit the run began with at every stage and re-run (`RunsInv`); a relock's
  commit is on top of the one its run worked on, which is no longer the head (`CommitsInv`), so
  no second relock of it can follow (`OnceInv`).
- `SupplyProofs`, on the inventory: `SupplyTypeCorrect`, `AuditAlwaysTells`, `LagAlwaysTold`,
  `SyncedAlwaysFresh`. `RunInv` says of a run at work that it has dealt with every product whose
  version it moves, or still has it in `moved`, or has it in `toTell`, which is empty when an
  online run writes the inventory; `LagInv`, that a lock line left behind was told
  of or is visible in the declarations; `SourceInv` and `OutInv`, that URLs follow their
  versions and declared versions were published; `SettledInv`, that what an untroubled run
  computed is settled until somebody else touches it.
- `EvidenceProofs`, on archives: `MarkersAlwaysSeen` for any archive, overlap and length of
  markers within `OverlapAssumption`, and `AcceptedAlwaysClosed` for archives of any number of
  entries. `ZipInv` says that the window holds as many of the bytes read as fit the overlap,
  so that a marker which is not over yet begins after what was dropped; `StructureInv`, that
  what the structure has shown stays true while content is read. They rest on
  `ArchiveAssumption`: a marker is in its entry's stream and no longer than `Longest`.
- `EvidenceProofs`, on coverage: `CountsAlwaysAgree` for reports of any size: the sums are over
  any finite sets, and `TotalOfTotals` says that class by class or file by file they are the
  same; `MergedAlwaysMeasured` and `CheckedAlwaysHolds`, from what each committed value was
  established from (`OriginInv`), what a build's copy holds (`EvidenceInv`) and what a verdict
  still says (`VerdictInv`).
- `EvidenceProofs`, on the release audit: `AuditAlwaysBinds`, `HealthyAlwaysFine`. `DeskInv` is what
  the publishing job has in hand at each stage, `PublicInv` what was published and what the public
  has while no mishap befell it, `AuditSaid` that a verdict still holds of what it was said of.
- `EvidenceProofs`, on the CI gate: `GateTypeCorrect` and `GreenAlwaysPassed`, whatever `git diff`
  shows. `Sound` says that a
  run's reports stay true over cancellations and re-runs: a job that succeeded did so on this
  commit, artifacts that are there were built, and the class is that of the change.

### Assumptions

They are the named ASSUMEs of the modules, which TLC evaluates in every run: null
values differ from real ones, the EDT is a caller, bounds are natural numbers; the lines of a
list are URLs or blank (`ListAssumption`); the token file's endpoints are a list the dialog
accepts (`LinesAssumption`); places and languages are finitely many, each place is in one
language and no method is a class (`PlaceAssumption`); a coverage rate has a positive denominator
(`RatesAssumption`), and a report lists finitely many counters (`ReportAssumption`); versions
are finitely many numbers and what replaces an asset is a ZIP or a manifest (`AuditAssumption`); the wrapper comes with its Gradle
(`KindAssumption`); the archive has a root (`RootAssumption`). None says anything of what the
program does.

### Induction

The induction theorems of the library take an operator, which the provers here cannot
instantiate. What needs induction is therefore proved from `WFMin` for a *set* instead: a
statement about all finite subsets, or all numbers, has a smallest counterexample, and there is
none (`SetInduction` and `SmallestBad` in `EvidenceProofs`, `UpwardInduction` in
`SettingsProofs`). That is enough for sums over finite sets, for the walk of an archive's
directories, and for `Picked`, the recursive function by which `EndpointConfig` filters lists:
it is one because the prover knows no definition of `SelectSeq` or of the folds.

### What is only model-checked

Liveness: `RefreshSettles`, `CallEnds`, `ThreadReturned`, `FindingGetsMarked` and
`GateReports`, which is beyond the prover. No safety property that holds is only model-checked.

Type correctness and `OneLiveRefresh` are proved and therefore in no run.

## Plan

Done: the modules above, and proofs of all their safety properties. What could follow, in this
order:

1. Theorems about `FindingsBoard` and `ReleasePromise`
   themselves, which then hold of the code as well; a weaker condition than `OnePort` that
   still implies `TextsSettle` (a second port matters only behind one that is dropped).
2. `FindingContract`: which answers of a daemon become findings; `SqlTableExtractor`.
3. The exceptions of `check-supply-chain.py` and their expiry, its NuGet locks, and
   `check-version.py`.


The project keeps to a dozen runs and forty checked properties, so that a full check stays a
matter of minutes: new components share an instance module that moves one of them at a time,
as `MCEvidence` and `MCWatchers` do.

## Not modelled

Parsing and layout (`FindingContract`, table cells, status text), how the language resolvers
match names, and build files are functions of their input without state or order.

`check-repository-policy.py`, `check-analysis-config.py`, `check-dependency-automation.py`,
`check-badges.py` and `check-version.py` compare configuration text with lists of literals: each
check is one line of the policy it states, in no order that matters, and a model of them would
be those lists once more.

`gradle-retry.sh` is a loop around one command, of at most six rounds. Its hazard is in
the words it greps for: it looks for the retried texts in the whole log (line 35), the tests'
part of it included, so a test that expects a `DaemonTimeoutException` and gets the socket's own
timeout, which has the same length, fails with `SocketTimeoutException` in its message; the
suite is then run again and may pass, which lines 14 to 17 and 25 say cannot be. A limit of 0,
or one that is no number, makes `seq` yield nothing and the script end with status 0.

The password
safe, coroutines, `HttpRequests`, the EDT and the editors are external: modelled from how the
code uses them.
