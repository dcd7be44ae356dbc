--------------------------- MODULE ReleaseWorkflow ---------------------------
(***************************************************************************)
(* .github/workflows/release.yml: what pushed version tags set off.        *)
(*                                                                         *)
(* A push queues a run.  The runs of one tag follow each other (the        *)
(* concurrency group), but any step of a run may fail, an upload may       *)
(* succeed and its answer be lost, and a run that failed may be run again, *)
(* from the jobs that failed or from the start.  Meanwhile tags are        *)
(* deleted and pushed again, and artifacts are kept for a day.             *)
(*                                                                         *)
(* A ZIP is what was built: a commit, and a variant that stands for        *)
(* whatever a build that is not reproducible leaves in it.  A signed ZIP   *)
(* is a ZIP and a variant of the signature.                                *)
(***************************************************************************)
EXTENDS Integers

CONSTANTS Tag,
          Commit,
          Variant,
          Run,       \* bound: the runs there can be
          MaxReruns, \* bound: times anything is run again
          NoTag,
          NoZip

VARIABLES originTags,  \* tags at origin: NoTag, or a commit and whether an allowed signer signed
          tagged,      \* history: tag and commit of every push of an allowed signer
          run,         \* the workflow runs
          market,      \* per version: the author-signed ZIP the Marketplace took
          releases,    \* per version: the author-signed ZIP of the GitHub release
          reruns       \* runs that were run again

vars == <<originTags, tagged, run, market, releases, reruns>>

Zip == [commit : Commit, variant : Variant]
Signed == [zip : Zip, signature : Variant]
Pushed == [commit : Commit, allowed : BOOLEAN]

ASSUME NullAssumption ==
  /\ NoTag \notin Pushed
  /\ NoZip \notin Zip \cup Signed
ASSUME BoundAssumption == MaxReruns \in Nat

\* stage: the step a run is at.  job: the job that failed, once the stage is "failed".
\* a, b: the two Windows builds; verified: the artifact of compare; digest: its output;
\* kept: whether the artifacts are still there; signed: the file of the publishing job.
Unused(r) == run[r].stage = "unused"

NewRun(t, c) ==
  [tag |-> t, sha |-> c, stage |-> "queued", job |-> "none", a |-> NoZip, b |-> NoZip,
   verified |-> NoZip, digest |-> NoZip, kept |-> TRUE, signed |-> NoZip]

JobOf(stage) ==
  CASE stage \in {"queued", "validate"} -> "validate"
    [] stage = "build" -> "build"
    [] stage = "compare" -> "compare"
    [] OTHER -> "publish"

FirstStage(job) == IF job = "publish" THEN "approval" ELSE job

Resting == {"unused", "queued", "failed", "done"}
Live(r) == run[r].stage \notin Resting

Init ==
  /\ originTags = [t \in Tag |-> NoTag]
  /\ tagged = {}
  /\ \E t \in Tag, c \in Commit :
       run = [r \in Run |-> [NewRun(t, c) EXCEPT !.stage = "unused"]]
  /\ market = [t \in Tag |-> NoZip]
  /\ releases = [t \in Tag |-> NoZip]
  /\ reruns = 0

At(r, stage) == run[r].stage = stage
Goto(r, stage) == run' = [run EXCEPT ![r].stage = stage]
public == <<market, releases>>
tags == <<originTags, tagged>>

(***************************************************************************)
(* Origin and GitHub.                                                      *)
(***************************************************************************)

\* A run that was to be run again and is superseded while it waits keeps its job.
Failed(r) ==
  [run[r] EXCEPT !.stage = "failed",
                 !.job = IF run[r].stage = "queued" /\ @ # "none" THEN @ ELSE JobOf(run[r].stage)]

\* A tag is pushed where there is none.  Its run waits for those of the same tag, and takes
\* the place of one that was waiting already.
PushTag(r, t, c) ==
  /\ Unused(r)
  /\ originTags[t] = NoTag
  /\ \E allowed \in BOOLEAN :
       /\ originTags' = [originTags EXCEPT ![t] = [commit |-> c, allowed |-> allowed]]
       /\ tagged' = IF allowed THEN tagged \cup {<<t, c>>} ELSE tagged
  /\ run' = [s \in Run |-> CASE s = r -> NewRun(t, c)
                             [] s # r /\ At(s, "queued") /\ run[s].tag = t -> Failed(s)
                             [] OTHER -> run[s]]
  /\ UNCHANGED <<public, reruns>>

DeleteTag(t) ==
  /\ originTags[t] # NoTag
  /\ originTags' = [originTags EXCEPT ![t] = NoTag]
  /\ UNCHANGED <<tagged, run, public, reruns>>

\* concurrency: one run per tag, and none is cancelled for another.
StartRun(r) ==
  /\ At(r, "queued")
  /\ \A s \in Run : run[s].tag = run[r].tag => ~Live(s)
  /\ run' = [run EXCEPT ![r].stage =
       IF run[r].job = "none" THEN "validate" ELSE FirstStage(run[r].job)]
  /\ UNCHANGED <<tags, public, reruns>>

\* Any step may fail: a check, a command, a time limit, a rejected approval.
Fail(r) ==
  /\ Live(r)
  /\ run' = [run EXCEPT ![r] = Failed(r)]
  /\ UNCHANGED <<tags, public, reruns>>

\* "Re-run failed jobs": what succeeded is kept, one of the two builds included.
RerunFailed(r) ==
  /\ At(r, "failed")
  /\ reruns < MaxReruns
  /\ reruns' = reruns + 1
  /\ Goto(r, "queued")
  /\ UNCHANGED <<tags, public>>

\* "Re-run all jobs".
RerunAll(r) ==
  /\ run[r].stage \in {"failed", "done"}
  /\ reruns < MaxReruns
  /\ reruns' = reruns + 1
  /\ run' = [run EXCEPT ![r] = NewRun(run[r].tag, run[r].sha)]
  /\ UNCHANGED <<tags, public>>

\* retention-days: 1
Expire(r) ==
  /\ run[r].a # NoZip \/ run[r].b # NoZip
  /\ run[r].kept
  /\ run' = [run EXCEPT ![r].kept = FALSE]
  /\ UNCHANGED <<tags, public, reruns>>

(***************************************************************************)
(* The jobs.                                                               *)
(***************************************************************************)

\* Mutant: the tag's signature is not verified.
TagOnCommit(r) ==
  originTags[run[r].tag] \in [commit : {run[r].sha}, allowed : BOOLEAN]

\* The tag at origin is still on the run's commit, and an allowed signer's.
TagStands(r) ==
  originTags[run[r].tag] = [commit |-> run[r].sha, allowed |-> TRUE]

ValidateTag(r) ==
  /\ At(r, "validate")
  /\ TagStands(r)
  /\ Goto(r, "build")
  /\ UNCHANGED <<tags, public, reruns>>

Build(r) ==
  /\ At(r, "build")
  /\ \E v \in Variant :
       LET zip == [commit |-> run[r].sha, variant |-> v] IN
       \/ run[r].a = NoZip /\ run' = [run EXCEPT ![r].a = zip]
       \/ run[r].b = NoZip /\ run' = [run EXCEPT ![r].b = zip]
  /\ UNCHANGED <<tags, public, reruns>>

BuildsDone(r) ==
  /\ At(r, "build")
  /\ run[r].a # NoZip /\ run[r].b # NoZip
  /\ Goto(r, "compare")
  /\ UNCHANGED <<tags, public, reruns>>

\* Mutant: the archives are not compared.
AnyBuilds(r) == TRUE

Identical(r) == run[r].a = run[r].b

Compare(r) ==
  /\ At(r, "compare")
  /\ run[r].kept
  /\ Identical(r)
  /\ run' = [run EXCEPT ![r].verified = run[r].a, ![r].digest = run[r].a,
                        ![r].stage = "approval"]
  /\ UNCHANGED <<tags, public, reruns>>

\* The environment's reviewer lets the job start.
Approve(r) ==
  /\ At(r, "approval")
  /\ Goto(r, "recheck")
  /\ UNCHANGED <<tags, public, reruns>>

Recheck(r) ==
  /\ At(r, "recheck")
  /\ TagStands(r)
  /\ Goto(r, "bind")
  /\ UNCHANGED <<tags, public, reruns>>

\* Download of the artifact, and its digest.
Bind(r) ==
  /\ At(r, "bind")
  /\ run[r].kept
  /\ run[r].verified = run[r].digest
  /\ Goto(r, "sign")
  /\ UNCHANGED <<tags, public, reruns>>

\* signPlugin, the signature's checks, SBOM and release manifest.
Sign(r) ==
  /\ At(r, "sign")
  /\ \E v \in Variant :
       run' = [run EXCEPT ![r].signed = [zip |-> run[r].verified, signature |-> v],
                          ![r].stage = "checkUpload"]
  /\ UNCHANGED <<tags, public, reruns>>

CheckUpload(r) ==
  /\ At(r, "checkUpload")
  /\ TagStands(r)
  /\ Goto(r, "upload")
  /\ UNCHANGED <<tags, public, reruns>>

\* Mutant: a version the Marketplace already has counts as uploaded, so that a run can be
\* run again after a failure.
UploadOrSkip(r) ==
  /\ At(r, "upload")
  /\ market' = [market EXCEPT ![run[r].tag] = IF @ = NoZip THEN run[r].signed ELSE @]
  /\ Goto(r, "checkRelease")
  /\ UNCHANGED <<tags, releases, reruns>>

\* publishPlugin.  The Marketplace takes a version once.  Its answer may be lost.
Upload(r) ==
  /\ At(r, "upload")
  /\ market[run[r].tag] = NoZip
  /\ market' = [market EXCEPT ![run[r].tag] = run[r].signed]
  /\ \/ Goto(r, "checkRelease")
     \/ run' = [run EXCEPT ![r] = Failed(r)]
  /\ UNCHANGED <<tags, releases, reruns>>

CheckRelease(r) ==
  /\ At(r, "checkRelease")
  /\ TagStands(r)
  /\ Goto(r, "release")
  /\ UNCHANGED <<tags, public, reruns>>

\* gh release create --verify-tag, which wants a tag and no release.
Release(r) ==
  /\ At(r, "release")
  /\ originTags[run[r].tag] # NoTag
  /\ releases[run[r].tag] = NoZip
  /\ releases' = [releases EXCEPT ![run[r].tag] = run[r].signed]
  /\ \/ Goto(r, "done")
     \/ run' = [run EXCEPT ![r] = Failed(r)]
  /\ UNCHANGED <<tags, market, reruns>>

Job(r) ==
  \/ ValidateTag(r) \/ Build(r) \/ BuildsDone(r) \/ Compare(r)
  \/ Approve(r) \/ Recheck(r) \/ Bind(r) \/ Sign(r)
  \/ CheckUpload(r) \/ Upload(r) \/ CheckRelease(r) \/ Release(r)

Next ==
  \/ \E r \in Run, t \in Tag, c \in Commit : PushTag(r, t, c)
  \/ \E t \in Tag : DeleteTag(t)
  \/ \E r \in Run : \/ StartRun(r) \/ Fail(r) \/ RerunFailed(r) \/ RerunAll(r)
                    \/ Expire(r) \/ Job(r)

Spec == Init /\ [][Next]_vars

(***************************************************************************)
(* Properties.                                                             *)
(***************************************************************************)

JobName == {"none", "validate", "build", "compare", "publish"}
Working == {"validate", "build", "compare", "approval", "recheck", "bind", "sign",
            "checkUpload", "upload", "checkRelease", "release"}
Publishing == {"checkUpload", "upload", "checkRelease", "release", "done"}

RunRecord ==
  [tag : Tag, sha : Commit, stage : Working \cup Resting, job : JobName,
   a : Zip \cup {NoZip}, b : Zip \cup {NoZip}, verified : Zip \cup {NoZip},
   digest : Zip \cup {NoZip}, kept : BOOLEAN, signed : Signed \cup {NoZip}]

\* The type invariant: every variable of the release workflow keeps its type; nothing but a
\* signed ZIP is ever uploaded.
TypeOK ==
  /\ originTags \in [Tag -> Pushed \cup {NoTag}]
  /\ tagged \subseteq Tag \X Commit
  /\ run \in [Run -> RunRecord]
  /\ market \in [Tag -> Signed \cup {NoZip}]
  /\ releases \in [Tag -> Signed \cup {NoZip}]
  /\ reruns \in 0 .. MaxReruns

\* What the Marketplace has under a version was built from a commit that an allowed signer
\* tagged with that version when its run looked, whatever was deleted, pushed or run again since.
UploadedWasTagged ==
  \A t \in Tag : market[t] # NoZip => <<t, market[t].zip.commit>> \in tagged

\* What a run signs and publishes is what both of its Windows builds made of its commit,
\* though builds, comparison and publication may come from different attempts.
SignedWasReproduced ==
  \A r \in Run : run[r].stage \in Publishing =>
    /\ run[r].signed # NoZip
    /\ run[r].a = run[r].signed.zip
    /\ run[r].b = run[r].signed.zip
    /\ run[r].signed.zip.commit = run[r].sha

\* The versions a run has uploaded and is about to release at GitHub.
Fresh == {run[r].tag : r \in {s \in Run : run[s].stage \in {"checkRelease", "release"}}}

Promise == INSTANCE ReleasePromise WITH fresh <- Fresh

\* The workflow keeps the promise of ReleasePromise: one ZIP per version, the same bytes at
\* the Marketplace and at GitHub, and a run that fails between the two is not completed by
\* running it again.
KeepsPromise == Promise!Spec
=============================================================================
