------------------------------- MODULE Relock -------------------------------
(***************************************************************************)
(* .github/workflows/relock.yml and scripts/ci/relock.py: locks and        *)
(* checksums of a Renovate pull request are brought up to date and         *)
(* committed to its branch, while the branch moves.                        *)
(*                                                                         *)
(* Commits are numbered as they are made.  Of a commit are kept: the       *)
(* update it proposes, the update its locks are for, the checksums, and of *)
(* a relock's commit the commit it worked on, the one it was put on, and   *)
(* what it could not find.                                                 *)
(***************************************************************************)
EXTENDS Integers

CONSTANTS Update,      \* what a pull request may propose
          Group,       \* groups of configurations and verifier targets
          Artifact,
          Digest,
          NoDigest,
          Resolves,    \* per update and group: the artifacts Gradle resolves
          MergedSums,  \* the checksums Renovate's commits may come with
          RelockRun,         \* bound: workflow runs
          MaxCommits,  \* bound: commits on the branch
          MaxRelockReruns    \* bound: times anything is run again

Sums == [Artifact -> Digest \cup {NoDigest}]

ASSUME DigestAssumption == NoDigest \notin Digest
ASSUME ResolvesAssumption == Resolves \in [Update -> [Group -> SUBSET Artifact]]
ASSUME SumsAssumption == MergedSums \subseteq Sums
ASSUME RelockBoundAssumption == MaxCommits \in Nat \ {0} /\ MaxRelockReruns \in Nat

VARIABLES commits,  \* the commits made, by number
          made,     \* how many
          head,     \* head of the pull request's branch
          relock,
          relockReruns

relockVars == <<commits, made, head, relock, relockReruns>>

Number == 1 .. MaxCommits

\* parent and relocked: 0 but for a relock's commit
ByRenovate(u, l, sums) ==
  [update |-> u, lock |-> l, sums |-> sums, parent |-> 0, relocked |-> 0, missing |-> {}]

\* sha: the commit worked on.  todo: groups left.  found: checksums collected.  missing: what
\* was not found.  sums: the metadata of the patch.  kept: whether the patch is still there.
NewRelock ==
  [stage |-> "unused", dry |-> FALSE, sha |-> 1, todo |-> Group,
   found |-> [a \in Artifact |-> NoDigest], missing |-> {},
   sums |-> [a \in Artifact |-> NoDigest], kept |-> TRUE, job |-> "relock"]

RelockInit ==
  /\ \E u, l \in Update, sums \in MergedSums :
       commits = [n \in Number |-> ByRenovate(u, l, sums)]
  /\ made = 1
  /\ head = 1
  /\ relock = [r \in RelockRun |-> NewRelock]
  /\ relockReruns = 0

StageIs(r, stage) == relock[r].stage = stage
GoesTo(r, stage) == relock' = [relock EXCEPT ![r].stage = stage]
AtRest == {"unused", "failed", "done"}
AllAtRest == \A s \in RelockRun : relock[s].stage \in AtRest
branch == <<commits, made, head>>

(***************************************************************************)
(* The branch and GitHub.                                                  *)
(***************************************************************************)

\* Renovate, or a maintainer, pushes or rebases: other updates, locks and checksums.
MoveBranch ==
  /\ made < MaxCommits
  /\ made' = made + 1
  /\ head' = made + 1
  /\ \E u, l \in Update, sums \in MergedSums :
       commits' = [commits EXCEPT ![made + 1] = ByRenovate(u, l, sums)]
  /\ UNCHANGED <<relock, relockReruns>>

\* concurrency: the runs of a pull request follow each other.
Dispatch(r) ==
  /\ StageIs(r, "unused")
  /\ AllAtRest
  /\ \E dry \in BOOLEAN : relock' = [relock EXCEPT ![r].stage = "resolve", ![r].dry = dry]
  /\ UNCHANGED <<branch, relockReruns>>

\* Any step may fail; the pull request may be closed, Gradle may fail, a job may time out.
JobFails(r) ==
  /\ relock[r].stage \notin AtRest
  /\ GoesTo(r, "failed")
  /\ UNCHANGED <<branch, relockReruns>>

\* "Re-run failed jobs": the relock job from its start, or the push job with the old patch.
RelockFailedJob(r) ==
  /\ StageIs(r, "failed")
  /\ AllAtRest
  /\ relockReruns < MaxRelockReruns
  /\ relockReruns' = relockReruns + 1
  /\ relock' = [relock EXCEPT ![r] = IF relock[r].job = "push" THEN [relock[r] EXCEPT !.stage = "apply"]
                               ELSE [NewRelock EXCEPT !.stage = "resolve", !.dry = relock[r].dry]]
  /\ UNCHANGED branch

RelockAgain(r) ==
  /\ relock[r].stage \in {"failed", "done"}
  /\ AllAtRest
  /\ relockReruns < MaxRelockReruns
  /\ relockReruns' = relockReruns + 1
  /\ relock' = [relock EXCEPT ![r] = [NewRelock EXCEPT !.stage = "resolve", !.dry = relock[r].dry]]
  /\ UNCHANGED branch

\* retention-days: 7
PatchExpires(r) ==
  /\ relock[r].job = "push" /\ relock[r].kept
  /\ relock' = [relock EXCEPT ![r].kept = FALSE]
  /\ UNCHANGED <<branch, relockReruns>>

(***************************************************************************)
(* The relock job.                                                         *)
(***************************************************************************)

\* gh pr view
ResolvePr(r) ==
  /\ StageIs(r, "resolve")
  /\ relock' = [relock EXCEPT ![r].stage = "groups", ![r].sha = head]
  /\ UNCHANGED <<branch, relockReruns>>

Base(r) == commits[relock[r].sha]

\* What Gradle reports under lenient verification: artifacts without a checksum, and those
\* whose checksum is another one.
Reported(r, g, served) ==
  {a \in Resolves[Base(r).update][g] : Base(r).sums[a] # served[a]}

\* Gradle on one group, and collect: what was reported is hashed from the cache, unless it is
\* not found there.  The cache is then emptied, so every group downloads anew.
RunGroup(r, g) ==
  /\ StageIs(r, "groups")
  /\ g \in relock[r].todo
  /\ \E served \in [Artifact -> Digest], lost \in SUBSET Resolves[Base(r).update][g] :
       LET reported == Reported(r, g, served) IN
       /\ lost \subseteq reported
       /\ relock' = [relock EXCEPT
            ![r].todo = @ \ {g},
            ![r].missing = @ \cup lost,
            ![r].found = [a \in Artifact |-> IF a \in reported \ lost THEN served[a] ELSE @[a]]]
  /\ UNCHANGED <<branch, relockReruns>>

\* Mutant: the collected checksum wins.
Overwritten(old, found) ==
  [a \in Artifact |-> IF found[a] # NoDigest THEN found[a] ELSE old[a]]

\* insert: an artifact that has a checksum keeps it.
Inserted(old, found) ==
  [a \in Artifact |-> IF old[a] # NoDigest THEN old[a] ELSE found[a]]

UploadPatch(r) ==
  /\ StageIs(r, "groups")
  /\ relock[r].todo = {}
  /\ relock' = [relock EXCEPT ![r].sums = Inserted(Base(r).sums, relock[r].found),
                        ![r].stage = IF relock[r].dry THEN "done" ELSE "apply",
                        ![r].job = IF relock[r].dry THEN "relock" ELSE "push"]
  /\ UNCHANGED <<branch, relockReruns>>

(***************************************************************************)
(* The push job.                                                           *)
(***************************************************************************)

\* A patch that changes nothing ends the run; one that touches anything but locks and
\* checksums is refused, which is Fail.
Apply(r) ==
  /\ StageIs(r, "apply")
  /\ relock[r].kept
  /\ GoesTo(r, IF Base(r).lock = Base(r).update /\ relock[r].sums = Base(r).sums
             THEN "done" ELSE "commit")
  /\ UNCHANGED <<branch, relockReruns>>

\* Mutant: the commit goes onto whatever is there (no expectedHeadOid).
AnyHead(r) == TRUE

ExpectedHead(r) == head = relock[r].sha

\* createCommitOnBranch puts whole files onto the head.  Its answer may be lost.
CommitOntoHead(r) ==
  /\ StageIs(r, "commit")
  /\ ExpectedHead(r)
  /\ made < MaxCommits
  /\ made' = made + 1
  /\ head' = made + 1
  /\ commits' = [commits EXCEPT ![made + 1] =
       [update |-> commits[head].update, lock |-> Base(r).update, sums |-> relock[r].sums,
        parent |-> head, relocked |-> relock[r].sha, missing |-> relock[r].missing]]
  /\ \E end \in {"done", "failed"} : GoesTo(r, end)
  /\ UNCHANGED relockReruns

RunStep(r) ==
  \/ Dispatch(r) \/ JobFails(r) \/ RelockFailedJob(r) \/ RelockAgain(r) \/ PatchExpires(r)
  \/ ResolvePr(r) \/ UploadPatch(r) \/ Apply(r) \/ CommitOntoHead(r)
  \/ \E g \in Group : RunGroup(r, g)

RelockNext == MoveBranch \/ \E r \in RelockRun : RunStep(r)

RelockSpec == RelockInit /\ [][RelockNext]_relockVars

(***************************************************************************)
(* Properties.                                                             *)
(***************************************************************************)

CommitRecord ==
  [update : Update, lock : Update, sums : Sums, parent : 0 .. MaxCommits, relocked : 0 .. MaxCommits,
   missing : SUBSET Artifact]

RelockRecord ==
  [stage : {"resolve", "groups", "apply", "commit"} \cup AtRest, dry : BOOLEAN,
   sha : Number, todo : SUBSET Group, found : Sums, missing : SUBSET Artifact, sums : Sums,
   kept : BOOLEAN, job : {"relock", "push"}]

\* The type invariant; a run works on a commit that was made.
RelockTypeOK ==
  /\ commits \in [Number -> CommitRecord]
  /\ made \in Number
  /\ head \in 1 .. made
  /\ relock \in [RelockRun -> RelockRecord]
  /\ \A r \in RelockRun : relock[r].sha <= made
  /\ relockReruns \in 0 .. MaxRelockReruns

Relocks == {n \in 1 .. made : commits[n].parent # 0}

\* A relock's commit leaves every checksum its parent had as it was, whatever the repositories
\* serve: "a mismatch stays CI's to fail on" (relock.py:12).
ChecksumsKept ==
  \A n \in Relocks : \A a \in Artifact :
    LET old == commits[commits[n].parent].sums[a]
    IN old # NoDigest => commits[n].sums[a] = old

\* A relock's commit fits what it is put on: its locks are for the update proposed there, and
\* everything any group of that update resolves has a checksum, or was reported as not found.
\* No commit is relocked twice, though an answer is lost and the push is run again.  This is for
\* a run that was given every module the update moves (relock.yml:15, --modules).
RelockFits ==
  \A n \in Relocks :
    /\ commits[n].lock = commits[n].update
    /\ \A g \in Group : \A a \in Resolves[commits[n].update][g] :
         commits[n].sums[a] # NoDigest \/ a \in commits[n].missing
    /\ \A m \in Relocks : commits[m].relocked = commits[n].relocked => m = n
=============================================================================
