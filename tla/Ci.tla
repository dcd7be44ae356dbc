--------------------------------- MODULE Ci ---------------------------------
(***************************************************************************)
(* .github/workflows/ci.yml and scripts/check-ci-results.py: what "CI /    *)
(* Gate", the one required result, says of the head of a pull request or   *)
(* of main.                                                                *)
(*                                                                         *)
(* A push starts a run and cancels what is unfinished of the former ones.  *)
(* A run first classifies the change, then runs the jobs that the class    *)
(* calls for, and the gate judges their results.  Runs may be run again.   *)
(*                                                                         *)
(* Commits are numbered as they are pushed.  Of a commit only what is not  *)
(* documentation is kept: its code.  A cancelled or timed-out job counts   *)
(* as failed, since "needs" and the gate treat them alike.                 *)
(***************************************************************************)
EXTENDS Integers

CONSTANTS Plain,      \* jobs that need nothing but the classification
          Source,     \* what may be built, of {"repository", "fork", "main"}
          Code,       \* contents of a commit, documentation aside
          MaxCommits, \* bound: commits, the base among them
          MaxReruns   \* bound: times anything is run again

\* The jobs with conditions of their own.  JOBS of the checker has them all but the builds.
Special == {"jvm", "qodana_jvm", "windows_build", "rider_windows"}
Job == Plain \cup Special
Judged == Job \ {"windows_build"}

ASSUME JobAssumption == Plain \cap (Special \cup {"changes", "gate"}) = {}
ASSUME SourceAssumption == Source \subseteq {"repository", "fork", "main"}
ASSUME BoundAssumption == MaxCommits \in Nat \ {0} /\ MaxReruns \in Nat

VARIABLES source,   \* what is built: a pull request of the "repository" or of a "fork", or "main"
          head,     \* the newest commit
          codeOf,   \* code of every commit
          run,      \* the CI runs: one per commit and one dispatched by hand
          checked,  \* history: the jobs that succeeded, with the commit they ran on
          reruns

vars == <<source, head, codeOf, run, checked, reruns>>

Commit == 1 .. MaxCommits
Dispatched == 0
Run == Commit \cup {Dispatched}

\* sha: github.sha, 0 until the run exists.  base: what the change is compared with.
\* uploaded: whether the artifacts of the Windows builds are there.
NewRun(sha, base) ==
  [sha |-> sha, base |-> base, changes |-> "pending", scope |-> "", uploaded |-> FALSE,
   result |-> [j \in Job |-> "pending"], gate |-> "pending"]

Exists(r) == run[r].sha # 0

Init ==
  /\ source \in Source
  /\ head = 1
  /\ codeOf \in [Commit -> Code]
  /\ run = [r \in Run |-> NewRun(0, 0)]
  /\ checked = {}
  /\ reruns = 0

Result(r, j) == run[r].result[j]
Over(r) == run[r].gate # "pending"

\* Whether a job is started although its run is cancelled: if: always()
Always == {"rider_windows"}

Cancelled(d) ==
  [d EXCEPT !.changes = IF @ = "pending" THEN "failure" ELSE @,
            !.result = [j \in Job |-> IF @[j] = "pending" /\ j \notin Always
                                      THEN "failure" ELSE @[j]]]

\* concurrency: cancel-in-progress
Superseded(r, d) ==
  run' = [s \in Run |-> CASE s = r -> d
                          [] s # r /\ run[s].gate = "pending" /\ run[s].sha # 0 -> Cancelled(run[s])
                          [] OTHER -> run[s]]

\* A pull request is compared with its base, a push with what was there before.
Push ==
  /\ head < MaxCommits
  /\ head' = head + 1
  /\ Superseded(head + 1, NewRun(head + 1, IF source = "main" THEN head ELSE 1))
  /\ UNCHANGED <<source, codeOf, checked, reruns>>

\* workflow_dispatch on main
Dispatch ==
  /\ source = "main"
  /\ ~Exists(Dispatched)
  /\ Superseded(Dispatched, NewRun(head, 0))
  /\ UNCHANGED <<source, head, codeOf, checked, reruns>>

\* The artifacts of former attempts remain.
Restarted(r) == [NewRun(run[r].sha, run[r].base) EXCEPT !.uploaded = run[r].uploaded]

RerunAll(r) ==
  /\ Exists(r) /\ Over(r)
  /\ reruns < MaxReruns
  /\ reruns' = reruns + 1
  /\ Superseded(r, Restarted(r))
  /\ UNCHANGED <<source, head, codeOf, checked>>

\* What runs again with the failed jobs: those, and all that need one of them.
Needs(j) == CASE j = "qodana_jvm" -> {"jvm"}
              [] j = "rider_windows" -> {"windows_build"}
              [] OTHER -> {}

Again(r, j) == \E k \in {j} \cup Needs(j) : Result(r, k) = "failure"

RerunFailed(r) ==
  /\ Exists(r) /\ run[r].gate = "failure"
  /\ reruns < MaxReruns
  /\ reruns' = reruns + 1
  /\ Superseded(r,
       IF run[r].changes = "failure" THEN Restarted(r)
       ELSE [run[r] EXCEPT !.gate = "pending",
                           !.result = [j \in Job |-> IF Again(r, j) THEN "pending" ELSE @[j]]])
  /\ UNCHANGED <<source, head, codeOf, checked>>

(***************************************************************************)
(* The jobs of a run.                                                      *)
(***************************************************************************)

\* What "git diff" and grep say of a change: whether a path that is not documentation was
\* printed.  Of a file moved into docs/ only the new path is, and a failure of git diff looks
\* like no such path, so that code may change and nothing be seen.
SeesCode(r, seen) == seen => codeOf[run[r].sha] # codeOf[run[r].base]

Scope(r, seen) ==
  CASE r = Dispatched -> "code"
    [] r # Dispatched /\ ~seen -> "docs"
    [] r # Dispatched /\ seen /\ source = "fork" -> "fork"
    [] OTHER -> "code"

Classify(r) ==
  /\ Exists(r) /\ run[r].changes = "pending"
  /\ \E seen \in BOOLEAN :
       /\ r # Dispatched => SeesCode(r, seen)
       /\ run' = [run EXCEPT ![r].changes = "success", ![r].scope = Scope(r, seen)]
  /\ UNCHANGED <<source, head, codeOf, checked, reruns>>

FailChanges(r) ==
  /\ Exists(r) /\ run[r].changes = "pending"
  /\ run' = [run EXCEPT ![r].changes = "failure"]
  /\ UNCHANGED <<source, head, codeOf, checked, reruns>>

NeedsOver(r, j) ==
  /\ run[r].changes # "pending"
  /\ \A k \in Needs(j) : Result(r, k) # "pending"

\* A job's "if", with the implicit success() where it does not say always().
Runs(r, j) ==
  /\ run[r].scope # "docs"
  /\ j \notin Always => run[r].changes = "success" /\ \A k \in Needs(j) : Result(r, k) = "success"
  /\ j = "qodana_jvm" => run[r].scope = "code" /\ source # "fork"

Skip(r, j) ==
  /\ Exists(r) /\ Result(r, j) = "pending"
  /\ NeedsOver(r, j)
  /\ ~Runs(r, j)
  /\ run' = [run EXCEPT ![r].result[j] = "skipped"]
  /\ UNCHANGED <<source, head, codeOf, checked, reruns>>

\* Mutant: the comparison does not need the artifacts of the builds.
NoArtifacts(r, j) == TRUE

\* The Windows builds are compared although they may have failed; it takes their artifacts.
MaySucceed(r, j) == j = "rider_windows" => run[r].uploaded

Pass(r, j) ==
  /\ Exists(r) /\ Result(r, j) = "pending"
  /\ NeedsOver(r, j)
  /\ Runs(r, j)
  /\ MaySucceed(r, j)
  /\ run' = [run EXCEPT ![r].result[j] = "success",
                        ![r].uploaded = @ \/ j = "windows_build"]
  /\ checked' = checked \cup {<<j, run[r].sha>>}
  /\ UNCHANGED <<source, head, codeOf, reruns>>

\* The last thing a Windows build does is to upload its artifacts: it may still fail then.
Fail(r, j) ==
  /\ Exists(r) /\ Result(r, j) = "pending"
  /\ NeedsOver(r, j)
  /\ Runs(r, j)
  /\ \E late \in BOOLEAN :
       /\ late => j = "windows_build"
       /\ run' = [run EXCEPT ![r].result[j] = "failure", ![r].uploaded = @ \/ late]
       /\ checked' = IF late THEN checked \cup {<<j, run[r].sha>>} ELSE checked
  /\ UNCHANGED <<source, head, codeOf, reruns>>

AllowedSkips(scope) ==
  CASE scope = "docs" -> Judged
    [] scope = "fork" -> {"qodana_jvm"}
    [] OTHER -> {}

\* check-ci-results.py
Acceptable(d) ==
  /\ d.scope \in {"code", "docs", "fork"}
  /\ \A j \in Judged : \/ d.result[j] = "success"
                       \/ d.result[j] = "skipped" /\ j \in AllowedSkips(d.scope)

\* Mutant: the gate waits for its needs to succeed (no always()).
GateRunsOnSuccess(r) ==
  /\ run[r].changes = "success"
  /\ \A j \in Judged : Result(r, j) \in {"success", "skipped"}

GateRuns(r) ==
  /\ run[r].changes # "pending"
  /\ \A j \in Judged : Result(r, j) # "pending"

\* The gate itself may fail for reasons of its own.
Gate(r) ==
  /\ Exists(r) /\ ~Over(r)
  /\ GateRuns(r)
  /\ \E verdict \in {"failure"} \cup {v \in {"success"} : Acceptable(run[r])} :
       run' = [run EXCEPT ![r].gate = verdict]
  /\ UNCHANGED <<source, head, codeOf, checked, reruns>>

JobStep(r) ==
  \/ Classify(r) \/ FailChanges(r) \/ Gate(r)
  \/ \E j \in Job : Skip(r, j) \/ Pass(r, j) \/ Fail(r, j)

Next ==
  \/ Push \/ Dispatch
  \/ \E r \in Run : RerunAll(r) \/ RerunFailed(r) \/ JobStep(r)

Spec == Init /\ [][Next]_vars

FairSpec == Spec /\ \A r \in Run : WF_vars(JobStep(r))

(***************************************************************************)
(* Properties.                                                             *)
(***************************************************************************)

RunRecord ==
  [sha : 0 .. MaxCommits, base : 0 .. MaxCommits,
   changes : {"pending", "success", "failure"}, scope : {"", "code", "docs", "fork"},
   uploaded : BOOLEAN,
   result : [Job -> {"pending", "success", "failure", "skipped"}],
   gate : {"pending", "success", "failure"}]

\* The type invariant; a run that exists is of a commit that was pushed.
TypeOK ==
  /\ source \in Source
  /\ head \in Commit
  /\ codeOf \in [Commit -> Code]
  /\ run \in [Run -> RunRecord]
  /\ \A r \in Run : run[r].sha <= head
  /\ checked \subseteq Job \X Commit
  /\ reruns \in 0 .. MaxReruns

\* What must have succeeded on a commit: everything, but Qodana for a fork.
Required == IF source = "fork" THEN Job \ {"qodana_jvm"} ELSE Job

\* A green gate means that every required job succeeded on its commit, or that the last
\* classification of its change found nothing but documentation, whatever was cancelled,
\* skipped and run again, and although the gate does not look at the Windows builds.
GreenMeansPassed ==
  \A r \in Run : Exists(r) /\ run[r].gate = "success" =>
    \/ r # Dispatched /\ run[r].scope = "docs"
    \/ \A j \in Required : <<j, run[r].sha>> \in checked

\* "fails when any applicable check fails" (CONTRIBUTING.md:41): a green gate means that every
\* required job succeeded on its commit, or that the commit has the code of its base.  It does
\* not: a change of code that "git diff" does not show (ci.yml:47) skips every job.
GreenMeansChecked ==
  \A r \in Run : Exists(r) /\ run[r].gate = "success" =>
    \/ r # Dispatched /\ codeOf[run[r].sha] = codeOf[run[r].base]
    \/ \A j \in Required : <<j, run[r].sha>> \in checked

\* The required result is reported for every run, the cancelled ones included: a pull request
\* never waits for a gate that does not come.
GateReports == \A r \in Run : Exists(r) ~> Over(r)
=============================================================================
