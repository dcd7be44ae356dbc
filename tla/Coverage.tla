------------------------------- MODULE Coverage -------------------------------
(***************************************************************************)
(* check-coverage.py: the baseline file it writes, the check it makes, and *)
(* the use CI makes of it.  Both Windows builds establish the Rider        *)
(* baseline anew, each in a copy of the file that is committed, and the    *)
(* comparison wants three equal files.                                     *)
(*                                                                         *)
(* A percentage is the fraction it is computed from: with 28 digits and    *)
(* counts of 10 at most, equal text and equal fractions are the same.      *)
(***************************************************************************)
EXTENDS Naturals

CONSTANT Rates  \* bound: the coverage the code may have

\* read_kover and read_cobertura refuse a report without lines.
ASSUME RatesAssumption == Rates \subseteq [covered : Nat, lines : Nat \ {0}]

VARIABLES
  code,      \* what the tests cover of the code at hand, on each surface
  changed,   \* the changed executable lines, and how many of them are covered
  baseline,  \* config/coverage-baseline.json as it is committed, or Absent
  origin,    \* history: the coverage each value of it was established from
  evidence,  \* what each Windows build has uploaded: a file, and its report
  verdict    \* what the last check of a surface said, and of what

covVars == <<code, changed, baseline, origin, evidence, verdict>>

Surfaces == {"jvm", "rider"}
Windows == {"a", "b"}
Absent == [s \in Surfaces |-> [covered |-> 1, lines |-> 0]]
Pending == [covered |-> 0, lines |-> 0]
NoEvidence == [file |-> Absent, measured |-> Pending]
NoVerdict == [said |-> "nothing", of |-> "jvm", rate |-> Pending, changed |-> Pending]

\* total_percentage compared: fractions are equal, or one is less.
Same(p, q) == p.covered * q.lines = q.covered * p.lines /\ (p = Pending <=> q = Pending)
Less(p, q) == p.covered * q.lines < q.covered * p.lines

\* What cmp says of two files the script has written.
SameFile(f, g) == \A s \in Surfaces : Same(f[s], g[s])

CovInit ==
  /\ code \in [Surfaces -> Rates]
  /\ changed = Pending
  /\ baseline = Absent
  /\ origin = [s \in Surfaces |-> Pending]
  /\ evidence = [w \in Windows |-> NoEvidence]
  /\ verdict = NoVerdict

---------------------------------------------------------------------------
(* establish                                                               *)

\* write_baseline: the value of the surface is replaced, the other one kept; a
\* new file has no Rider value.
Established(file, surface, rate) ==
  [s \in Surfaces |-> IF s = surface THEN rate
                      ELSE IF file = Absent THEN Pending ELSE file[s]]

\* The Rider value is established on Windows only, and after that of the JVM.
MayEstablish(file, surface, onWindows) ==
  surface = "rider" => onWindows /\ file # Absent

\* A maintainer establishes a baseline and commits it.
Establish(surface, onWindows) ==
  /\ MayEstablish(baseline, surface, onWindows)
  /\ baseline' = Established(baseline, surface, code[surface])
  /\ origin' = [origin EXCEPT ![surface] = code[surface]]
  /\ verdict' = NoVerdict
  /\ UNCHANGED <<code, changed, evidence>>

\* The code, or its tests, change.
ChangeCode ==
  /\ \E surface \in Surfaces, rate \in Rates :
       /\ rate # code[surface]
       /\ code' = [code EXCEPT ![surface] = rate]
  /\ changed' \in {Pending} \cup Rates
  /\ evidence' = [w \in Windows |-> NoEvidence]
  /\ verdict' = NoVerdict
  /\ UNCHANGED <<baseline, origin>>

---------------------------------------------------------------------------
(* The jobs windows-rider-build and windows-rider of CI                    *)

\* A build measures what the code is like, or, when its tests are not
\* deterministic, something else.
BuildEvidence(w) ==
  /\ evidence[w] = NoEvidence
  /\ MayEstablish(baseline, "rider", TRUE)
  /\ \E rate \in Rates :
       evidence' = [evidence EXCEPT ![w] =
         [file |-> Established(baseline, "rider", rate), measured |-> rate]]
  /\ UNCHANGED <<code, changed, baseline, origin, verdict>>

\* Mutant: the builds are compared with each other only.
BuildsAlike == SameFile(evidence["a"].file, evidence["b"].file)

\* The two cmp of the windows-rider job.
EvidenceMatches ==
  /\ SameFile(evidence["a"].file, evidence["b"].file)
  /\ SameFile(baseline, evidence["a"].file)

CompareEvidence ==
  /\ \A w \in Windows : evidence[w] # NoEvidence
  /\ verdict' = IF EvidenceMatches
                THEN [said |-> "merge", of |-> "rider", rate |-> baseline["rider"],
                      changed |-> Pending]
                ELSE NoVerdict
  /\ UNCHANGED <<code, changed, baseline, origin, evidence>>

---------------------------------------------------------------------------
(* check                                                                   *)

\* Mutant: the minimum is asked of the whole report.
EnoughOverall(surface) == 100 * code[surface].covered >= 80 * code[surface].lines

\* NEW_CODE_MINIMUM, of the changed lines that are executable, if there are any.
EnoughNewCode(surface) ==
  changed # Pending => 100 * changed.covered >= 80 * changed.lines

\* The reference report has to be the one the baseline was established from,
\* and the current one not below it.
Check(surface) ==
  /\ baseline # Absent
  /\ \E reference \in Rates :
       verdict' =
         IF /\ baseline[surface] # Pending
            /\ Same(reference, baseline[surface])
            /\ ~Less(code[surface], baseline[surface])
            /\ EnoughNewCode(surface)
         THEN [said |-> "ok", of |-> surface, rate |-> reference, changed |-> changed]
         ELSE NoVerdict
  /\ UNCHANGED <<code, changed, baseline, origin, evidence>>

CovNext ==
  \/ ChangeCode \/ CompareEvidence
  \/ \E s \in Surfaces, onWindows \in BOOLEAN : Establish(s, onWindows)
  \/ \E w \in Windows : BuildEvidence(w)
  \/ \E s \in Surfaces : Check(s)

CovSpec == CovInit /\ [][CovNext]_covVars

---------------------------------------------------------------------------
(* Properties                                                              *)

\* When the comparison of the Windows builds passes, both have measured what
\* the committed baseline says: coverage changes, up or down, only in a commit
\* that says so (ci.yml, the windows-rider job).
MergedIsMeasured ==
  verdict.said = "merge" =>
    \A w \in Windows : Same(evidence[w].measured, origin["rider"])

\* A check that passes compared the code with the coverage the baseline of its
\* own surface was established from, found no less, and found four of five
\* changed lines covered (check).
CheckedHolds ==
  verdict.said = "ok" =>
    /\ Same(verdict.rate, origin[verdict.of])
    /\ ~Less(code[verdict.of], origin[verdict.of])
    /\ 5 * changed.covered >= 4 * changed.lines
=============================================================================
