---------------------------- MODULE CoverageReport ----------------------------
(***************************************************************************)
(* How check-coverage.py reads the reports of its two tools.  Kover counts *)
(* lines for every method, class, source file and for the whole; Cobertura *)
(* records lines per class and counts them for the whole.  The counts have *)
(* to agree all the way up before a percentage is made of them.            *)
(*                                                                         *)
(* A source file is its path once normalised, whatever its spelling.       *)
(***************************************************************************)
EXTENDS Naturals, FiniteSets, FiniteSetsExt

CONSTANTS
  ClassOf,   \* the class of each method
  SourceOf,  \* the source file of each class
  Reports    \* the reports there may be

Methods == DOMAIN ClassOf

Counter == [missed : Nat, covered : Nat]

\* A report is a finite document, and its counters are natural numbers
\* (parse_integer).
ASSUME ReportAssumption ==
  /\ IsFiniteSet(Methods)
  /\ \A r \in Reports :
       \/ /\ r.tool = "kover" /\ IsFiniteSet(DOMAIN r.class) /\ IsFiniteSet(DOMAIN r.source)
          /\ \A m \in Methods : r.method[m] \in Counter
          /\ \A c \in DOMAIN r.class : r.class[c] \in Counter
          /\ \A s \in DOMAIN r.source : /\ r.source[s] \in Counter
                                        /\ IsFiniteSet(r.hit[s]) /\ IsFiniteSet(r.unhit[s])
          /\ r.total \in Counter
       \/ /\ r.tool = "cobertura" /\ IsFiniteSet(DOMAIN r.hit) /\ IsFiniteSet(DOMAIN r.unhit)
          /\ \A c \in DOMAIN r.hit : IsFiniteSet(r.hit[c])
          /\ \A c \in DOMAIN r.unhit : IsFiniteSet(r.unhit[c])

VARIABLES
  report,   \* of Kover: per method, class and source file a LINE counter, and the
            \* total; per source file the line records, hit or not.  Of Cobertura:
            \* per class the line records, and the counts of the root
  reading   \* "unread", "read" or "refused"

reportVars == <<report, reading>>

ReportInit == report \in Reports /\ reading = "unread"

\* The sum of the counters of some of a report's parts.
Total(counter, parts) ==
  [missed |-> MapThenSumSet(LAMBDA p : counter[p].missed, parts),
   covered |-> MapThenSumSet(LAMBDA p : counter[p].covered, parts)]

\* parse_kover_class: its counter is the sum of its methods'.
ClassAgrees(c) == report.class[c] = Total(report.method, {m \in Methods : ClassOf[m] = c})

\* check_source_line_counter: a counter may exceed the line records, since not
\* every line that is counted has one, but not fall short of them.
RecordsFit(s) ==
  /\ report.source[s].covered >= Cardinality(report.hit[s])
  /\ report.source[s].missed >= Cardinality(report.unhit[s])

\* Mutant: the source files are not compared with the classes.
SourcesAlone == \A s \in DOMAIN report.source : RecordsFit(s)

\* source_counts = class_counts: the same files, with the same counters.
SourcesAgree ==
  /\ DOMAIN report.source = {SourceOf[c] : c \in DOMAIN report.class}
  /\ \A s \in DOMAIN report.source :
       /\ RecordsFit(s)
       /\ report.source[s] = Total(report.class, {c \in DOMAIN report.class : SourceOf[c] = s})

\* read_kover, for a report of one package: the levels above it are added up in
\* the same way.  A line is recorded once.
KoverReads ==
  /\ \A c \in DOMAIN report.class : ClassAgrees(c)
  /\ SourcesAgree
  /\ \A s \in DOMAIN report.source : report.hit[s] \cap report.unhit[s] = {}
  /\ report.total = Total(report.source, DOMAIN report.source)
  /\ \E s \in DOMAIN report.source : report.hit[s] \cup report.unhit[s] # {}

\* The lines of a Cobertura report, as pairs of a source file and a number.
Lines(records) == UNION {{SourceOf[c]} \X records[c] : c \in DOMAIN records}

\* How many records there are of them.
Records(records) == MapThenSumSet(LAMBDA c : Cardinality(records[c]), DOMAIN records)

\* read_cobertura: no line is recorded twice, in one class or in two of a file.
CoberturaReads ==
  LET hit == Lines(report.hit) unhit == Lines(report.unhit) IN
  /\ Cardinality(hit \cup unhit) = Records(report.hit) + Records(report.unhit)
  /\ hit \cup unhit # {}
  /\ report.valid = Records(report.hit) + Records(report.unhit)
  /\ report.covered = Records(report.hit)

ReadReport ==
  /\ reading = "unread"
  /\ reading' = IF (report.tool = "kover" /\ KoverReads) \/ (report.tool = "cobertura" /\ CoberturaReads)
                THEN "read" ELSE "refused"
  /\ UNCHANGED report

ReportSpec == ReportInit /\ [][ReadReport]_reportVars

---------------------------------------------------------------------------
(* Properties                                                              *)

\* A Kover report that is read counts every method once: its total is the sum
\* over all methods of its classes, is not empty, and has at least the lines
\* that are recorded (parse_kover_container).  A Cobertura report that is read
\* counts every line of every source file once (read_cobertura).
CountsAgree ==
  reading = "read" =>
    IF report.tool = "kover"
    THEN LET methods == {m \in Methods : ClassOf[m] \in DOMAIN report.class} IN
         /\ report.total = Total(report.method, methods)
         /\ report.total.missed + report.total.covered > 0
         /\ MapThenSumSet(LAMBDA s : Cardinality(report.hit[s]), DOMAIN report.source)
              <= report.total.covered
    ELSE /\ report.covered = Cardinality(Lines(report.hit))
         /\ report.valid - report.covered = Cardinality(Lines(report.unhit))
         /\ Lines(report.hit) \cap Lines(report.unhit) = {}
=============================================================================
