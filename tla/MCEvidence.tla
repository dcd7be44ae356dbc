----------------------------- MODULE MCEvidence -----------------------------
(***************************************************************************)
(* What CI and the release make of a build: the coverage reports, the      *)
(* baseline, the inspection of the archive, and the audit of what was      *)
(* published.  These four do not share state, so that each is explored     *)
(* while the others rest: which one it is, is chosen at the start.         *)
(***************************************************************************)
EXTENDS CoverageReport, Coverage, PluginZip, ReleaseAudit, SequencesExt

VARIABLE part

(***************************************************************************)
(* Reports: sound ones of two source files, with one counter damaged or    *)
(* one part missing.                                                       *)
(***************************************************************************)
MCClassOf == [f |-> "A", g |-> "A", h |-> "B"]
MCSourceOf == [A |-> "a.kt", B |-> "b.kt"]
Files == {"a.kt", "b.kt"}
Counters == [missed : 0..2, covered : 0..2]

Sound(counts, hit, unhit) ==
  LET class == [c \in DOMAIN MCSourceOf |->
                  Total(counts, {m \in DOMAIN MCClassOf : MCClassOf[m] = c})]
      source == [s \in Files |-> Total(class, {c \in DOMAIN MCSourceOf : MCSourceOf[c] = s})]
  IN [tool |-> "kover", method |-> counts, class |-> class, source |-> source,
      total |-> Total(source, Files), hit |-> [s \in Files |-> hit],
      unhit |-> [s \in Files |-> unhit]]

Damaged(r) ==
  {[r EXCEPT !.total = c] : c \in Counters}
  \cup {[r EXCEPT !.class["A"] = c] : c \in Counters}
  \cup {[r EXCEPT !.source["b.kt"] = c,
                  !.total = Total([r.source EXCEPT !["b.kt"] = c], Files)] : c \in Counters}
  \cup {[r EXCEPT !.class = [c \in {"A"} |-> r.class["A"]]],
        [r EXCEPT !.source = [s \in {"a.kt"} |-> r.source["a.kt"]]]}

OneLine == {[missed |-> 0, covered |-> 0], [missed |-> 1, covered |-> 0],
            [missed |-> 0, covered |-> 1]}

KoverReports ==
  UNION {Damaged(Sound(counts, hit, unhit)) :
           counts \in [DOMAIN MCClassOf -> OneLine], hit \in {{}, {1}}, unhit \in {{}, {2}}}

CoberturaReports ==
  [tool : {"cobertura"}, hit : [{"A", "A2", "B"} -> {{}, {1}}],
   unhit : [{"A", "A2", "B"} -> {{}, {1}, {2}}], valid : 0..3, covered : 0..2]

MCReports == KoverReports \cup CoberturaReports
MCSources == [A |-> "a.kt", A2 |-> "a.kt", B |-> "b.kt"]

\* Two that are equal, and one of exactly four fifths.
MCRates == {[covered |-> 1, lines |-> 2], [covered |-> 2, lines |-> 4],
            [covered |-> 4, lines |-> 5]}

(***************************************************************************)
(* Archives: entries in any order, or at any offsets, or with any content  *)
(* of one of them.                                                         *)
(***************************************************************************)
MCParent == [plugin |-> "plugin", lib |-> "plugin", main |-> "lib", frontend |-> "lib",
             options |-> "lib", notice |-> "plugin"]
Usual == <<"plugin", "lib", "main", "frontend", "options", "notice">>

Packed(entries, directory) ==
  [entries |-> entries, directory |-> directory, normalized |-> TRUE]
InOrder(names) ==
  Packed([i \in 1..Len(names) |-> Entry(names[i], i - 1, i)], Len(names))

Orders ==
  {InOrder(names) : names \in
     SetToSeqs(DOMAIN MCParent) \cup SetToSeqs(DOMAIN MCParent \ {"notice"})
     \cup SetToSeqs(DOMAIN MCParent \ {"options"})
     \cup {<<"plugin", "lib", "main", "frontend", "options", "stray">>,
           <<"plugin", "lib", "main", "main", "frontend", "options">>, <<>>}}

Extents == {<<0, 1>>, <<1, 2>>, <<2, 3>>, <<0, 2>>, <<1, 3>>, <<3, 4>>}
Layouts ==
  {Packed([i \in 1..6 |-> IF i <= 3 THEN Entry(Usual[i], at[i][1], at[i][2])
                          ELSE Entry(Usual[i], i - 1, i)], directory) :
     at \in [1..3 -> Extents], directory \in 5..7}

Notice == 6
Contents ==
  {[InOrder(Usual) EXCEPT !.entries[Notice].declared = declared,
                          !.entries[Notice].stream = stream,
                          !.entries[Notice].marker = [first |-> first, size |-> size]] :
     declared \in 0..5, stream \in 0..5, first \in 1..5, size \in 0..3}
InStream(z) ==
  LET e == z.entries[Notice] IN
  IF e.marker.size = 0 THEN e.marker.first = 1
  ELSE e.marker.first + e.marker.size - 1 <= e.stream

Insides ==
  {[InOrder(Usual) EXCEPT !.entries[i].inside = inside] :
     i \in 3..5, inside \in SUBSET (Classes \cup {"plugin.xml", "searchable options"})}

MCArchive ==
  Orders \cup Layouts \cup {z \in Contents : InStream(z)} \cup Insides
  \cup {[InOrder(Usual) EXCEPT !.normalized = FALSE]}

(***************************************************************************)
(* The audit: two versions, two builds, an old certificate and a new one.  *)
(***************************************************************************)
MCVersion == 1..2
MCExpiry == [old |-> 2, new |-> 3]

\* ZIPs its author signed, countersigned or not; manifests that fit the ZIP of one build and
\* name another unsigned one, of either version.
Signed(b, jetbrains) == [build |-> b, author |-> "old", jetbrains |-> jetbrains]
MCStrayZip == {Signed("x", FALSE), Signed("y", FALSE), Signed("y", TRUE)}
MCStrayManifest ==
  {ManifestOf(v, Unsigned("y"), [Nothing EXCEPT !.zip = Signed("x", FALSE), !.sbom = "x",
                                                !.certificate = "old"]) : v \in MCVersion}

(***************************************************************************)
(* The four together.                                                      *)
(***************************************************************************)
AReport == Sound([m \in DOMAIN MCClassOf |-> [missed |-> 0, covered |-> 1]], {1}, {})
ARate == [covered |-> 1, lines |-> 2]

Init ==
  /\ part \in {"report", "coverage", "archive", "audit"}
  /\ IF part = "report" THEN ReportInit ELSE report = AReport /\ reading = "unread"
  /\ IF part = "archive" THEN ZipInit
     ELSE zip = InOrder(Usual) /\ inspection = "structure" /\ entry = 1 /\ read = 0 /\ kept = 0
  /\ CovInit /\ (part # "coverage" => \A s \in Surfaces : code[s] = ARate)
  /\ AuditInit /\ (part # "audit" => secret = "old")

Next ==
  /\ UNCHANGED part
  /\ \/ part = "report" /\ ReadReport /\ UNCHANGED <<covVars, zipVars, auditVars>>
     \/ part = "coverage" /\ CovNext /\ UNCHANGED <<reportVars, zipVars, auditVars>>
     \/ part = "archive" /\ ZipNext /\ UNCHANGED <<reportVars, covVars, auditVars>>
     \/ part = "audit" /\ AuditNext /\ UNCHANGED <<reportVars, covVars, zipVars>>

Spec == Init /\ [][Next]_<<part, reportVars, covVars, zipVars, auditVars>>
=============================================================================
