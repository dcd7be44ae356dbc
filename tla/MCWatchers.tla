----------------------------- MODULE MCWatchers -----------------------------
(***************************************************************************)
(* What the user sees of the findings: the marks and the panel, and where  *)
(* a finding leads to.  The two do not share state, so that each is        *)
(* explored while the other rests: which one it is, is chosen at the start. *)
(***************************************************************************)
EXTENDS Watchers, Navigation

VARIABLE part

\* Two editors, one of a file that is on disk and one of a file that is not.
TwoFiles == [ed \in {"left", "right"} |-> IF ed = "left" THEN "kept" ELSE "gone"]

\* Rider has no Java plugin, and the other IDEs have no C# back end.
MCInstalled == {{"java", "kotlin"}, {"csharp", "go"}}

MCDeclarable == [java |-> {"j1", "j2"}, kotlin |-> {"k"}, go |-> {"g"}, csharp |-> {"c1", "c2"}]

Empty ==
  [file |-> "absent", owner |-> "none", declared |-> [l \in DOMAIN MCDeclarable |-> {}],
   inherited |-> {}, entities |-> {}, library |-> 0, repositories |-> {}]

\* Every way of declaring the name, with a table that could be guessed, ...
NameProjects ==
  {[Empty EXCEPT !.owner = java[1], !.declared = [java |-> java[2], kotlin |-> kotlin,
                                                  go |-> go, csharp |-> csharp],
                 !.inherited = java[3], !.entities = {"e1"}] :
     java \in {<<"none", {}, {}>>, <<"kotlin", {}, {}>>, <<"java", {}, {}>>, <<"java", {}, {"b"}>>,
               <<"java", {"j1"}, {"b"}>>, <<"java", {"j1", "j2"}, {}>>},
     kotlin \in {{}, {"k"}}, go \in {{}, {"g"}}, csharp \in {{}, {"c1"}, {"c1", "c2"}}}

\* ... every way of mapping the table, and a file that has the line or has not.
TableProjects ==
  {[Empty EXCEPT !.owner = owner, !.entities = entities, !.library = library,
                 !.repositories = repositories] :
     owner \in {"java", "none"}, entities \in {{}, {"e1"}, {"e1", "e2"}}, library \in 0..2,
     repositories \in {{}, {"r1"}, {"r1", "r2"}}}

FileProjects ==
  {[Empty EXCEPT !.file = file, !.owner = "java", !.declared["java"] = {"j1"}] :
     file \in {"short", "fits"}}

MCProject == NameProjects \cup TableProjects \cup FileProjects

Says(path, namespace, function, sql) ==
  [path |-> path, namespace |-> namespace, function |-> function, sql |-> sql]

MCReported ==
  {Says("none", TRUE, TRUE, TRUE), Says("none", TRUE, TRUE, FALSE), Says("none", FALSE, FALSE, TRUE),
   Says("none", TRUE, FALSE, TRUE), Says("java", TRUE, TRUE, TRUE), Says("other", FALSE, TRUE, TRUE)}

\* Names are looked up for findings that report one, tables for the others; and there are C#
\* sources in Rider only, which knows of no Java class.
Sensible ==
  /\ project \in NameProjects => finding.namespace /\ finding.function /\ finding.path = "none"
  /\ project \in TableProjects => ~(finding.namespace /\ finding.function)
  /\ IF "csharp" \in ide THEN project.owner = "none" ELSE project.declared["csharp"] = {}

Resting ==
  /\ ide = {"csharp", "go"} /\ project = Empty /\ finding = Says("none", FALSE, FALSE, TRUE) /\ smart = TRUE
  /\ nav = [phase |-> "over", rest |-> {}, hits |-> {}, failed |-> {}, target |-> Nowhere]
  /\ opened = Nowhere /\ edits = 0 /\ shifts = 0

MCInit ==
  \/ part = "watchers" /\ Init /\ Resting
  \/ part = "navigation" /\ Init /\ NavInit /\ Sensible

MCNext ==
  /\ UNCHANGED part
  /\ \/ part = "watchers" /\ Next /\ UNCHANGED navVars
     \/ part = "navigation" /\ NavNext /\ UNCHANGED vars

\* The fairness of Watchers, as long as it is its turn.
MCFairness ==
  LET turn == part = "watchers" IN
  /\ WF_vars(turn /\ Startup) /\ WF_vars(turn /\ Refreshing)
  /\ \A j \in Job : WF_vars(turn /\ JobStep(j))
  /\ \A ed \in Editor : WF_vars(turn /\ FileOpened(ed))

MCSpec == MCInit /\ [][MCNext]_<<part, vars, navVars>> /\ MCFairness
=============================================================================
