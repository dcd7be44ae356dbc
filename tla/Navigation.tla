------------------------------ MODULE Navigation ------------------------------
(***************************************************************************)
(* PerfSentinelProjectService.navigate: from a finding to a place in the   *)
(* sources.  The reported line comes first, then what the languages'       *)
(* resolvers declare under the reported name, then Java's guess of the     *)
(* entity behind a table.  The coroutine asks one after the other, each in *)
(* a read action of its own, and opens what it has found on the EDT.       *)
(* Meanwhile the user edits, the IDE indexes, and the project may close.   *)
(*                                                                         *)
(* The resolvers are asked in an order we do not know, that of the plugins' *)
(* registration: any resolver not asked yet may be the next.  What names   *)
(* and texts match is external: the project says what is declared under    *)
(* the reported name, in each language, and which classes map the table.   *)
(***************************************************************************)
EXTENDS Naturals, FiniteSets

CONSTANTS Language,   \* "java", "kotlin", "csharp" and those of the platform's symbol index
          Installed,  \* the sets of languages an IDE may have resolvers of
          Declarable, \* what may come or go with an edit, by language
          Project,    \* what a project may hold, see Content
          Reported,   \* what a finding may report, see Report
          Nowhere,    \* no target
          MaxEdits,   \* bound: edits
          MaxShifts   \* bound: times indexing begins or ends

Place == UNION {p.entities \cup p.repositories \cup p.inherited : p \in Project}
           \cup UNION {Declarable[l] : l \in Language}

\* file: whether the reported file is in the project and has the reported line.  owner:
\* language of the project's class of the reported namespace.  inherited: declared by the base
\* classes of a Java owner.  entities, library: the @Table classes of the project's sources
\* and of its libraries that match the SQL.  repositories: those of the library's entity.
Content ==
  [file : {"absent", "short", "fits"}, owner : {"java", "kotlin", "none"},
   declared : [Language -> SUBSET Place], inherited : SUBSET Place,
   entities : SUBSET Place, library : Nat, repositories : SUBSET Place]

\* sql: the finding is of SQL a table can be read from.
Report ==
  [path : {"none", "java", "other"}, namespace : BOOLEAN, function : BOOLEAN, sql : BOOLEAN]

ASSUME NavigationAssumption ==
  /\ Project \subseteq Content /\ Reported \subseteq Report
  /\ Installed \subseteq SUBSET Language
  /\ Nowhere \notin Place /\ "line" \notin Place /\ Nowhere # "line"
  /\ MaxEdits \in Nat /\ MaxShifts \in Nat

\* What resolvers answer with are elements of the sources, finitely many: each in the one
\* language it is written in, and a method is not a class.
ASSUME PlaceAssumption ==
  /\ IsFiniteSet(Language) /\ IsFiniteSet(Place)
  /\ \A p \in Project :
       LET classes == p.entities \cup p.repositories IN
       /\ p.inherited \cap classes = {}
       /\ \A l \in Language :
            /\ p.declared[l] \cap classes = {}
            /\ l # "java" => p.inherited \cap p.declared[l] = {}
            /\ \A m \in Language \ {l} : p.declared[l] \cap p.declared[m] = {}

VARIABLES ide,      \* the languages with a resolver
          project,
          finding,
          smart,    \* the index is ready
          nav,      \* [phase, rest, hits, failed, target], see NavInit
          opened,   \* what the editor was opened at
          edits, shifts \* while the navigation is under way

navVars == <<ide, project, finding, smart, nav, opened, edits, shifts>>
navWorld == <<ide, project, finding, smart, edits, shifts>>

\* rest: resolvers still to be asked.  hits: what they found, with who found it, so that two
\* that find the same are two.  failed: those that threw an exception, and in
\* which pass.
NavInit ==
  /\ ide \in Installed /\ project \in Project /\ finding \in Reported
  /\ smart \in BOOLEAN
  /\ nav = [phase |-> "find", rest |-> {}, hits |-> {}, failed |-> {}, target |-> Nowhere]
  /\ opened = Nowhere /\ edits = 0 /\ shifts = 0

UnderWay == nav.phase \notin {"over", "aborted"}
SingleOrNull(S) == IF Cardinality(S) = 1 THEN S ELSE {}
---------------------------------------------------------------------------
(* What the resolvers answer                                               *)

\* methodCandidates: what the class declares, else what it inherits; not a light class that
\* stands for a Kotlin one.
OwnersMethods ==
  IF project.owner # "java" THEN {}
  ELSE IF project.declared["java"] # {} THEN project.declared["java"]
  ELSE project.inherited

Named == finding.namespace /\ finding.function
MethodCandidates == IF Named THEN OwnersMethods ELSE {}

Candidates(l) ==
  IF l = "java" THEN MethodCandidates ELSE IF Named THEN project.declared[l] ELSE {}

\* The C# back end has an index of its own; the others throw or give up while there is none.
Sees(l) == l = "csharp" \/ smart

Answer(l) == IF Sees(l) THEN SingleOrNull(Candidates(l)) ELSE {}

\* hasJavaProvenance: a path decides, then a namespace, and without both anything goes.
JavaProvenance ==
  IF finding.path # "none" THEN finding.path = "java"
  ELSE finding.namespace => project.owner = "java"

\* JpaTableAnchorResolver: the one entity, or the one repository of the one library entity.
TableAnchor ==
  IF ~finding.sql \/ ~JavaProvenance THEN {}
  ELSE IF project.entities # {} THEN SingleOrNull(project.entities)
  ELSE IF project.library = 1 THEN SingleOrNull(project.repositories) ELSE {}

\* Mutant: that nothing was found before is taken to mean that there is no such method.
GuessIfNotFound == IF smart THEN TableAnchor ELSE {}

\* JavaAnchorResolver.resolveFallback, the only one there is.
Guess == IF smart /\ MethodCandidates = {} THEN TableAnchor ELSE {}
---------------------------------------------------------------------------
(* The coroutine                                                           *)

Goto(phase) == [nav EXCEPT !.phase = phase]
Found(target) == [nav EXCEPT !.phase = "found", !.target = target]
AskAll(phase) == [nav EXCEPT !.phase = phase, !.rest = ide, !.hits = {}]

Step(phase, next) ==
  /\ nav.phase = phase
  /\ nav' = next
  /\ UNCHANGED <<navWorld, opened>>

\* DirectAnchorResolver, on the IO threads: the file is looked for ...
FindFile ==
  Step("find", IF finding.path # "none" /\ project.file # "absent" THEN Goto("read")
               ELSE AskAll("ask"))

\* ... and then its line, in a read action.
ReadLine == Step("read", IF project.file = "fits" THEN Found("line") ELSE AskAll("ask"))

Asked(l, hits) ==
  [nav EXCEPT !.rest = @ \ {l}, !.hits = @ \cup {<<l, x>> : x \in hits}]

Ask(l) ==
  /\ l \in nav.rest /\ l # "csharp"
  /\ Step("ask", Asked(l, Answer(l)))

\* RiderAnchorResolver asks the back end, which may be interrupted: that counts as
\* cancellation here and ends the navigation.
AskBackend ==
  /\ "csharp" \in nav.rest
  /\ Step("ask", [Asked("csharp", Answer("csharp")) EXCEPT
                    !.phase = IF Answer("csharp") = {} THEN "ask" ELSE "anchor"])

InterruptBackend == "csharp" \in nav.rest /\ Step("ask", Goto("aborted"))

\* The anchor is a path and an offset: the front end may not find the file, or find it shorter
\* on disk than the document the back end knows.
FindAnchor ==
  \/ Step("anchor", Goto("ask"))
  \/ Step("anchor", [nav EXCEPT !.phase = "ask", !.hits = {h \in @ : h[1] # "csharp"},
                                !.failed = @ \cup {<<"ask", "csharp">>}])

\* isolate: an exception removes the resolver from the candidates.
Fail(l) ==
  /\ l \in nav.rest
  /\ \E phase \in {"ask", "guess"} :
       Step(phase, [nav EXCEPT !.rest = @ \ {l}, !.failed = @ \cup {<<phase, l>>}])

\* singleOrNull of the list of hits.
FoundOnly ==
  IF Cardinality(nav.hits) = 1 THEN Found((CHOOSE h \in nav.hits : TRUE)[2]) ELSE Goto("over")

\* Any hit, be it ambiguous, ends the resolution.
EndAsk ==
  /\ nav.rest = {}
  /\ Step("ask", IF nav.hits = {} THEN AskAll("guess") ELSE FoundOnly)

AskFallback(l) ==
  /\ l \in nav.rest
  /\ Step("guess", Asked(l, IF l = "java" THEN Guess ELSE {}))

EndGuess ==
  /\ nav.rest = {}
  /\ Step("guess", FoundOnly)

\* An exception outside of the resolvers: navigate swallows it.
Abort == nav.phase \in {"find", "read"} /\ Step(nav.phase, Goto("aborted"))

\* EDT: canNavigate asks whether the element, or the file of a line or C# anchor, is there.
CanNavigate ==
  IF nav.target = "line" THEN project.file # "absent"
  ELSE \/ nav.target \in Declarable["csharp"]
       \/ nav.target \in project.entities \cup project.repositories \cup project.inherited
       \/ \E l \in Language : nav.target \in project.declared[l]

Open ==
  /\ nav.phase = "found"
  /\ nav' = Goto("over")
  /\ opened' = IF CanNavigate THEN nav.target ELSE opened
  /\ UNCHANGED navWorld
---------------------------------------------------------------------------
(* Everyone else                                                           *)

Edit ==
  /\ UnderWay /\ edits < MaxEdits
  /\ edits' = edits + 1
  /\ \/ \E file \in {"absent", "short", "fits"} : project' = [project EXCEPT !.file = file]
     \/ \E l \in ide, s \in Place :
          /\ s \in Declarable[l] /\ (l = "java" => project.owner = "java")
          /\ project' = [project EXCEPT !.declared[l] = IF s \in @ THEN @ \ {s} ELSE @ \cup {s}]
  /\ UNCHANGED <<ide, finding, smart, nav, opened, shifts>>

\* Indexing begins or ends.
Shift ==
  /\ UnderWay /\ shifts < MaxShifts
  /\ shifts' = shifts + 1 /\ smart' = ~smart
  /\ UNCHANGED <<ide, project, finding, nav, opened, edits>>

\* The project closes: the service's scope is cancelled.
Close == UnderWay /\ Step(nav.phase, Goto("aborted"))

NavNext ==
  \/ FindFile \/ ReadLine \/ AskBackend \/ InterruptBackend \/ FindAnchor
  \/ EndAsk \/ EndGuess \/ Abort \/ Open \/ Edit \/ Shift \/ Close
  \/ \E l \in Language : Ask(l) \/ Fail(l) \/ AskFallback(l)

NavSpec == NavInit /\ [][NavNext]_navVars
---------------------------------------------------------------------------
(* Properties                                                              *)

NavTypeOK ==
  /\ ide \in Installed /\ project \in Content /\ finding \in Reported /\ smart \in BOOLEAN
  /\ nav.phase \in {"find", "read", "ask", "anchor", "guess", "found", "over", "aborted"}
  /\ nav.rest \subseteq ide /\ nav.failed \subseteq {"ask", "guess"} \X ide
  /\ nav.hits \subseteq ide \X Place
  /\ nav.target \in Place \cup {"line", Nowhere} /\ opened \in {nav.target, Nowhere}
  /\ edits \in 0 .. MaxEdits /\ shifts \in 0 .. MaxShifts

\* What is declared under the reported name, by language: the sources', whoever indexes them.
Declared(l) ==
  CASE ~Named \/ (l = "java" /\ project.owner # "java") -> {}
    [] OTHER -> IF l = "java" /\ project.declared[l] = {} THEN project.inherited
                ELSE project.declared[l]

\* The declarations the languages that answer put forward: each its only one.
Proposed ==
  UNION {SingleOrNull(Declared(l)) : l \in {m \in ide : Sees(m) /\ <<"ask", m>> \notin nav.failed}}

Wanted ==
  CASE finding.path # "none" /\ project.file = "fits" -> {"line"}
    [] OTHER ->
         IF Proposed # {} THEN SingleOrNull(Proposed)
         ELSE IF "java" \in ide /\ smart /\ <<"guess", "java">> \notin nav.failed
                 /\ Declared("java") = {} THEN TableAnchor
         ELSE {}

\* "registration order must not pick a winner" (DirectAnchorResolver.kt:44): a navigation the
\* project held still for opens the reported line, or else the only declaration that is put
\* forward, or else the table's class, whatever order the resolvers were asked in and
\* whichever failed; and nothing where there are two.  A navigation during which indexing
\* began or ended still never guesses a class although Java has a method of that name.
OpensTheOnly ==
  nav.phase = "over" /\ edits = 0 =>
    /\ shifts = 0 => (IF opened = Nowhere THEN {} ELSE {opened}) = Wanted
    /\ opened \in project.entities \cup project.repositories => Declared("java") = {}
=============================================================================
