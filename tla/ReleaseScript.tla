---------------------------- MODULE ReleaseScript ----------------------------
(***************************************************************************)
(* scripts/release.sh, run in several clones while branches and tags move. *)
(*                                                                         *)
(* The script looks at the repository and at origin in separate commands.  *)
(* ensure_ready runs three times: first thing (round 1), after the release *)
(* gates (2) and after the confirmation (3).  Meanwhile reviewed changes   *)
(* are merged at origin, and the maintainer, or an editor, a hook or       *)
(* another terminal, uses the clone the script runs in.                    *)
(*                                                                         *)
(* Commits are numbered as they are made; local main is at most one commit *)
(* ahead of the commit it was last synchronised with.                      *)
(***************************************************************************)
EXTENDS Integers

CONSTANTS Machine,      \* clones, each of which runs one script at a time
          Tag,          \* version tags
          None,
          MaxCommits,   \* bound: commits made
          MaxStarts     \* bound: scripts started

NoTag == 0
Elsewhere == -1         \* the head of some branch other than main

ASSUME NoneAssumption == None \notin Tag
ASSUME BoundAssumption == MaxCommits \in Nat \ {0} /\ MaxStarts \in Nat

VARIABLES originMain,  \* head of main at origin
          mainline,    \* history: the commits that were head of main at origin
          originTags,  \* tags at origin
          main,        \* per clone: head of the local main
          base,        \* per clone: the commit of origin's main it builds on
          tree,        \* per clone: "clean", "dirty", or "elsewhere" (another branch)
          localTags,   \* per clone: its tags
          script,      \* per clone: where the script is and what it remembers
          reports,     \* history: the commit of the last "pushed signed tag" per tag
          made,        \* commits made
          starts       \* scripts started

origin == <<originMain, mainline, originTags>>
clones == <<main, base, tree, localTags>>
vars == <<origin, clones, script, reports, made, starts>>

Commit == 1 .. MaxCommits

Idle == [pc |-> "idle", tag |-> None, dry |-> FALSE, round |-> 1,
         verified |-> NoTag, remote |-> NoTag, slip |-> "no"]

Init ==
  /\ originMain = 1
  /\ mainline = {1}
  /\ originTags = [t \in Tag |-> NoTag]
  /\ main = [m \in Machine |-> 1]
  /\ base = [m \in Machine |-> 1]
  /\ tree = [m \in Machine |-> "clean"]
  /\ localTags = [m \in Machine |-> [t \in Tag |-> NoTag]]
  /\ script = [m \in Machine |-> Idle]
  /\ reports = [t \in Tag |-> NoTag]
  /\ made = 1
  /\ starts = 0

(***************************************************************************)
(* The repository around the scripts.                                      *)
(***************************************************************************)

\* History: the last comparison with VERIFIED_SHA is made and the tag is not, and main moves,
\* to a commit of the clone's own or to origin's main.
Slips(m, how) == script' = [script EXCEPT ![m].slip = IF script[m].pc = "tag" THEN how ELSE @]

\* A reviewed change is merged at origin.
MergeAtOrigin ==
  /\ made < MaxCommits
  /\ made' = made + 1
  /\ originMain' = made + 1
  /\ mainline' = mainline \cup {made + 1}
  /\ UNCHANGED <<originTags, clones, script, reports, starts>>

\* git commit on main.
CommitLocally(m) ==
  /\ made < MaxCommits
  /\ tree[m] # "elsewhere"
  /\ main[m] = base[m]
  /\ made' = made + 1
  /\ main' = [main EXCEPT ![m] = made + 1]
  /\ tree' = [tree EXCEPT ![m] = "clean"]
  /\ Slips(m, "committed")
  /\ UNCHANGED <<origin, base, localTags, reports, starts>>

\* git push origin main, a fast-forward.
PushMain(m) ==
  /\ main[m] # base[m]
  /\ base[m] = originMain
  /\ originMain' = main[m]
  /\ mainline' = mainline \cup {main[m]}
  /\ base' = [base EXCEPT ![m] = main[m]]
  /\ UNCHANGED <<originTags, main, tree, localTags, script, reports, made, starts>>

\* git pull, a fast-forward, which may bring tags along and replaces none.
Pull(m) ==
  /\ tree[m] = "clean"
  /\ main[m] = base[m]
  /\ main' = [main EXCEPT ![m] = originMain]
  /\ base' = [base EXCEPT ![m] = originMain]
  /\ \E followed \in SUBSET Tag :
       localTags' = [localTags EXCEPT ![m] =
         [t \in Tag |-> IF t \in followed /\ localTags[m][t] = NoTag
                        THEN originTags[t] ELSE localTags[m][t]]]
  /\ Slips(m, "pulled")
  /\ UNCHANGED <<origin, tree, reports, made, starts>>

\* Edits, checkouts, and their undoing.
ChangeTree(m) ==
  /\ \E w \in {"clean", "dirty", "elsewhere"} \ {tree[m]} :
       tree' = [tree EXCEPT ![m] = w]
  /\ UNCHANGED <<origin, main, base, localTags, script, reports, made, starts>>

\* A maintainer clears a failed release away.
DeleteLocalTag(m, t) ==
  /\ script[m] = Idle
  /\ localTags[m][t] # NoTag
  /\ localTags' = [localTags EXCEPT ![m][t] = NoTag]
  /\ UNCHANGED <<origin, main, base, tree, script, reports, made, starts>>

DeleteOriginTag(t) ==
  /\ originTags[t] # NoTag
  /\ originTags' = [originTags EXCEPT ![t] = NoTag]
  /\ UNCHANGED <<originMain, mainline, clones, script, reports, made, starts>>

(***************************************************************************)
(* The script.                                                             *)
(***************************************************************************)

At(m, pc) == script[m].pc = pc
Goto(m, pc) == script' = [script EXCEPT ![m].pc = pc]

Start(m) ==
  /\ script[m] = Idle
  /\ starts < MaxStarts
  /\ starts' = starts + 1
  /\ \E t \in Tag, dry \in BOOLEAN :
       script' = [script EXCEPT ![m] = [Idle EXCEPT !.pc = "branch", !.tag = t, !.dry = dry]]
  /\ UNCHANGED <<origin, clones, reports, made>>

\* Every "fail": a check that does not hold, a command that fails, gates that do not pass, a
\* confirmation that does not match; and Ctrl-C.  Nothing is undone.
Fail(m) ==
  /\ script[m] # Idle
  /\ script' = [script EXCEPT ![m] = Idle]
  /\ UNCHANGED <<origin, clones, reports, made, starts>>

\* ensure_ready, its first two lines.
CheckBranch(m) ==
  /\ At(m, "branch")
  /\ tree[m] = "clean"
  /\ Goto(m, "remote")
  /\ UNCHANGED <<origin, clones, reports, made, starts>>

\* ensure_ready: git ls-remote --heads.
ReadRemote(m) ==
  /\ At(m, "remote")
  /\ script' = [script EXCEPT ![m].pc = "local", ![m].remote = originMain]
  /\ UNCHANGED <<origin, clones, reports, made, starts>>

\* Mutant: main is compared with origin's before the gates and never again.
SynchronizedOnce(m) == script[m].round = 1 => main[m] = script[m].remote

Synchronized(m) == main[m] = script[m].remote

\* ensure_ready: local main is what origin's was, and the tag is not here yet.
CheckLocal(m) ==
  /\ At(m, "local")
  /\ Synchronized(m)
  /\ localTags[m][script[m].tag] = NoTag
  /\ Goto(m, "tags")
  /\ UNCHANGED <<origin, clones, reports, made, starts>>

\* ensure_ready: the tag is not at origin either.
CheckOriginTag(m) ==
  /\ At(m, "tags")
  /\ originTags[script[m].tag] = NoTag
  /\ Goto(m, "compare")
  /\ UNCHANGED <<origin, clones, reports, made, starts>>

\* After the first ensure_ready: VERIFIED_SHA, the signing probe and the gates.
Verify(m) ==
  /\ At(m, "compare")
  /\ script[m].round = 1
  /\ script' = [script EXCEPT ![m].pc = "gates", ![m].verified = main[m]]
  /\ UNCHANGED <<origin, clones, reports, made, starts>>

PassGates(m) ==
  /\ At(m, "gates")
  /\ script' = [script EXCEPT ![m].pc = "branch", ![m].round = 2]
  /\ UNCHANGED <<origin, clones, reports, made, starts>>

\* Mutant: the commit the gates ran on is not compared.
AnyCommit(m) == TRUE

StillVerified(m) == main[m] = script[m].verified

\* After the second: a dry run ends, another one asks.
Confirm(m) ==
  /\ At(m, "compare")
  /\ script[m].round = 2
  /\ StillVerified(m)
  /\ script' = [script EXCEPT ![m] = IF script[m].dry THEN Idle
                                     ELSE [script[m] EXCEPT !.pc = "branch", !.round = 3]]
  /\ UNCHANGED <<origin, clones, reports, made, starts>>

\* After the third: the script goes on to sign.
Decide(m) ==
  /\ At(m, "compare")
  /\ script[m].round = 3
  /\ StillVerified(m)
  /\ Goto(m, "tag")
  /\ UNCHANGED <<origin, clones, reports, made, starts>>

Head(m) == IF tree[m] = "elsewhere" THEN Elsewhere ELSE main[m]

\* git tag -s, which tags HEAD and replaces no tag.
CreateTag(m) ==
  /\ At(m, "tag")
  /\ localTags[m][script[m].tag] = NoTag
  /\ localTags' = [localTags EXCEPT ![m][script[m].tag] = Head(m)]
  /\ Goto(m, "verify")
  /\ UNCHANGED <<origin, main, base, tree, reports, made, starts>>

\* git verify-tag; a tag it rejects is removed.
VerifyTag(m) ==
  /\ At(m, "verify")
  /\ \/ /\ Goto(m, "target")
        /\ UNCHANGED localTags
     \/ /\ script' = [script EXCEPT ![m] = Idle]
        /\ localTags' = [localTags EXCEPT ![m][script[m].tag] = NoTag]
  /\ UNCHANGED <<origin, main, base, tree, reports, made, starts>>

CheckTarget(m) ==
  /\ At(m, "target")
  /\ localTags[m][script[m].tag] = main[m]
  /\ Goto(m, "push")
  /\ UNCHANGED <<origin, clones, reports, made, starts>>

\* git push of the tag alone, which replaces no tag, and the last message; the message is
\* not printed when the answer of the push is lost.
Push(m) ==
  LET t == script[m].tag IN
  /\ At(m, "push")
  /\ originTags[t] = NoTag
  /\ originTags' = [originTags EXCEPT ![t] = localTags[m][t]]
  /\ script' = [script EXCEPT ![m] = Idle]
  /\ \/ reports' = [reports EXCEPT ![t] = script[m].verified]
     \/ UNCHANGED reports
  /\ UNCHANGED <<originMain, mainline, clones, made, starts>>

EnsureReady(m) == CheckBranch(m) \/ ReadRemote(m) \/ CheckLocal(m) \/ CheckOriginTag(m)

Script(m) ==
  \/ Start(m) \/ Fail(m) \/ EnsureReady(m)
  \/ Verify(m) \/ PassGates(m) \/ Confirm(m) \/ Decide(m)
  \/ CreateTag(m) \/ VerifyTag(m) \/ CheckTarget(m) \/ Push(m)

Maintainer(m) ==
  \/ CommitLocally(m) \/ PushMain(m) \/ Pull(m) \/ ChangeTree(m)
  \/ \E t \in Tag : DeleteLocalTag(m, t)

Next ==
  \/ MergeAtOrigin
  \/ \E t \in Tag : DeleteOriginTag(t)
  \/ \E m \in Machine : Maintainer(m) \/ Script(m)

Spec == Init /\ [][Next]_vars

(***************************************************************************)
(* Properties.                                                             *)
(***************************************************************************)

Step == {"branch", "remote", "local", "tags", "compare", "gates", "tag", "verify",
         "target", "push"}

ScriptRecord ==
  [pc : Step \cup {"idle"}, tag : Tag \cup {None}, dry : BOOLEAN, round : 1 .. 3,
   verified : Commit \cup {NoTag}, remote : Commit \cup {NoTag},
   slip : {"no", "pulled", "committed"}]

\* The type invariant: every variable of the release script keeps its type, and a script
\* that runs names the tag it was started for.
TypeOK ==
  /\ originMain \in Commit
  /\ mainline \subseteq Commit
  /\ originTags \in [Tag -> Commit \cup {NoTag, Elsewhere}]
  /\ main \in [Machine -> Commit]
  /\ base \in [Machine -> Commit]
  /\ tree \in [Machine -> {"clean", "dirty", "elsewhere"}]
  /\ localTags \in [Machine -> [Tag -> Commit \cup {NoTag, Elsewhere}]]
  /\ script \in [Machine -> ScriptRecord]
  /\ \A m \in Machine : script[m].pc # "idle" => script[m].tag \in Tag
  /\ reports \in [Tag -> Commit \cup {NoTag}]
  /\ made \in Commit
  /\ starts \in 0 .. MaxStarts

Pushes(m, t) ==
  At(m, "push") /\ script[m].tag = t /\ script'[m] = Idle /\ originTags'[t] # originTags[t]

\* release.sh pushes a tag only of a commit that was head of main at origin, whatever is
\* committed, pulled or checked out while it runs, but for one thing: a commit made in its
\* clone after the last comparison (release.sh:98) and before the tag (:100), which it tags.
TagOnMain ==
  [][\A m \in Machine, t \in Tag :
       Pushes(m, t) /\ script[m].slip # "committed" => originTags'[t] \in mainline]_vars

\* The commit whose tag release.sh pushes is the one it ran the gates on, unless the clone's
\* main moved after the last comparison and before the tag: no other moment is open.
PushedWasVerified ==
  [][\A m \in Machine, t \in Tag :
       Pushes(m, t) /\ script[m].slip = "no" => originTags'[t] = script[m].verified]_vars

\* release.sh:108 says "pushed signed tag" of the commit it verified: the tag at origin
\* points there.  It does not when main moved after release.sh:98, because release.sh:105
\* compares the tag with where main is by then.
PushedAsReported ==
  [][\A t \in Tag : reports'[t] # reports[t] => originTags'[t] = reports'[t]]_vars
=============================================================================
