----------------------------- MODULE MCWorkflows -----------------------------
(***************************************************************************)
(* The two workflows whose jobs fail, are run again and lose answers: the  *)
(* release of one version, whose tag is deleted and pushed again; and the  *)
(* relock, for an update of a library that both groups resolve and one of  *)
(* the IDE that one group resolves.  The two do not share state, so that   *)
(* each is explored while the other rests: which one it is, is chosen at   *)
(* the start.                                                              *)
(***************************************************************************)
EXTENDS ReleaseWorkflow, Relock, TLC

VARIABLE part

Alike == Permutations(Variant) \cup Permutations(Run) \cup Permutations(Commit)

Resolved ==
  [u \in Update |-> [g \in Group |->
     IF u = "library" THEN {"lib"} ELSE IF g = "idea" THEN {"lib", "ide"} ELSE {}]]

Merged == {[a \in Artifact |-> IF a = "lib" THEN d ELSE NoDigest] : d \in {NoDigest, "published"}}

MCInit ==
  /\ part \in {"release", "relock"}
  /\ Init /\ RelockInit
  /\ part = "release" =>
       commits[1] = ByRenovate("library", "library", [a \in Artifact |-> NoDigest])

MCNext ==
  /\ UNCHANGED part
  /\ \/ part = "release" /\ Next /\ UNCHANGED relockVars
     \/ part = "relock" /\ RelockNext /\ UNCHANGED vars

MCSpec == MCInit /\ [][MCNext]_<<part, vars, relockVars>>
=============================================================================
