------------------------- MODULE ReleaseScriptProofs -------------------------
(***************************************************************************)
(* Theorems about ReleaseScript, for any clones, versions and bounds: the  *)
(* commit whose tag is pushed is the one that was verified unless main     *)
(* moved between the last comparison and the tag, and a merged one unless  *)
(* it moved to a commit of the clone's own.                                *)
(***************************************************************************)
EXTENDS ReleaseScript, TLAPS

\* Commits are numbered as they are made, so main only grows, at origin and in the clones.
Ordered ==
  /\ originMain \in mainline
  /\ \A c \in mainline : c <= originMain
  /\ originMain <= made
  /\ \A m \in Machine : base[m] \in mainline /\ base[m] <= main[m] /\ main[m] <= made

\* A commit a script s may tag: the one it verified, a merged one, or any, by how main slipped.
OnTarget(s, c, line) ==
  /\ s.slip = "no" => c = s.verified
  /\ s.slip # "committed" => c \in line

\* What a script s remembers of a clone with this main, these tags, and of origin's main.
\* From round 2 on, what was verified is no newer than what origin was seen to have, and
\* that is no newer than main: if main still is what was verified, all three are the same.
Fits(s, head, here, line) ==
  /\ s.pc \in {"local", "tags", "compare"} => s.remote \in line
  /\ s.pc # "idle" /\ (s.round > 1 \/ s.pc = "gates") =>
       s.verified \in Commit /\ s.verified <= head
  /\ s.round > 1 /\ s.pc \in {"tags", "compare"} => s.verified <= s.remote /\ s.remote <= head
  /\ s.pc \in {"tag", "verify", "target", "push"} => s.verified \in line
  /\ s.pc = "tag" => OnTarget(s, head, line)
  /\ s.pc \in {"verify", "target"} =>
       here[s.tag] = Elsewhere \/ (here[s.tag] \in Commit /\ OnTarget(s, here[s.tag], line))
  /\ s.pc = "push" => here[s.tag] \in Commit /\ OnTarget(s, here[s.tag], line)

ScriptsFit == \A m \in Machine : Fits(script[m], main[m], localTags[m], mainline)

Inv == TypeOK /\ Ordered /\ ScriptsFit

USE DEF Commit, NoTag, Elsewhere

LEMMA BoundsAreNat == MaxCommits \in Nat /\ MaxCommits >= 1 /\ MaxStarts \in Nat
BY BoundAssumption

LEMMA InitInv == Init => Inv
<1> SUFFICES ASSUME Init PROVE Inv
  OBVIOUS
<1>1. Idle \in ScriptRecord /\ Idle.pc = "idle" /\ Idle.round = 1
  BY DEF Idle, ScriptRecord
<1>2. TypeOK
  BY <1>1, BoundsAreNat DEF Init, TypeOK
<1>3. Ordered
  BY DEF Init, Ordered
<1>4. ScriptsFit
  BY <1>1 DEF Init, ScriptsFit, Fits
<1> QED BY <1>2, <1>3, <1>4 DEF Inv

(***************************************************************************)
(* Steps of a script that only move the script.                            *)
(***************************************************************************)

LEMMA ScriptMoves ==
  ASSUME Inv, NEW m \in Machine, NEW s \in ScriptRecord, s.pc # "idle" => s.tag \in Tag,
         Fits(s, main[m], localTags[m], mainline),
         script' = [script EXCEPT ![m] = s],
         UNCHANGED <<origin, clones, made>>,
         reports' \in [Tag -> Commit \cup {NoTag}], starts' \in 0 .. MaxStarts
  PROVE  Inv'
<1>1. \A n \in Machine : script'[n] = IF n = m THEN s ELSE script[n]
  BY DEF Inv, TypeOK
<1>2. TypeOK'
  BY <1>1 DEF Inv, TypeOK, origin, clones
<1>3. Ordered'
  BY DEF Inv, Ordered, origin, clones
<1>4. ScriptsFit'
  BY <1>1 DEF Inv, ScriptsFit, origin, clones
<1> QED BY <1>2, <1>3, <1>4 DEF Inv

\* What the fields of a script become.
LEMMA Fields ==
  ASSUME NEW s \in ScriptRecord, NEW pc \in Step \cup {"idle"}, NEW round \in 1 .. 3
  PROVE  [s EXCEPT !.pc = pc, !.round = round] \in ScriptRecord
BY DEF ScriptRecord

LEMMA IdleFits ==
  ASSUME NEW head, NEW here, NEW line
  PROVE  Idle \in ScriptRecord /\ Fits(Idle, head, here, line)
BY DEF Idle, ScriptRecord, Fits

\* A step to another line of the script, when what fits there fits already.
LEMMA GotoInv ==
  ASSUME Inv, NEW m \in Machine, script[m].pc # "idle", NEW pc \in Step, Goto(m, pc),
         Fits([script[m] EXCEPT !.pc = pc], main[m], localTags[m], mainline),
         UNCHANGED <<origin, clones, reports, made, starts>>
  PROVE  Inv'
<1> DEFINE s == [script[m] EXCEPT !.pc = pc]
<1>1. script[m] \in ScriptRecord /\ script[m].tag \in Tag
  BY DEF Inv, TypeOK
<1>2. s \in ScriptRecord
  BY <1>1 DEF ScriptRecord
<1>3. s.tag \in Tag
  BY <1>1 DEF ScriptRecord
<1>4. script' = [script EXCEPT ![m] = s]
  BY DEF Goto, Inv, TypeOK
<1>5. reports' \in [Tag -> Commit \cup {NoTag}] /\ starts' \in 0 .. MaxStarts
  BY DEF Inv, TypeOK
<1> HIDE DEF s
<1> QED BY <1>2, <1>3, <1>4, <1>5, ScriptMoves DEF s

LEMMA StepTypes ==
  ASSUME Inv, NEW m \in Machine
  PROVE  /\ script[m] \in ScriptRecord
         /\ script[m].pc # "idle" => script[m].tag \in Tag
         /\ Fits(script[m], main[m], localTags[m], mainline)
         /\ main[m] \in Commit
         /\ localTags[m] \in [Tag -> Commit \cup {NoTag, Elsewhere}]
         /\ originMain \in mainline /\ originMain \in Commit
         /\ mainline \subseteq Commit
         /\ reports \in [Tag -> Commit \cup {NoTag}] /\ starts \in 0 .. MaxStarts
BY DEF Inv, TypeOK, ScriptsFit, Ordered

LEMMA EnsureReadyInv ==
  ASSUME Inv, NEW m \in Machine, EnsureReady(m)
  PROVE  Inv'
<1> DEFINE s == script[m]
<1>0. /\ s \in ScriptRecord
      /\ s.pc # "idle" => s.tag \in Tag
      /\ Fits(s, main[m], localTags[m], mainline)
      /\ main[m] \in Commit /\ originMain \in mainline /\ originMain \in Commit
      /\ reports \in [Tag -> Commit \cup {NoTag}] /\ starts \in 0 .. MaxStarts
  BY StepTypes
<1>1. CASE CheckBranch(m)
  <2>1. [s EXCEPT !.pc = "remote"] \in [pc : {"remote"}, tag : {s.tag}, dry : {s.dry},
           round : {s.round}, verified : {s.verified}, remote : {s.remote}, slip : {s.slip}]
    BY <1>0 DEF ScriptRecord
  <2>2. Fits([s EXCEPT !.pc = "remote"], main[m], localTags[m], mainline)
    BY <2>1, <1>0, <1>1 DEF Fits, CheckBranch, At
  <2> QED BY <2>2, <1>1, GotoInv DEF CheckBranch, At, Step
<1>2. CASE ReadRemote(m)
  <2> DEFINE e == [s EXCEPT !.pc = "local", !.remote = originMain]
  <2>1. e \in [pc : {"local"}, tag : {s.tag}, dry : {s.dry},
           round : {s.round}, verified : {s.verified}, remote : {originMain}, slip : {s.slip}]
    BY <1>0 DEF ScriptRecord
  <2>2. Fits(e, main[m], localTags[m], mainline)
    BY <2>1, <1>0, <1>2 DEF Fits, ReadRemote, At
  <2>3. e \in ScriptRecord
    BY <1>0 DEF ScriptRecord, Step
  <2>4. e.tag \in Tag
    BY <2>1, <1>0, <1>2 DEF ReadRemote, At
  <2>5. script' = [script EXCEPT ![m] = e]
    BY <1>2 DEF ReadRemote, Inv, TypeOK
  <2>6. UNCHANGED <<origin, clones, reports, made, starts>>
    BY <1>2 DEF ReadRemote
  <2> HIDE DEF e
  <2> QED BY <2>2, <2>3, <2>4, <2>5, <2>6, <1>0, ScriptMoves
<1>3. CASE CheckLocal(m)
  <2>1. [s EXCEPT !.pc = "tags"] \in [pc : {"tags"}, tag : {s.tag}, dry : {s.dry},
           round : {s.round}, verified : {s.verified}, remote : {s.remote}, slip : {s.slip}]
    BY <1>0 DEF ScriptRecord
  <2>2. main[m] = s.remote /\ s.pc = "local"
    BY <1>3 DEF CheckLocal, Synchronized, At
  <2>3. Fits([s EXCEPT !.pc = "tags"], main[m], localTags[m], mainline)
    BY <2>1, <2>2, <1>0 DEF Fits
  <2> QED BY <2>3, <1>3, GotoInv DEF CheckLocal, At, Step
<1>4. CASE CheckOriginTag(m)
  <2>1. [s EXCEPT !.pc = "compare"] \in [pc : {"compare"}, tag : {s.tag}, dry : {s.dry},
           round : {s.round}, verified : {s.verified}, remote : {s.remote}, slip : {s.slip}]
    BY <1>0 DEF ScriptRecord
  <2>2. Fits([s EXCEPT !.pc = "compare"], main[m], localTags[m], mainline)
    BY <2>1, <1>0, <1>4 DEF Fits, CheckOriginTag, At
  <2> QED BY <2>2, <1>4, GotoInv DEF CheckOriginTag, At, Step
<1> QED BY <1>1, <1>2, <1>3, <1>4 DEF EnsureReady

LEMMA CheckingInv ==
  ASSUME Inv, NEW m \in Machine, Verify(m) \/ PassGates(m) \/ Confirm(m) \/ Decide(m)
  PROVE  Inv'
<1> DEFINE s == script[m]
<1>0. /\ s \in ScriptRecord
      /\ s.pc # "idle" => s.tag \in Tag
      /\ Fits(s, main[m], localTags[m], mainline)
      /\ main[m] \in Commit /\ originMain \in mainline /\ mainline \subseteq Commit
      /\ reports \in [Tag -> Commit \cup {NoTag}] /\ starts \in 0 .. MaxStarts
  BY StepTypes
<1>1. CASE Verify(m)
  <2> DEFINE e == [s EXCEPT !.pc = "gates", !.verified = main[m]]
  <2>1. e \in [pc : {"gates"}, tag : {s.tag}, dry : {s.dry},
           round : {s.round}, verified : {main[m]}, remote : {s.remote}, slip : {s.slip}]
    BY <1>0 DEF ScriptRecord
  <2>2. Fits(e, main[m], localTags[m], mainline)
    BY <2>1, <1>0, <1>1, BoundsAreNat DEF Fits, Verify, At
  <2>3. e \in ScriptRecord
    BY <1>0 DEF ScriptRecord, Step
  <2>4. e.tag \in Tag
    BY <2>1, <1>0, <1>1 DEF Verify, At
  <2>5. script' = [script EXCEPT ![m] = e]
    BY <1>1 DEF Verify, Inv, TypeOK
  <2>6. UNCHANGED <<origin, clones, reports, made, starts>>
    BY <1>1 DEF Verify
  <2> HIDE DEF e
  <2> QED BY <2>2, <2>3, <2>4, <2>5, <2>6, <1>0, ScriptMoves
<1>2. CASE PassGates(m)
  <2> DEFINE e == [s EXCEPT !.pc = "branch", !.round = 2]
  <2>1. e \in [pc : {"branch"}, tag : {s.tag}, dry : {s.dry},
           round : {2}, verified : {s.verified}, remote : {s.remote}, slip : {s.slip}]
    BY <1>0 DEF ScriptRecord
  <2>2. Fits(e, main[m], localTags[m], mainline)
    BY <2>1, <1>0, <1>2 DEF Fits, PassGates, At
  <2>3. e \in ScriptRecord
    <3>1. "branch" \in Step \cup {"idle"} /\ 2 \in 1 .. 3
      BY DEF Step
    <3> QED BY <1>0, <3>1, Fields
  <2>4. e.tag \in Tag
    BY <2>1, <1>0, <1>2 DEF PassGates, At
  <2>5. script' = [script EXCEPT ![m] = e]
    BY <1>2 DEF PassGates, Inv, TypeOK
  <2>6. UNCHANGED <<origin, clones, reports, made, starts>>
    BY <1>2 DEF PassGates
  <2> HIDE DEF e
  <2> QED BY <2>2, <2>3, <2>4, <2>5, <2>6, <1>0, ScriptMoves
<1>3. CASE Confirm(m) /\ s.dry
  <2>1. script' = [script EXCEPT ![m] = Idle]
    BY <1>3 DEF Confirm
  <2>2. Idle.pc = "idle"
    BY DEF Idle
  <2>3. UNCHANGED <<origin, clones, reports, made, starts>>
    BY <1>3 DEF Confirm
  <2> QED BY <2>1, <2>2, <2>3, <1>0, IdleFits, ScriptMoves
<1>4. CASE Confirm(m) /\ ~s.dry
  <2> DEFINE e == [s EXCEPT !.pc = "branch", !.round = 3]
  <2>1. e \in [pc : {"branch"}, tag : {s.tag}, dry : {s.dry},
           round : {3}, verified : {s.verified}, remote : {s.remote}, slip : {s.slip}]
    BY <1>0 DEF ScriptRecord
  <2>2. Fits(e, main[m], localTags[m], mainline)
    BY <2>1, <1>0, <1>4 DEF Fits, Confirm, At
  <2>3. e \in ScriptRecord
    <3>1. "branch" \in Step \cup {"idle"} /\ 3 \in 1 .. 3
      BY DEF Step
    <3> QED BY <1>0, <3>1, Fields
  <2>4. e.tag \in Tag
    BY <2>1, <1>0, <1>4 DEF Confirm, At
  <2>5. script' = [script EXCEPT ![m] = e]
    BY <1>4 DEF Confirm, Inv, TypeOK
  <2>6. UNCHANGED <<origin, clones, reports, made, starts>>
    BY <1>4 DEF Confirm
  <2> HIDE DEF e
  <2> QED BY <2>2, <2>3, <2>4, <2>5, <2>6, <1>0, ScriptMoves
<1>5. CASE Decide(m)
  <2>1. [s EXCEPT !.pc = "tag"] \in [pc : {"tag"}, tag : {s.tag}, dry : {s.dry},
           round : {s.round}, verified : {s.verified}, remote : {s.remote}, slip : {s.slip}]
    BY <1>0 DEF ScriptRecord
  <2>2. s.pc = "compare" /\ s.round = 3 /\ main[m] = s.verified
    BY <1>5 DEF Decide, At, StillVerified
  <2>3. s.remote \in mainline /\ s.verified <= s.remote /\ s.remote <= main[m]
    BY <2>2, <1>0 DEF Fits
  <2>4. s.verified = s.remote
    <3>1. s.remote \in Int /\ s.verified \in Int
      <4>1. s.remote \in Commit
        BY <2>3, <1>0
      <4>2. s.verified \in Commit
        BY <2>2, <1>0
      <4> QED BY <4>1, <4>2, BoundsAreNat
    <3>2. s.remote <= s.verified
      BY <2>2, <2>3
    <3> QED BY <3>1, <3>2, <2>3
  <2>5. Fits([s EXCEPT !.pc = "tag"], main[m], localTags[m], mainline)
    BY <2>1, <2>2, <2>3, <2>4, <1>0 DEF Fits, OnTarget
  <2> QED BY <2>5, <1>5, GotoInv DEF Decide, At, Step
<1> QED BY <1>1, <1>2, <1>3, <1>4, <1>5

(***************************************************************************)
(* The clone moves under its script.                                       *)
(***************************************************************************)

\* main only grows, merged commits stay merged, a tag that is there stays as it is.
LEMMA FitsStays ==
  ASSUME NEW s \in ScriptRecord, NEW head \in Commit, NEW here \in [Tag -> Commit \cup {NoTag, Elsewhere}],
         NEW line \in SUBSET Commit, Fits(s, head, here, line), s.pc # "idle" => s.tag \in Tag,
         NEW head2 \in Commit, NEW here2, NEW line2, line \subseteq line2, head <= head2,
         s.pc = "tag" => head2 = head,
         \A t \in Tag : s.pc # "idle" /\ here[t] # NoTag => here2[t] = here[t]
  PROVE  Fits(s, head2, here2, line2)
<1>1. /\ s.pc \in {"local", "tags", "compare"} => s.remote \in line2
      /\ s.pc \in {"tag", "verify", "target", "push"} => s.verified \in line2
      /\ s.pc = "tag" => OnTarget(s, head2, line2)
  BY DEF Fits, OnTarget
<1>2. s.pc # "idle" /\ (s.round > 1 \/ s.pc = "gates") =>
       s.verified \in Commit /\ s.verified <= head2
  BY BoundsAreNat DEF Fits
<1>3. s.round > 1 /\ s.pc \in {"tags", "compare"} => s.verified <= s.remote /\ s.remote <= head2
  BY BoundsAreNat DEF Fits, ScriptRecord
<1>4. s.pc \in {"verify", "target", "push"} => here[s.tag] # NoTag
  BY BoundsAreNat DEF Fits
<1>5. s.pc \in {"verify", "target", "push"} => here2[s.tag] = here[s.tag]
  BY <1>4
<1>6. \A c : OnTarget(s, c, line) => OnTarget(s, c, line2)
  BY DEF OnTarget
<1> QED BY <1>1, <1>2, <1>3, <1>5, <1>6 DEF Fits

\* main moves between the last comparison and the tag.
LEMMA SlipFits ==
  ASSUME NEW s \in ScriptRecord, NEW head \in Commit, NEW here, NEW line \in SUBSET Commit,
         Fits(s, head, here, line), s.pc = "tag", NEW how \in {"pulled", "committed"},
         NEW head2 \in Commit, NEW here2, NEW line2, line \subseteq line2, head <= head2,
         how = "pulled" => head2 \in line2
  PROVE  Fits([s EXCEPT !.slip = how], head2, here2, line2)
<1> DEFINE e == [s EXCEPT !.slip = how]
<1>1. e.pc = "tag" /\ e.round = s.round /\ e.verified = s.verified /\ e.slip = how
  BY DEF ScriptRecord
<1>2. s.round > 1 => s.verified \in Commit /\ s.verified <= head2
  BY BoundsAreNat DEF Fits
<1>3. s.verified \in line2
  BY DEF Fits
<1>4. OnTarget(e, head2, line2)
  BY <1>1 DEF OnTarget
<1> HIDE DEF e
<1>5. Fits(e, head2, here2, line2)
  BY <1>1, <1>2, <1>3, <1>4 DEF Fits
<1> QED BY <1>5 DEF e

\* A clone n whose script main does not move under, and one whose script it does.
Stays(n) == script'[n] = script[n] /\ (script[n].pc = "tag" => main'[n] = main[n])

Slipped(n) ==
  /\ script[n].pc = "tag"
  /\ \E how \in {"pulled", "committed"} :
       /\ script'[n] = [script[n] EXCEPT !.slip = how]
       /\ how = "pulled" => main'[n] \in mainline'

LEMMA SlipsTypes ==
  ASSUME Inv, NEW m \in Machine, NEW how \in {"pulled", "committed"}, Slips(m, how),
         how = "pulled" => main'[m] \in mainline', \A n \in Machine \ {m} : main'[n] = main[n]
  PROVE  /\ script' \in [Machine -> ScriptRecord]
         /\ \A n \in Machine : script'[n].pc # "idle" => script'[n].tag \in Tag
         /\ \A n \in Machine : Stays(n) \/ Slipped(n)
<1> DEFINE e == [script[m] EXCEPT !.slip = IF script[m].pc = "tag" THEN how ELSE @]
<1>1. script \in [Machine -> ScriptRecord] /\ \A n \in Machine : script[n].pc # "idle" => script[n].tag \in Tag
  BY DEF Inv, TypeOK
<1>2. \A n \in Machine : script'[n] = IF n = m THEN e ELSE script[n]
  BY <1>1 DEF Slips
<1>3. e \in ScriptRecord /\ e.pc = script[m].pc /\ e.tag = script[m].tag
  BY <1>1 DEF ScriptRecord
<1>4. script[m].pc # "tag" => e = script[m]
  BY <1>1 DEF ScriptRecord
<1>5. script[m].pc = "tag" => e = [script[m] EXCEPT !.slip = how]
  OBVIOUS
<1>6. script' \in [Machine -> ScriptRecord]
  BY <1>1, <1>3 DEF Slips
<1> HIDE DEF e
<1>7. Stays(m) \/ Slipped(m)
  BY <1>2, <1>4, <1>5 DEF Stays, Slipped
<1>8. \A n \in Machine \ {m} : Stays(n)
  BY <1>2 DEF Stays
<1> QED BY <1>1, <1>2, <1>3, <1>6, <1>7, <1>8

\* Any change around the scripts.
LEMMA CloneMoves ==
  ASSUME Inv, main' \in [Machine -> Commit], mainline \subseteq mainline',
         \A m \in Machine : main[m] <= main'[m] /\ (Stays(m) \/ Slipped(m)),
         \A m \in Machine, t \in Tag :
           script[m].pc # "idle" /\ localTags[m][t] # NoTag => localTags'[m][t] = localTags[m][t],
         TypeOK', Ordered'
  PROVE  Inv'
<1>1. ASSUME NEW m \in Machine PROVE Fits(script'[m], main'[m], localTags'[m], mainline')
  <2>1. /\ script[m] \in ScriptRecord
        /\ script[m].pc # "idle" => script[m].tag \in Tag
        /\ Fits(script[m], main[m], localTags[m], mainline)
        /\ main[m] \in Commit
        /\ localTags[m] \in [Tag -> Commit \cup {NoTag, Elsewhere}]
        /\ mainline \in SUBSET Commit
    BY StepTypes
  <2>2. main'[m] \in Commit /\ main[m] <= main'[m]
    OBVIOUS
  <2>3. CASE Stays(m)
    <3>1. Fits(script[m], main'[m], localTags'[m], mainline')
      BY <2>1, <2>2, <2>3, FitsStays DEF Stays
    <3> QED BY <3>1, <2>3 DEF Stays
  <2>4. CASE Slipped(m)
    <3>1. PICK how \in {"pulled", "committed"} :
            script'[m] = [script[m] EXCEPT !.slip = how] /\ (how = "pulled" => main'[m] \in mainline')
      BY <2>4 DEF Slipped
    <3>2. Fits([script[m] EXCEPT !.slip = how], main'[m], localTags'[m], mainline')
      BY <2>1, <2>2, <2>4, <3>1, SlipFits DEF Slipped
    <3> QED BY <3>1, <3>2
  <2> QED BY <2>3, <2>4
<1>2. ScriptsFit'
  BY <1>1 DEF ScriptsFit
<1> QED BY <1>2 DEF Inv

LEMMA MergeInv == Inv /\ MergeAtOrigin => Inv'
<1> SUFFICES ASSUME Inv, MergeAtOrigin PROVE Inv'
  OBVIOUS
<1>1. /\ UNCHANGED <<script, reports, starts, main, base, tree, localTags, originTags>>
      /\ made' = made + 1 /\ originMain' = made + 1 /\ mainline' = mainline \cup {made + 1}
      /\ made < MaxCommits
  BY DEF MergeAtOrigin, clones
<1>2. made \in Commit /\ mainline \subseteq Commit
  BY DEF Inv, TypeOK
<1>3. made + 1 \in Commit
  BY <1>1, <1>2, BoundsAreNat
<1>4. TypeOK'
  BY <1>1, <1>3 DEF Inv, TypeOK
<1>5. Ordered'
  <2>1. \A c \in mainline' : c <= originMain'
    BY <1>1, <1>2, BoundsAreNat DEF Inv, TypeOK, Ordered
  <2>2. \A n \in Machine : base'[n] \in mainline' /\ base'[n] <= main'[n] /\ main'[n] <= made'
    BY <1>1, <1>2, BoundsAreNat DEF Inv, TypeOK, Ordered
  <2> QED BY <2>1, <2>2, <1>1, <1>3, BoundsAreNat DEF Ordered
<1>7. \A m \in Machine : main[m] <= main'[m] /\ (script[m].pc = "tag" => main'[m] = main[m])
  BY <1>1, BoundsAreNat DEF Inv, TypeOK
<1>8. main' \in [Machine -> Commit] /\ mainline \subseteq mainline'
  BY <1>1 DEF Inv, TypeOK
<1>9. \A m \in Machine, t \in Tag :
           script[m].pc # "idle" /\ localTags[m][t] # NoTag => localTags'[m][t] = localTags[m][t]
  BY <1>1
<1> QED BY <1>1, <1>4, <1>5, <1>7, <1>8, <1>9, CloneMoves DEF Stays

LEMMA CommitLocallyInv ==
  ASSUME Inv, NEW m \in Machine, CommitLocally(m)
  PROVE  Inv'
<1>1. /\ UNCHANGED <<reports, starts, base, localTags, origin>>
      /\ made' = made + 1 /\ main' = [main EXCEPT ![m] = made + 1]
      /\ tree' = [tree EXCEPT ![m] = "clean"]
      /\ made < MaxCommits /\ Slips(m, "committed")
  BY DEF CommitLocally
<1>2. /\ made \in Commit /\ main \in [Machine -> Commit] /\ base \in [Machine -> Commit]
      /\ originMain \in Commit
  BY DEF Inv, TypeOK
<1>3. made + 1 \in Commit
  BY <1>1, <1>2, BoundsAreNat
<1>5. \A n \in Machine : main'[n] = IF n = m THEN made + 1 ELSE main[n]
  BY <1>1, <1>2
<1>12. /\ script' \in [Machine -> ScriptRecord]
       /\ \A n \in Machine : script'[n].pc # "idle" => script'[n].tag \in Tag
       /\ \A n \in Machine : Stays(n) \/ Slipped(n)
  BY <1>1, <1>5, SlipsTypes
<1>4. TypeOK'
  BY <1>1, <1>3, <1>12 DEF Inv, TypeOK, origin
<1>6. \A n \in Machine : main[n] <= made /\ base[n] <= main[n] /\ base[n] \in mainline
  BY DEF Inv, Ordered
<1>7. \A n \in Machine : main[n] <= main'[n]
  BY <1>1, <1>2, <1>5, <1>6, BoundsAreNat
<1>8. Ordered'
  <2>1. \A n \in Machine : base'[n] \in mainline' /\ base'[n] <= main'[n] /\ main'[n] <= made'
    BY <1>1, <1>2, <1>5, <1>6, BoundsAreNat DEF origin
  <2>2. originMain <= made /\ originMain <= made + 1
    BY <1>2, BoundsAreNat DEF Inv, Ordered
  <2> QED BY <2>1, <2>2, <1>1 DEF Inv, Ordered, origin
<1>10. main' \in [Machine -> Commit] /\ mainline \subseteq mainline'
  BY <1>1, <1>2, <1>3 DEF origin
<1>11. \A n \in Machine, t \in Tag :
           script[n].pc # "idle" /\ localTags[n][t] # NoTag => localTags'[n][t] = localTags[n][t]
  BY <1>1
<1> QED BY <1>4, <1>7, <1>8, <1>10, <1>11, <1>12, CloneMoves

LEMMA PushMainInv ==
  ASSUME Inv, NEW m \in Machine, PushMain(m)
  PROVE  Inv'
<1>1. /\ UNCHANGED <<script, reports, starts, made, main, tree, localTags, originTags>>
      /\ originMain' = main[m] /\ mainline' = mainline \cup {main[m]}
      /\ base' = [base EXCEPT ![m] = main[m]] /\ base[m] = originMain
  BY DEF PushMain
<1>2. /\ made \in Commit /\ main \in [Machine -> Commit] /\ base \in [Machine -> Commit]
      /\ originMain \in Commit /\ mainline \subseteq Commit
  BY DEF Inv, TypeOK
<1>3. main[m] \in Commit
  BY <1>2
<1>4. TypeOK'
  BY <1>1, <1>3 DEF Inv, TypeOK
<1>5. \A n \in Machine : base'[n] = IF n = m THEN main[m] ELSE base[n]
  BY <1>1, <1>2
<1>6. Ordered'
  <2>1. originMain <= main[m] /\ main[m] <= made /\ \A c \in mainline : c <= originMain
    BY <1>1 DEF Inv, Ordered
  <2>2. \A c \in mainline' : c <= originMain'
    BY <2>1, <1>1, <1>2, <1>3, BoundsAreNat
  <2>3. \A n \in Machine : base'[n] \in mainline' /\ base'[n] <= main'[n] /\ main'[n] <= made'
    BY <1>1, <1>2, <1>3, <1>5, BoundsAreNat DEF Inv, Ordered
  <2> QED BY <2>1, <2>2, <2>3, <1>1 DEF Ordered
<1>8. \A n \in Machine : main[n] <= main'[n] /\ (script[n].pc = "tag" => main'[n] = main[n])
  BY <1>1, <1>2, BoundsAreNat
<1>9. main' \in [Machine -> Commit] /\ mainline \subseteq mainline'
  BY <1>1, <1>2
<1>10. \A n \in Machine, t \in Tag :
           script[n].pc # "idle" /\ localTags[n][t] # NoTag => localTags'[n][t] = localTags[n][t]
  BY <1>1
<1> QED BY <1>1, <1>4, <1>6, <1>8, <1>9, <1>10, CloneMoves DEF Stays

LEMMA PullInv ==
  ASSUME Inv, NEW m \in Machine, Pull(m)
  PROVE  Inv'
<1>1. PICK followed \in SUBSET Tag :
        localTags' = [localTags EXCEPT ![m] =
          [t \in Tag |-> IF t \in followed /\ localTags[m][t] = NoTag
                         THEN originTags[t] ELSE localTags[m][t]]]
  BY DEF Pull
<1>2. /\ UNCHANGED <<reports, starts, made, tree, origin>>
      /\ main' = [main EXCEPT ![m] = originMain] /\ base' = [base EXCEPT ![m] = originMain]
      /\ main[m] = base[m] /\ Slips(m, "pulled")
  BY DEF Pull
<1>3. /\ made \in Commit /\ main \in [Machine -> Commit] /\ base \in [Machine -> Commit]
      /\ originMain \in Commit /\ originTags \in [Tag -> Commit \cup {NoTag, Elsewhere}]
      /\ localTags \in [Machine -> [Tag -> Commit \cup {NoTag, Elsewhere}]]
  BY DEF Inv, TypeOK
<1>4. localTags' \in [Machine -> [Tag -> Commit \cup {NoTag, Elsewhere}]]
  BY <1>1, <1>3
<1>6. \A n \in Machine : /\ main'[n] = IF n = m THEN originMain ELSE main[n]
                         /\ base'[n] = IF n = m THEN originMain ELSE base[n]
  BY <1>2, <1>3
<1>13. main'[m] \in mainline'
  BY <1>2, <1>6 DEF Inv, Ordered, origin
<1>14. /\ script' \in [Machine -> ScriptRecord]
       /\ \A n \in Machine : script'[n].pc # "idle" => script'[n].tag \in Tag
       /\ \A n \in Machine : Stays(n) \/ Slipped(n)
  BY <1>2, <1>6, <1>13, SlipsTypes
<1>5. TypeOK'
  BY <1>2, <1>3, <1>4, <1>14 DEF Inv, TypeOK, origin
<1>7. \A n \in Machine : base[n] \in mainline /\ base[n] <= originMain
  BY DEF Inv, Ordered
<1>8. \A n \in Machine : main[n] <= main'[n]
  BY <1>2, <1>3, <1>6, <1>7, BoundsAreNat
<1>9. Ordered'
  <2>1. \A n \in Machine : base'[n] \in mainline' /\ base'[n] <= main'[n] /\ main'[n] <= made'
    BY <1>2, <1>3, <1>6, BoundsAreNat DEF Inv, Ordered, origin
  <2> QED BY <2>1, <1>2 DEF Inv, Ordered, origin
<1>11. main' \in [Machine -> Commit] /\ mainline \subseteq mainline'
  BY <1>2, <1>3 DEF origin
<1>12. \A n \in Machine, t \in Tag :
           script[n].pc # "idle" /\ localTags[n][t] # NoTag => localTags'[n][t] = localTags[n][t]
  BY <1>1, <1>3
<1> QED BY <1>5, <1>8, <1>9, <1>11, <1>12, <1>14, CloneMoves

\* Steps that leave main alone, at origin and in the clones.
LEMMA TidyingInv ==
  ASSUME Inv,
         \/ \E m \in Machine : ChangeTree(m) \/ \E t \in Tag : DeleteLocalTag(m, t)
         \/ \E t \in Tag : DeleteOriginTag(t)
  PROVE  Inv'
<1>1. UNCHANGED <<script, reports, starts, made, main, base, mainline, originMain>>
  BY DEF ChangeTree, DeleteLocalTag, DeleteOriginTag, origin, clones
<1>2. /\ tree' \in [Machine -> {"clean", "dirty", "elsewhere"}]
      /\ localTags' \in [Machine -> [Tag -> Commit \cup {NoTag, Elsewhere}]]
      /\ originTags' \in [Tag -> Commit \cup {NoTag, Elsewhere}]
      /\ \A t \in Tag : originTags'[t] \in {originTags[t], NoTag}
      /\ \A m \in Machine, t \in Tag :
           script[m].pc # "idle" /\ localTags[m][t] # NoTag => localTags'[m][t] = localTags[m][t]
  <2>0. /\ tree \in [Machine -> {"clean", "dirty", "elsewhere"}]
        /\ localTags \in [Machine -> [Tag -> Commit \cup {NoTag, Elsewhere}]]
        /\ originTags \in [Tag -> Commit \cup {NoTag, Elsewhere}]
    BY DEF Inv, TypeOK
  <2>1. CASE \E m \in Machine : ChangeTree(m)
    BY <2>0, <2>1 DEF ChangeTree, origin
  <2>2. CASE \E m \in Machine, t \in Tag : DeleteLocalTag(m, t)
    <3>1. PICK m \in Machine, t \in Tag : DeleteLocalTag(m, t)
      BY <2>2
    <3>2. /\ localTags' = [localTags EXCEPT ![m][t] = NoTag]
          /\ script[m].pc = "idle" /\ UNCHANGED <<tree, originTags>>
      BY <3>1 DEF DeleteLocalTag, origin, Idle
    <3> QED BY <2>0, <3>2
  <2>3. CASE \E t \in Tag : DeleteOriginTag(t)
    BY <2>0, <2>3 DEF DeleteOriginTag, clones
  <2> QED BY <2>1, <2>2, <2>3
<1>3. TypeOK'
  BY <1>1, <1>2 DEF Inv, TypeOK
<1>4. Ordered'
  BY <1>1 DEF Inv, Ordered
<1>6. \A m \in Machine : main[m] <= main'[m] /\ (script[m].pc = "tag" => main'[m] = main[m])
  BY <1>1, BoundsAreNat DEF Inv, TypeOK
<1>7. main' \in [Machine -> Commit] /\ mainline \subseteq mainline'
  BY <1>1 DEF Inv, TypeOK
<1> QED BY <1>1, <1>2, <1>3, <1>4, <1>6, <1>7, CloneMoves DEF Stays

(***************************************************************************)
(* Starting, failing, tagging, pushing.                                    *)
(***************************************************************************)

LEMMA StartInv ==
  ASSUME Inv, NEW m \in Machine, Start(m) \/ Fail(m)
  PROVE  Inv'
<1>1. CASE Start(m)
  <2>1. PICK t \in Tag, dry \in BOOLEAN :
          script' = [script EXCEPT ![m] = [Idle EXCEPT !.pc = "branch", !.tag = t, !.dry = dry]]
    BY <1>1 DEF Start
  <2> DEFINE e == [Idle EXCEPT !.pc = "branch", !.tag = t, !.dry = dry]
  <2>2. e \in [pc : {"branch"}, tag : {t}, dry : {dry}, round : {1}, verified : {NoTag},
              remote : {NoTag}, slip : {"no"}]
    BY DEF Idle
  <2>3. e.pc = "branch" /\ e.tag = t /\ e.round = 1
    BY <2>2
  <2>4. Fits(e, main[m], localTags[m], mainline)
    BY <2>3 DEF Fits
  <2>5. e \in ScriptRecord
    BY <2>2 DEF ScriptRecord, Step
  <2>6. UNCHANGED <<origin, clones, reports, made>> /\ starts' = starts + 1 /\ starts < MaxStarts
    BY <1>1 DEF Start
  <2>7. reports' \in [Tag -> Commit \cup {NoTag}] /\ starts' \in 0 .. MaxStarts
    BY <2>6, BoundsAreNat DEF Inv, TypeOK
  <2> HIDE DEF e
  <2> QED BY <2>1, <2>3, <2>4, <2>5, <2>6, <2>7, ScriptMoves DEF e
<1>2. CASE Fail(m)
  <2>1. Idle.pc = "idle"
    BY DEF Idle
  <2> QED BY <2>1, <1>2, IdleFits, StepTypes, ScriptMoves DEF Fail
<1> QED BY <1>1, <1>2

LEMMA CheckTargetInv ==
  ASSUME Inv, NEW m \in Machine, CheckTarget(m)
  PROVE  Inv'
<1> DEFINE s == script[m]
<1>0. /\ s \in ScriptRecord
      /\ Fits(s, main[m], localTags[m], mainline)
      /\ main[m] \in Commit
  BY StepTypes
<1>1. [s EXCEPT !.pc = "push"] \in [pc : {"push"}, tag : {s.tag}, dry : {s.dry},
         round : {s.round}, verified : {s.verified}, remote : {s.remote}, slip : {s.slip}]
  BY <1>0 DEF ScriptRecord
<1>2. s.pc = "target" /\ localTags[m][s.tag] = main[m]
  BY DEF CheckTarget, At
<1>3. localTags[m][s.tag] # Elsewhere
  BY <1>0, <1>2, BoundsAreNat
<1>4. localTags[m][s.tag] \in Commit /\ OnTarget(s, localTags[m][s.tag], mainline)
  BY <1>0, <1>2, <1>3 DEF Fits
<1>5. Fits([s EXCEPT !.pc = "push"], main[m], localTags[m], mainline)
  BY <1>0, <1>1, <1>2, <1>4 DEF Fits, OnTarget
<1> QED BY <1>2, <1>5, GotoInv DEF CheckTarget, Step

\* Tagging and verifying change the clone's tags and its script.
LEMMA TagMoves ==
  ASSUME Inv, NEW m \in Machine, NEW s \in ScriptRecord, s.pc # "idle" => s.tag \in Tag,
         NEW c \in Commit \cup {NoTag, Elsewhere}, script[m].tag \in Tag,
         localTags' = [localTags EXCEPT ![m][script[m].tag] = c],
         Fits(s, main[m], localTags'[m], mainline),
         script' = [script EXCEPT ![m] = s],
         UNCHANGED <<origin, main, base, tree, reports, made, starts>>
  PROVE  Inv'
<1>1. \A n \in Machine : /\ script'[n] = IF n = m THEN s ELSE script[n]
                         /\ n # m => localTags'[n] = localTags[n]
  BY DEF Inv, TypeOK
<1>2. localTags' \in [Machine -> [Tag -> Commit \cup {NoTag, Elsewhere}]]
  BY DEF Inv, TypeOK
<1>3. TypeOK'
  BY <1>1, <1>2 DEF Inv, TypeOK, origin
<1>4. Ordered'
  BY DEF Inv, Ordered, origin
<1>5. ScriptsFit'
  BY <1>1 DEF Inv, ScriptsFit, origin
<1> QED BY <1>3, <1>4, <1>5 DEF Inv

LEMMA TagInv ==
  ASSUME Inv, NEW m \in Machine, CreateTag(m) \/ VerifyTag(m)
  PROVE  Inv'
<1> DEFINE s == script[m]
<1>0. /\ s \in ScriptRecord
      /\ s.pc # "idle" => s.tag \in Tag
      /\ Fits(s, main[m], localTags[m], mainline)
      /\ main[m] \in Commit
      /\ localTags \in [Machine -> [Tag -> Commit \cup {NoTag, Elsewhere}]]
  BY StepTypes DEF Inv, TypeOK
<1>1. CASE CreateTag(m)
  <2> DEFINE e == [s EXCEPT !.pc = "verify"]
  <2>1. e \in [pc : {"verify"}, tag : {s.tag}, dry : {s.dry},
         round : {s.round}, verified : {s.verified}, remote : {s.remote}, slip : {s.slip}]
    BY <1>0 DEF ScriptRecord
  <2>2. s.pc = "tag" /\ localTags' = [localTags EXCEPT ![m][s.tag] = Head(m)] /\ s.tag \in Tag
    BY <1>0, <1>1 DEF CreateTag, At
  <2>3. /\ Head(m) = Elsewhere \/ (Head(m) \in Commit /\ OnTarget(s, Head(m), mainline))
        /\ Head(m) \in Commit \cup {NoTag, Elsewhere}
    BY <2>2, <1>0 DEF Head, Fits
  <2>4. localTags'[m][s.tag] = Head(m)
    BY <2>2, <1>0
  <2>5. Fits(e, main[m], localTags'[m], mainline)
    BY <2>1, <2>2, <2>3, <2>4, <1>0 DEF Fits, OnTarget
  <2>6. e \in ScriptRecord /\ e.tag \in Tag
    BY <2>2, <1>0 DEF ScriptRecord, Step
  <2>7. script' = [script EXCEPT ![m] = e]
    BY <1>1 DEF CreateTag, Goto, Inv, TypeOK
  <2>8. UNCHANGED <<origin, main, base, tree, reports, made, starts>>
    BY <1>1 DEF CreateTag
  <2> HIDE DEF e
  <2> QED BY <2>2, <2>3, <2>5, <2>6, <2>7, <2>8, TagMoves
<1>2. CASE VerifyTag(m) /\ Goto(m, "target") /\ UNCHANGED localTags
  <2>1. [s EXCEPT !.pc = "target"] \in [pc : {"target"}, tag : {s.tag}, dry : {s.dry},
           round : {s.round}, verified : {s.verified}, remote : {s.remote}, slip : {s.slip}]
    BY <1>0 DEF ScriptRecord
  <2>2. Fits([s EXCEPT !.pc = "target"], main[m], localTags[m], mainline)
    BY <2>1, <1>0, <1>2 DEF Fits, OnTarget, VerifyTag, At
  <2>3. UNCHANGED <<origin, clones, reports, made, starts>>
    BY <1>2 DEF VerifyTag, clones
  <2> QED BY <2>2, <2>3, <1>2, GotoInv DEF VerifyTag, At, Step
<1>3. CASE VerifyTag(m) /\ script' = [script EXCEPT ![m] = Idle]
           /\ localTags' = [localTags EXCEPT ![m][script[m].tag] = NoTag]
  <2>1. Idle.pc = "idle" /\ s.tag \in Tag
    BY <1>0, <1>3 DEF Idle, VerifyTag, At
  <2>2. UNCHANGED <<origin, main, base, tree, reports, made, starts>>
    BY <1>3 DEF VerifyTag
  <2> QED BY <2>1, <2>2, <1>3, IdleFits, TagMoves
<1> QED BY <1>1, <1>2, <1>3 DEF VerifyTag

LEMMA PushFacts ==
  ASSUME Inv, NEW m \in Machine, Push(m)
  PROVE  /\ script[m].tag \in Tag /\ script[m].verified \in Commit
         /\ localTags[m][script[m].tag] \in Commit
         /\ OnTarget(script[m], localTags[m][script[m].tag], mainline)
BY StepTypes DEF Push, At, Fits

LEMMA PushInv ==
  ASSUME Inv, NEW m \in Machine, Push(m)
  PROVE  Inv'
<1> DEFINE t == script[m].tag
<1>1. t \in Tag /\ localTags[m][t] \in Commit /\ script[m].verified \in Commit
  BY PushFacts
<1>2. originTags' = [originTags EXCEPT ![t] = localTags[m][t]]
  BY DEF Push
<1>3. /\ script' = [script EXCEPT ![m] = Idle]
      /\ UNCHANGED <<originMain, mainline, clones, made, starts>>
  BY DEF Push
<1>4. reports' \in [Tag -> Commit \cup {NoTag}]
  BY <1>1 DEF Push, Inv, TypeOK
<1>5. Idle.pc = "idle"
  BY DEF Idle
<1>6. \A n \in Machine : script'[n] = IF n = m THEN Idle ELSE script[n]
  BY <1>3 DEF Inv, TypeOK
<1>7. TypeOK'
  BY <1>1, <1>2, <1>3, <1>4, <1>5, <1>6, IdleFits DEF Inv, TypeOK, clones
<1>8. Ordered'
  BY <1>3 DEF Inv, Ordered, clones
<1>9. ScriptsFit'
  BY <1>3, <1>6, IdleFits DEF Inv, ScriptsFit, clones
<1> QED BY <1>7, <1>8, <1>9 DEF Inv

(***************************************************************************)
(* The theorems.                                                           *)
(***************************************************************************)

LEMMA NextInv == Inv /\ [Next]_vars => Inv'
<1> SUFFICES ASSUME Inv, [Next]_vars PROVE Inv'
  OBVIOUS
<1>1. CASE UNCHANGED vars
  <2>1. UNCHANGED <<originMain, mainline, originTags, main, base, tree, localTags, script,
                    reports, made, starts>>
    BY <1>1 DEF vars, origin, clones
  <2> QED BY <2>1 DEF Inv, TypeOK, Ordered, ScriptsFit
<1>2. CASE MergeAtOrigin
  BY <1>2, MergeInv
<1>3. CASE \E t \in Tag : DeleteOriginTag(t)
  BY <1>3, TidyingInv
<1>4. ASSUME NEW m \in Machine, Maintainer(m) PROVE Inv'
  BY <1>4, CommitLocallyInv, PushMainInv, PullInv, TidyingInv DEF Maintainer
<1>5. ASSUME NEW m \in Machine, Script(m) PROVE Inv'
  BY <1>5, StartInv, EnsureReadyInv, CheckingInv, TagInv, CheckTargetInv, PushInv DEF Script
<1> QED BY <1>1, <1>2, <1>3, <1>4, <1>5 DEF Next

\* The inductive invariant.
THEOREM AlwaysInv == Spec => []Inv
<1>1. Init => Inv
  BY InitInv
<1>2. Inv /\ [Next]_vars => Inv'
  BY NextInv
<1> QED BY <1>1, <1>2, PTL DEF Spec

\* Every variable of the release script keeps its type.
THEOREM TypeCorrect == Spec => []TypeOK
<1>1. Inv => TypeOK
  BY DEF Inv
<1> QED BY <1>1, AlwaysInv, PTL

\* A step that pushes the tag t from the clone m is the action Push(m): no other step both
\* ends a script at its last line and changes a tag at origin.
LEMMA OnlyPushPushes ==
  ASSUME Inv, [Next]_vars, NEW m \in Machine, NEW t \in Tag, Pushes(m, t)
  PROVE  Push(m)
<1>1. script[m] # Idle /\ script'[m] = Idle /\ originTags' # originTags
  BY DEF Pushes, At, Idle
<1>2. ~ UNCHANGED script
  BY <1>1
<1>3. ASSUME NEW n \in Machine, Push(n) PROVE n = m
  <2>1. script' = [script EXCEPT ![n] = Idle]
    BY <1>3 DEF Push
  <2> QED BY <2>1, <1>1 DEF Inv, TypeOK
<1>4. CASE \E n \in Machine : Push(n)
  BY <1>3, <1>4
<1>5. CASE ~ \E n \in Machine : Push(n)
  <2>1. UNCHANGED script \/ UNCHANGED originTags
    BY <1>5 DEF Next, Maintainer, Script, EnsureReady, vars, origin, MergeAtOrigin,
       DeleteOriginTag, CommitLocally, PushMain, Pull, ChangeTree, DeleteLocalTag, Start,
       Fail, CheckBranch, ReadRemote, CheckLocal, CheckOriginTag, Verify, PassGates,
       Confirm, Decide, CreateTag, VerifyTag, CheckTarget
  <2> QED BY <2>1, <1>1, <1>2
<1> QED BY <1>4, <1>5

\* What a push puts at origin.
LEMMA PushedOnTarget ==
  ASSUME Inv, [Next]_vars, NEW m \in Machine, NEW t \in Tag, Pushes(m, t)
  PROVE  OnTarget(script[m], originTags'[t], mainline)
<1>1. Push(m) /\ script[m].tag = t
  BY OnlyPushPushes DEF Pushes
<1>2. originTags'[t] = localTags[m][t]
  BY <1>1 DEF Push, Inv, TypeOK
<1> QED BY <1>1, <1>2, PushFacts

\* A version tag is pushed only of a merged commit, unless the clone committed after the last
\* comparison, for any number of maintainers, versions and commits.
THEOREM TagAlwaysOnMain == Spec => TagOnMain
<1>1. ASSUME Inv, [Next]_vars
      PROVE  [\A m \in Machine, t \in Tag :
                Pushes(m, t) /\ script[m].slip # "committed" => originTags'[t] \in mainline]_vars
  BY <1>1, PushedOnTarget DEF OnTarget
<1> QED BY <1>1, AlwaysInv, PTL DEF Spec, TagOnMain

\* The commit whose tag is pushed is the verified one, unless main moved after the last
\* comparison.
THEOREM PushAlwaysVerified == Spec => PushedWasVerified
<1>1. ASSUME Inv, [Next]_vars
      PROVE  [\A m \in Machine, t \in Tag :
                Pushes(m, t) /\ script[m].slip = "no" => originTags'[t] = script[m].verified]_vars
  BY <1>1, PushedOnTarget DEF OnTarget
<1> QED BY <1>1, AlwaysInv, PTL DEF Spec, PushedWasVerified
=============================================================================
