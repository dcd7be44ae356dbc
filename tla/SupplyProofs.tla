----------------------------- MODULE SupplyProofs -----------------------------
(***************************************************************************)
(* Theorems about what follows a dependency update: the relocking of a     *)
(* pull request (Relock), for any updates, groups, artifacts and runs, and *)
(* the synchronisation and audit of the supply chain (SupplySync), for any *)
(* inventory, versions and bounds.                                         *)
(***************************************************************************)
EXTENDS SupplySync, Relock, FiniteSetTheorems, WellFoundedInduction, TLAPS

-----------------------------------------------------------------------------
(* The relock.                                                             *)

\* Every artifact of these groups had a checksum, got one, or is reported as not found.
Known(d, base, groups) ==
  \A g \in groups : \A a \in Resolves[base.update][g] :
    base.sums[a] # NoDigest \/ d.found[a] # NoDigest \/ a \in d.missing

\* A patch keeps the checksums of the commit it is made from, and lacks none unreported.
PatchFits(d, base) ==
  /\ \A a \in Artifact : base.sums[a] # NoDigest => d.sums[a] = base.sums[a]
  /\ \A g \in Group : \A a \in Resolves[base.update][g] :
       d.sums[a] # NoDigest \/ a \in d.missing

\* What run d, working on commit base, has so far.
RunSound(d, base) ==
  /\ d.stage \in {"unused", "resolve"} => d.todo = Group
  /\ d.stage \in {"unused", "resolve", "groups"} => d.job = "relock"
  /\ d.stage \in {"apply", "commit"} => d.job = "push"
  /\ d.stage = "groups" => Known(d, base, Group \ d.todo)
  /\ d.job = "push" => PatchFits(d, base)

RunsInv == \A r \in RelockRun : RunSound(relock[r], Base(r))

\* A relock's commit is put on the commit it worked on, of which the head has moved away; it
\* fits it.
CommitsInv ==
  \A n \in Relocks :
    /\ commits[n].parent = commits[n].relocked
    /\ commits[n].relocked \in 1 .. made
    /\ commits[n].relocked < head
    /\ commits[n].update = commits[commits[n].parent].update
    /\ commits[n].lock = commits[n].update
    /\ PatchFits(commits[n], commits[commits[n].parent])

\* No two are of one commit.
OnceInv == \A m, n \in Relocks : commits[m].relocked = commits[n].relocked => m = n

RelockInv == RelockTypeOK /\ RunsInv /\ CommitsInv /\ OnceInv

LEMMA RelockBounds == MaxCommits \in Nat \ {0} /\ MaxRelockReruns \in Nat
BY RelockBoundAssumption

LEMMA NoSums == [a \in Artifact |-> NoDigest] \in Sums
BY DEF Sums

\* A run that has not begun.
LEMMA NewRunFacts ==
  /\ NewRelock \in RelockRecord /\ NewRelock.todo = Group /\ NewRelock.job = "relock"
  /\ NewRelock.sha = 1
  /\ NewRelock.stage = "unused"
<1>1. 1 \in Number /\ Group \in SUBSET Group /\ {} \in SUBSET Artifact
  BY RelockBounds DEF Number
<1> QED BY <1>1, NoSums DEF NewRelock, RelockRecord, AtRest

LEMMA RelockInitInv == RelockInit => RelockInv
<1> SUFFICES ASSUME RelockInit PROVE RelockInv
  OBVIOUS
<1>1. PICK u \in Update, l \in Update, sums \in MergedSums :
        commits = [n \in Number |-> ByRenovate(u, l, sums)]
  BY DEF RelockInit
<1>2. made = 1 /\ head = 1 /\ relock = [r \in RelockRun |-> NewRelock] /\ relockReruns = 0
  BY DEF RelockInit
<1>3. sums \in Sums
  BY SumsAssumption
<1>4. 0 \in 0 .. MaxCommits
  BY RelockBounds
<1>5. ByRenovate(u, l, sums) \in CommitRecord /\ ByRenovate(u, l, sums).parent = 0
  BY <1>3, <1>4 DEF ByRenovate, CommitRecord
<1>6. commits \in [Number -> CommitRecord] /\ \A n \in Number : commits[n].parent = 0
  BY <1>1, <1>5
<1>7. 1 \in Number /\ 1 .. 1 \subseteq Number
  BY RelockBounds DEF Number
<1>8. Relocks = {}
  BY <1>2, <1>6, <1>7 DEF Relocks
<1>9. relock \in [RelockRun -> RelockRecord] /\ \A r \in RelockRun : relock[r].sha <= made
  BY <1>2, NewRunFacts
<1>10. relockReruns \in 0 .. MaxRelockReruns /\ head \in 1 .. made
  BY <1>2, RelockBounds
<1>11. RelockTypeOK
  BY <1>2, <1>6, <1>7, <1>9, <1>10 DEF RelockTypeOK
<1>12. RunsInv
  BY <1>2, NewRunFacts DEF RunsInv, RunSound
<1>13. CommitsInv /\ OnceInv
  BY <1>8 DEF CommitsInv, OnceInv
<1> QED BY <1>11, <1>12, <1>13 DEF RelockInv

LEMMA RelockTyped ==
  ASSUME RelockInv
  PROVE  /\ made \in 1 .. MaxCommits /\ head \in 1 .. made
         /\ commits \in [Number -> CommitRecord] /\ relock \in [RelockRun -> RelockRecord]
         /\ 1 .. made \subseteq Number
         /\ \A r \in RelockRun : relock[r] \in RelockRecord /\ relock[r].sha \in 1 .. made
BY RelockBounds DEF RelockInv, RelockTypeOK, RelockRecord, Number

\* The steps of a run that leave the branch as it is.
LEMMA RunMoves ==
  ASSUME RelockInv, UNCHANGED branch, relockReruns' \in 0 .. MaxRelockReruns,
         NEW r \in RelockRun, NEW d \in RelockRecord, d.sha \in 1 .. made,
         relock' = [relock EXCEPT ![r] = d],
         RunSound(d, commits[d.sha])
  PROVE  RelockInv'
<1>1. UNCHANGED <<commits, made, head>>
  BY DEF branch
<1>2. /\ relock' \in [RelockRun -> RelockRecord]
      /\ \A s \in RelockRun : relock'[s] = IF s = r THEN d ELSE relock[s]
  BY RelockTyped
<1>3. \A s \in RelockRun : relock'[s].sha <= made'
  BY <1>1, <1>2, RelockTyped
<1>4. RelockTypeOK'
  BY <1>1, <1>2, <1>3 DEF RelockInv, RelockTypeOK
<1>5. RunsInv'
  <2> SUFFICES ASSUME NEW s \in RelockRun PROVE RunSound(relock'[s], commits[relock'[s].sha])
    BY <1>1 DEF RunsInv, Base
  <2>1. CASE s = r
    BY <1>2, <2>1
  <2>2. CASE s # r
    BY <1>2, <2>2 DEF RelockInv, RunsInv, Base
  <2> QED BY <2>1, <2>2
<1>6. CommitsInv' /\ OnceInv'
  BY <1>1 DEF RelockInv, CommitsInv, OnceInv, Relocks
<1> QED BY <1>4, <1>5, <1>6 DEF RelockInv

\* A new commit leaves the others as they are.
LEMMA CommitMade ==
  ASSUME RelockInv, made < MaxCommits, made' = made + 1, head' = made + 1,
         NEW c \in CommitRecord, commits' = [commits EXCEPT ![made + 1] = c]
  PROVE  /\ made + 1 \in Number /\ made' \in Number /\ head' \in 1 .. made' /\ head < head'
         /\ commits' \in [Number -> CommitRecord]
         /\ commits'[made + 1] = c
         /\ \A n \in 1 .. made : n \in 1 .. made' /\ commits'[n] = commits[n]
         /\ Relocks' = IF c.parent # 0 THEN Relocks \cup {made + 1} ELSE Relocks
<1>1. /\ made \in 1 .. MaxCommits /\ head \in 1 .. made
      /\ commits \in [Number -> CommitRecord]
  BY RelockTyped
<1>2. made + 1 \in Number /\ made' \in Number /\ head' \in 1 .. made' /\ head < head'
  BY <1>1, RelockBounds DEF Number
<1>3. commits' \in [Number -> CommitRecord] /\ commits'[made + 1] = c
  BY <1>1, <1>2
<1>4. \A n \in 1 .. made : n \in 1 .. made' /\ n \in Number /\ commits'[n] = commits[n]
  BY <1>1, RelockBounds DEF Number
<1>5. \A n \in 1 .. made' : n \in 1 .. made \/ n = made + 1
  BY <1>1, RelockBounds
<1>6. made + 1 \in 1 .. made' /\ made + 1 \notin 1 .. made
  BY <1>1, RelockBounds
<1>7. Relocks' = {n \in 1 .. made' : commits'[n].parent # 0}
  BY DEF Relocks
<1>8. Relocks = {n \in 1 .. made : commits[n].parent # 0}
  BY DEF Relocks
<1>a. \A n : n \in 1 .. made' <=> n \in 1 .. made \/ n = made + 1
  BY <1>4, <1>5, <1>6
<1>b. \A n : n \in Relocks' <=> n \in Relocks \/ (n = made + 1 /\ c.parent # 0)
  BY <1>3, <1>4, <1>6, <1>7, <1>8, <1>a
<1>9. Relocks' = IF c.parent # 0 THEN Relocks \cup {made + 1} ELSE Relocks
  BY <1>b
<1> QED BY <1>2, <1>3, <1>4, <1>9

\* What runs work on is among the older commits.
LEMMA RunsStay ==
  ASSUME RelockInv, \A n \in 1 .. made : commits'[n] = commits[n],
         NEW r \in RelockRun, relock'[r].sha = relock[r].sha,
         RunSound(relock'[r], Base(r))
  PROVE  RunSound(relock[r], Base(r))'
<1>1. relock[r].sha \in 1 .. made
  BY RelockTyped
<1>2. Base(r)' = Base(r)
  BY <1>1 DEF Base
<1> QED BY <1>2 DEF RunSound, Known, PatchFits

LEMMA MoveBranchKeeps == RelockInv /\ MoveBranch => RelockInv'
<1> SUFFICES ASSUME RelockInv, MoveBranch PROVE RelockInv'
  OBVIOUS
<1>1. PICK u \in Update, l \in Update, sums \in MergedSums :
        commits' = [commits EXCEPT ![made + 1] = ByRenovate(u, l, sums)]
  BY DEF MoveBranch
<1> DEFINE c == ByRenovate(u, l, sums)
<1>2. sums \in Sums /\ 0 \in 0 .. MaxCommits
  BY SumsAssumption, RelockBounds
<1>3. c \in CommitRecord /\ c.parent = 0
  BY <1>2 DEF ByRenovate, CommitRecord
<1>4. made < MaxCommits /\ made' = made + 1 /\ head' = made + 1 /\ UNCHANGED <<relock, relockReruns>>
  BY DEF MoveBranch
<1> HIDE DEF c
<1>5. commits' = [commits EXCEPT ![made + 1] = c]
  BY <1>1 DEF c
<1>6. /\ made' \in Number /\ head' \in 1 .. made' /\ head < head'
      /\ commits' \in [Number -> CommitRecord]
      /\ \A n \in 1 .. made : n \in 1 .. made' /\ commits'[n] = commits[n]
      /\ Relocks' = Relocks
  BY <1>3, <1>4, <1>5, CommitMade
<1>7. \A r \in RelockRun : relock[r].sha <= made'
  BY <1>4, RelockTyped
<1>8. RelockTypeOK'
  BY <1>4, <1>6, <1>7 DEF RelockInv, RelockTypeOK
<1>9. RunsInv'
  BY <1>4, <1>6, RunsStay DEF RelockInv, RunsInv
<1>10. Relocks \subseteq 1 .. made
  BY DEF Relocks
<1>11. CommitsInv'
  <2> SUFFICES ASSUME NEW n \in Relocks
               PROVE  /\ commits'[n].parent = commits'[n].relocked
                      /\ commits'[n].relocked \in 1 .. made'
                      /\ commits'[n].relocked < head'
                      /\ commits'[n].update = commits'[commits'[n].parent].update
                      /\ commits'[n].lock = commits'[n].update
                      /\ PatchFits(commits'[n], commits'[commits'[n].parent])
    BY <1>6 DEF CommitsInv, PatchFits
  <2>1. commits'[n] = commits[n] /\ commits[n].parent \in 1 .. made
    BY <1>6, <1>10 DEF RelockInv, CommitsInv
  <2>2. commits'[commits[n].parent] = commits[commits[n].parent]
    BY <1>6, <2>1
  <2>3. commits[n].relocked < head' /\ commits[n].relocked \in 1 .. made'
    BY <1>4, <1>6, RelockTyped DEF RelockInv, CommitsInv
  <2> QED BY <2>1, <2>2, <2>3 DEF RelockInv, CommitsInv
<1>12. OnceInv'
  BY <1>6, <1>10 DEF RelockInv, OnceInv
<1> QED BY <1>8, <1>9, <1>11, <1>12 DEF RelockInv

LEMMA DispatchKeeps == ASSUME RelockInv, NEW r \in RelockRun, Dispatch(r) PROVE RelockInv'
<1>1. PICK dry \in BOOLEAN : relock' = [relock EXCEPT ![r].stage = "resolve", ![r].dry = dry]
  BY DEF Dispatch
<1> DEFINE d == [relock[r] EXCEPT !.stage = "resolve", !.dry = dry]
<1>2. UNCHANGED branch /\ relockReruns' = relockReruns /\ relock[r].stage = "unused"
  BY DEF Dispatch, StageIs
<1>3. relock' = [relock EXCEPT ![r] = d]
  BY <1>1, RelockTyped
<1>4. /\ d \in RelockRecord /\ d.sha = relock[r].sha /\ d.stage = "resolve"
      /\ d.todo = relock[r].todo /\ d.job = relock[r].job
  BY RelockTyped DEF RelockRecord
<1> HIDE DEF d
<1>5. relock[r].todo = Group /\ relock[r].job = "relock"
  BY <1>2 DEF RelockInv, RunsInv, RunSound
<1>6. RunSound(d, commits[d.sha])
  BY <1>4, <1>5 DEF RunSound
<1> QED BY <1>2, <1>3, <1>4, <1>6, RelockTyped, RunMoves DEF RelockInv, RelockTypeOK

\* A run's patch outlives its failure and its end.
LEMMA RestingSound ==
  ASSUME NEW d, NEW base, NEW e, RunSound(d, base), e.stage \in {"failed", "done"}, e.job = d.job,
         e.sums = d.sums, e.missing = d.missing
  PROVE  RunSound(e, base)
BY DEF RunSound, PatchFits

\* A run that only goes on to another stage.
LEMMA StageMoves ==
  ASSUME RelockInv, NEW r \in RelockRun,
         NEW stage \in {"resolve", "groups", "apply", "commit"} \cup AtRest
  PROVE  LET d == [relock[r] EXCEPT !.stage = stage] IN
         /\ d \in RelockRecord /\ d.stage = stage /\ d.dry = relock[r].dry /\ d.sha = relock[r].sha
         /\ d.todo = relock[r].todo /\ d.found = relock[r].found /\ d.missing = relock[r].missing
         /\ d.sums = relock[r].sums /\ d.kept = relock[r].kept /\ d.job = relock[r].job
BY RelockTyped DEF RelockRecord

LEMMA FailKeeps == ASSUME RelockInv, NEW r \in RelockRun, JobFails(r) PROVE RelockInv'
<1> DEFINE d == [relock[r] EXCEPT !.stage = "failed"]
<1>1. UNCHANGED branch /\ relockReruns' = relockReruns
  BY DEF JobFails
<1>2. relock' = [relock EXCEPT ![r] = d]
  BY RelockTyped DEF JobFails, GoesTo
<1>3. /\ d \in RelockRecord /\ d.sha = relock[r].sha /\ d.stage = "failed" /\ d.job = relock[r].job
      /\ d.sums = relock[r].sums /\ d.missing = relock[r].missing
  <2>1. "failed" \in {"resolve", "groups", "apply", "commit"} \cup AtRest
    BY DEF AtRest
  <2> QED BY <2>1, StageMoves
<1> HIDE DEF d
<1>4. RunSound(relock[r], commits[relock[r].sha])
  BY DEF RelockInv, RunsInv, Base
<1>5. RunSound(d, commits[d.sha])
  BY <1>3, <1>4, RestingSound
<1> QED BY <1>1, <1>2, <1>3, <1>5, RelockTyped, RunMoves DEF RelockInv, RelockTypeOK

LEMMA RunIsSound ==
  ASSUME RelockInv, NEW r \in RelockRun
  PROVE  RunSound(relock[r], commits[relock[r].sha]) /\ relockReruns \in 0 .. MaxRelockReruns
BY DEF RelockInv, RelockTypeOK, RunsInv, Base

LEMMA RerunCounted ==
  ASSUME RelockInv, relockReruns < MaxRelockReruns, relockReruns' = relockReruns + 1
  PROVE  relockReruns' \in 0 .. MaxRelockReruns
BY RelockBounds DEF RelockInv, RelockTypeOK

\* The relock job from its start.
LEMMA AnewSound ==
  ASSUME RelockInv, NEW dry \in BOOLEAN
  PROVE  LET d == [NewRelock EXCEPT !.stage = "resolve", !.dry = dry] IN
         d \in RelockRecord /\ d.sha \in 1 .. made /\ RunSound(d, commits[d.sha])
<1> DEFINE d == [NewRelock EXCEPT !.stage = "resolve", !.dry = dry]
<1>1. /\ d \in RelockRecord /\ d.sha = 1 /\ d.stage = "resolve"
      /\ d.todo = Group /\ d.job = "relock"
  BY NewRunFacts DEF RelockRecord
<1> HIDE DEF d
<1>2. 1 \in 1 .. made
  BY RelockTyped, RelockBounds
<1>3. RunSound(d, commits[d.sha])
  BY <1>1 DEF RunSound
<1> QED BY <1>1, <1>2, <1>3 DEF d

LEMMA RerunAllKeeps == ASSUME RelockInv, NEW r \in RelockRun, RelockAgain(r) PROVE RelockInv'
<1> DEFINE d == [NewRelock EXCEPT !.stage = "resolve", !.dry = relock[r].dry]
<1>1. /\ UNCHANGED branch /\ relockReruns < MaxRelockReruns /\ relockReruns' = relockReruns + 1
      /\ relock' = [relock EXCEPT ![r] = d]
  BY DEF RelockAgain
<1>2. relock[r].dry \in BOOLEAN
  BY RelockTyped DEF RelockRecord
<1>3. d \in RelockRecord /\ d.sha \in 1 .. made /\ RunSound(d, commits[d.sha])
  BY <1>2, AnewSound
<1> HIDE DEF d
<1> QED BY <1>1, <1>3, RerunCounted, RunMoves

\* The push job again, with the patch of its run.
LEMMA RerunFailedKeeps == ASSUME RelockInv, NEW r \in RelockRun, RelockFailedJob(r) PROVE RelockInv'
<1> DEFINE again == [relock[r] EXCEPT !.stage = "apply"]
           anew == [NewRelock EXCEPT !.stage = "resolve", !.dry = relock[r].dry]
<1>1. /\ UNCHANGED branch /\ relockReruns < MaxRelockReruns /\ relockReruns' = relockReruns + 1
      /\ relock' = [relock EXCEPT ![r] = IF relock[r].job = "push" THEN again ELSE anew]
  BY DEF RelockFailedJob
<1>2. relockReruns' \in 0 .. MaxRelockReruns
  BY <1>1, RerunCounted
<1>3. CASE relock[r].job = "push"
  <2>1. /\ again \in RelockRecord /\ again.stage = "apply" /\ again.sha = relock[r].sha
        /\ again.missing = relock[r].missing /\ again.sums = relock[r].sums /\ again.job = "push"
    BY <1>3, StageMoves
  <2>2. relock' = [relock EXCEPT ![r] = again]
    BY <1>1, <1>3
  <2> HIDE DEF again
  <2>3. RunSound(again, commits[again.sha])
    BY <1>3, <2>1, RunIsSound DEF RunSound, PatchFits
  <2> QED BY <1>1, <1>2, <2>1, <2>2, <2>3, RelockTyped, RunMoves
<1>4. CASE relock[r].job # "push"
  <2>1. relock[r].dry \in BOOLEAN
    BY RelockTyped DEF RelockRecord
  <2>2. anew \in RelockRecord /\ anew.sha \in 1 .. made /\ RunSound(anew, commits[anew.sha])
    BY <2>1, AnewSound
  <2>3. relock' = [relock EXCEPT ![r] = anew]
    BY <1>1, <1>4
  <2> HIDE DEF anew
  <2> QED BY <1>1, <1>2, <2>2, <2>3, RunMoves
<1> QED BY <1>3, <1>4

LEMMA ExpireKeeps == ASSUME RelockInv, NEW r \in RelockRun, PatchExpires(r) PROVE RelockInv'
<1> DEFINE d == [relock[r] EXCEPT !.kept = FALSE]
<1>1. UNCHANGED branch /\ relockReruns' = relockReruns
  BY DEF PatchExpires
<1>2. relock' = [relock EXCEPT ![r] = d]
  <2>1. relock \in [RelockRun -> RelockRecord] /\ relock[r] \in RelockRecord
    BY RelockTyped
  <2> QED BY <2>1 DEF PatchExpires
<1>3. d \in RelockRecord
  <2>1. relock[r] \in RelockRecord
    BY RelockTyped
  <2> QED BY <2>1 DEF RelockRecord
<1>4. /\ d.sha = relock[r].sha /\ d.stage = relock[r].stage /\ d.job = relock[r].job
      /\ d.sums = relock[r].sums /\ d.missing = relock[r].missing /\ d.todo = relock[r].todo
      /\ d.found = relock[r].found
  <2>1. relock[r] \in RelockRecord
    BY RelockTyped
  <2> QED BY <2>1 DEF RelockRecord
<1> HIDE DEF d
<1>a. RunSound(relock[r], commits[d.sha])
  BY <1>4, RunIsSound
<1>5. RunSound(d, commits[d.sha])
  BY <1>4, <1>a DEF RunSound, PatchFits, Known
<1> QED BY <1>1, <1>2, <1>3, <1>4, <1>5, RelockTyped, RunIsSound, RunMoves

LEMMA ResolvePrKeeps == ASSUME RelockInv, NEW r \in RelockRun, ResolvePr(r) PROVE RelockInv'
<1> DEFINE d == [relock[r] EXCEPT !.stage = "groups", !.sha = head]
<1>1. UNCHANGED branch /\ relockReruns' = relockReruns /\ relock[r].stage = "resolve"
  BY DEF ResolvePr, StageIs
<1>2. relock' = [relock EXCEPT ![r] = d]
  BY RelockTyped DEF ResolvePr
<1>3. head \in Number /\ head \in 1 .. made
  BY RelockTyped
<1>4. /\ d \in RelockRecord /\ d.sha = head /\ d.stage = "groups"
      /\ d.job = relock[r].job /\ d.todo = relock[r].todo
  BY <1>3, RelockTyped DEF RelockRecord
<1> HIDE DEF d
<1>5. d.job = "relock" /\ d.todo = Group
  BY <1>1, <1>4, RunIsSound DEF RunSound
<1>6. RunSound(d, commits[d.sha])
  BY <1>4, <1>5 DEF RunSound, Known
<1> QED BY <1>1, <1>2, <1>3, <1>4, <1>6, RunIsSound, RunMoves

LEMMA BaseTyped ==
  ASSUME RelockInv, NEW r \in RelockRun
  PROVE  /\ Base(r) \in CommitRecord /\ Base(r).sums \in Sums /\ Base(r).update \in Update
         /\ \A g \in Group : Resolves[Base(r).update][g] \subseteq Artifact
<1>1. Base(r) \in CommitRecord
  BY RelockTyped DEF Base
<1>2. Base(r).sums \in Sums /\ Base(r).update \in Update
  BY <1>1 DEF CommitRecord
<1> QED BY <1>1, <1>2, ResolvesAssumption

\* What a group resolves has the checksum served, was hashed, or is lost.
LEMMA RunGroupKeeps ==
  ASSUME RelockInv, NEW r \in RelockRun, NEW g \in Group, RunGroup(r, g)
  PROVE  RelockInv'
<1>1. PICK served \in [Artifact -> Digest], lost \in SUBSET Resolves[Base(r).update][g] :
        LET reported == Reported(r, g, served) IN
        /\ lost \subseteq reported
        /\ relock' = [relock EXCEPT
             ![r].todo = @ \ {g},
             ![r].missing = @ \cup lost,
             ![r].found = [a \in Artifact |-> IF a \in reported \ lost THEN served[a] ELSE @[a]]]
  BY DEF RunGroup
<1> DEFINE reported == Reported(r, g, served)
           todo == relock[r].todo \ {g}
           missing == relock[r].missing \cup lost
           found == [a \in Artifact |-> IF a \in reported \ lost THEN served[a] ELSE relock[r].found[a]]
           d == [relock[r] EXCEPT !.todo = todo, !.missing = missing, !.found = found]
<1>2. /\ UNCHANGED branch /\ relockReruns' = relockReruns /\ relock[r].stage = "groups"
      /\ g \in relock[r].todo
  BY DEF RunGroup, StageIs
<1>3. relock' = [relock EXCEPT ![r] = d]
  BY <1>1, RelockTyped
<1>4. /\ relock[r].todo \in SUBSET Group /\ relock[r].missing \in SUBSET Artifact
      /\ relock[r].found \in Sums
  BY RelockTyped DEF RelockRecord
<1>5. todo \in SUBSET Group /\ missing \in SUBSET Artifact
  BY <1>4, BaseTyped
<1>6. found \in Sums
  BY <1>4 DEF Sums
<1>7. \A a \in Artifact : /\ a \in reported \ lost => found[a] = served[a]
                          /\ a \notin reported \ lost => found[a] = relock[r].found[a]
  OBVIOUS
<1>8. \A a \in Resolves[Base(r).update][g] : a \notin reported => Base(r).sums[a] = served[a]
  BY DEF Reported
<1>9. \A a \in Artifact : served[a] # NoDigest
  BY DigestAssumption
<1>10. \A a \in lost : a \in missing
  OBVIOUS
<1>11. \A a \in relock[r].missing : a \in missing
  OBVIOUS
<1>12. \A h \in Group \ todo : h = g \/ h \in Group \ relock[r].todo
  OBVIOUS
<1> HIDE DEF todo, missing, found, reported
<1>13. /\ d \in RelockRecord
       /\ d.sha = relock[r].sha /\ d.stage = "groups" /\ d.job = relock[r].job
       /\ d.todo = todo /\ d.missing = missing /\ d.found = found
  BY <1>2, <1>5, <1>6, RelockTyped DEF RelockRecord
<1> HIDE DEF d
<1>14. relock[r].job = "relock" /\ Known(relock[r], Base(r), Group \ relock[r].todo)
  BY <1>2, RunIsSound DEF RunSound, Base
<1>15. Known(d, Base(r), Group \ d.todo)
  <2> SUFFICES ASSUME NEW h \in Group \ todo, NEW a \in Resolves[Base(r).update][h]
               PROVE  Base(r).sums[a] # NoDigest \/ found[a] # NoDigest \/ a \in missing
    BY <1>13 DEF Known
  <2>1. a \in Artifact
    BY BaseTyped
  <2>2. CASE h = g
    BY <1>7, <1>8, <1>9, <1>10, <2>1, <2>2
  <2>3. CASE h \in Group \ relock[r].todo
    BY <1>7, <1>9, <1>11, <1>14, <2>1, <2>3 DEF Known
  <2> QED BY <1>12, <2>2, <2>3
<1>16. RunSound(d, commits[d.sha])
  BY <1>13, <1>14, <1>15 DEF RunSound, Base
<1> QED BY <1>2, <1>3, <1>13, <1>16, RelockTyped, RunIsSound, RunMoves

\* The patch of a run whose groups are all done.
LEMMA UploadKeeps == ASSUME RelockInv, NEW r \in RelockRun, UploadPatch(r) PROVE RelockInv'
<1> DEFINE sums == Inserted(Base(r).sums, relock[r].found)
           stage == IF relock[r].dry THEN "done" ELSE "apply"
           job == IF relock[r].dry THEN "relock" ELSE "push"
           d == [relock[r] EXCEPT !.sums = sums, !.stage = stage, !.job = job]
<1>1. /\ UNCHANGED branch /\ relockReruns' = relockReruns /\ relock[r].stage = "groups"
      /\ relock[r].todo = {}
  BY DEF UploadPatch, StageIs
<1>2. relock' = [relock EXCEPT ![r] = d]
  BY RelockTyped DEF UploadPatch
<1>3. relock[r].found \in Sums /\ Base(r).sums \in Sums
  BY RelockTyped, BaseTyped DEF RelockRecord
<1>4. sums \in Sums
  BY <1>3 DEF Sums, Inserted
<1>5. \A a \in Artifact :
        sums[a] = IF Base(r).sums[a] # NoDigest THEN Base(r).sums[a] ELSE relock[r].found[a]
  BY DEF Inserted
<1>6. stage \in {"done", "apply"} /\ job \in {"relock", "push"} /\ (stage = "apply" => job = "push")
  OBVIOUS
<1> HIDE DEF sums, stage, job
<1>7. /\ d \in RelockRecord
      /\ d.sha = relock[r].sha /\ d.stage = stage /\ d.job = job
      /\ d.sums = sums /\ d.missing = relock[r].missing
  BY <1>4, <1>6, RelockTyped DEF RelockRecord, AtRest
<1> HIDE DEF d
<1>8. Known(relock[r], Base(r), Group)
  <2>1. Known(relock[r], Base(r), Group \ relock[r].todo)
    BY <1>1, RunIsSound DEF RunSound, Base
  <2> QED BY <1>1, <2>1
<1>9. PatchFits(d, Base(r))
  <2>1. \A a \in Artifact : Base(r).sums[a] # NoDigest => d.sums[a] = Base(r).sums[a]
    BY <1>5, <1>7
  <2>2. ASSUME NEW g \in Group, NEW a \in Resolves[Base(r).update][g]
        PROVE  d.sums[a] # NoDigest \/ a \in d.missing
    <3>1. a \in Artifact
      BY BaseTyped
    <3> QED BY <1>5, <1>7, <1>8, <3>1 DEF Known
  <2> QED BY <2>1, <2>2 DEF PatchFits
<1>10. RunSound(d, commits[d.sha])
  BY <1>6, <1>7, <1>9 DEF RunSound, Base
<1> QED BY <1>1, <1>2, <1>7, <1>10, RelockTyped, RunIsSound, RunMoves

LEMMA ApplyKeeps == ASSUME RelockInv, NEW r \in RelockRun, Apply(r) PROVE RelockInv'
<1> DEFINE stage == IF Base(r).lock = Base(r).update /\ relock[r].sums = Base(r).sums
                    THEN "done" ELSE "commit"
           d == [relock[r] EXCEPT !.stage = stage]
<1>1. UNCHANGED branch /\ relockReruns' = relockReruns /\ relock[r].stage = "apply"
  BY DEF Apply, StageIs
<1>2. relock' = [relock EXCEPT ![r] = d]
  <2>1. relock \in [RelockRun -> RelockRecord] /\ relock[r] \in RelockRecord
    BY RelockTyped
  <2> QED BY <2>1 DEF Apply, GoesTo
<1>3. stage \in {"done", "commit"}
  OBVIOUS
<1> HIDE DEF stage
<1>4. /\ d \in RelockRecord /\ d.stage = stage /\ d.sha = relock[r].sha
      /\ d.missing = relock[r].missing /\ d.sums = relock[r].sums /\ d.job = relock[r].job
  <2>1. stage \in {"resolve", "groups", "apply", "commit"} \cup AtRest
    BY <1>3 DEF AtRest
  <2> QED BY <2>1, StageMoves
<1> HIDE DEF d
<1>5. RunSound(d, commits[d.sha])
  BY <1>1, <1>3, <1>4, RunIsSound DEF RunSound, PatchFits
<1> QED BY <1>1, <1>2, <1>4, <1>5, RelockTyped, RunIsSound, RunMoves

\* The patch is put on the commit it was made from, and nothing else is of that commit: the
\* head had to be it still, and has left it now.
LEMMA CommitKeeps == ASSUME RelockInv, NEW r \in RelockRun, CommitOntoHead(r) PROVE RelockInv'
<1> DEFINE c == [update |-> commits[head].update, lock |-> Base(r).update, sums |-> relock[r].sums,
                 parent |-> head, relocked |-> relock[r].sha, missing |-> relock[r].missing]
<1>1. /\ relock[r].stage = "commit" /\ head = relock[r].sha
      /\ made < MaxCommits /\ made' = made + 1 /\ head' = made + 1 /\ relockReruns' = relockReruns
      /\ commits' = [commits EXCEPT ![made + 1] = c]
  BY DEF CommitOntoHead, StageIs, ExpectedHead
<1>2. PICK end \in {"done", "failed"} : relock' = [relock EXCEPT ![r].stage = end]
  BY DEF CommitOntoHead, GoesTo
<1>3. /\ head \in 1 .. made /\ head \in Number /\ made \in 1 .. MaxCommits
      /\ commits \in [Number -> CommitRecord] /\ Base(r) = commits[head]
  BY <1>1, RelockTyped DEF Base
<1>4. relock[r].sums \in Sums /\ relock[r].missing \in SUBSET Artifact
  BY RelockTyped DEF RelockRecord
<1>5. commits[head].update \in Update /\ head \in 0 .. MaxCommits /\ head # 0
  BY <1>3, RelockBounds DEF CommitRecord
<1>6. /\ c \in CommitRecord /\ c.parent = head /\ c.relocked = head
      /\ c.update = commits[head].update /\ c.lock = commits[head].update
      /\ c.sums = relock[r].sums /\ c.missing = relock[r].missing
  BY <1>1, <1>3, <1>4, <1>5 DEF CommitRecord
<1> HIDE DEF c
<1>7. /\ made' \in Number /\ head' \in 1 .. made' /\ head < head'
      /\ commits' \in [Number -> CommitRecord] /\ commits'[made + 1] = c
      /\ \A n \in 1 .. made : n \in 1 .. made' /\ commits'[n] = commits[n]
      /\ Relocks' = Relocks \cup {made + 1}
  BY <1>1, <1>5, <1>6, CommitMade
<1> DEFINE d == [relock[r] EXCEPT !.stage = end]
<1>8. relock' = [relock EXCEPT ![r] = d]
  <2>1. relock \in [RelockRun -> RelockRecord] /\ relock[r] \in RelockRecord
    BY RelockTyped
  <2> QED BY <1>2, <2>1
<1>9. /\ d \in RelockRecord /\ d.stage = end /\ d.sha = relock[r].sha
      /\ d.missing = relock[r].missing /\ d.sums = relock[r].sums /\ d.job = relock[r].job
  <2>1. end \in {"resolve", "groups", "apply", "commit"} \cup AtRest
    BY DEF AtRest
  <2> QED BY <2>1, StageMoves
<1> HIDE DEF d
<1>10. /\ relock' \in [RelockRun -> RelockRecord]
       /\ \A s \in RelockRun : relock'[s] = IF s = r THEN d ELSE relock[s]
  BY <1>8, <1>9, RelockTyped
<1>11. \A s \in RelockRun : relock'[s].sha = relock[s].sha /\ relock'[s].sha <= made'
  BY <1>1, <1>9, <1>10, RelockTyped
<1>12. RelockTypeOK'
  BY <1>1, <1>7, <1>10, <1>11, RunIsSound DEF RelockInv, RelockTypeOK
<1>13. RunsInv'
  <2> SUFFICES ASSUME NEW s \in RelockRun PROVE RunSound(relock[s], Base(s))'
    BY DEF RunsInv
  <2>1. RunSound(relock[s], Base(s))
    BY RunIsSound DEF Base
  <2>2. d.stage \in {"failed", "done"}
    BY <1>9
  <2>3. RunSound(d, Base(r))
    BY <1>9, <2>2, RunIsSound, RestingSound DEF Base
  <2>4. RunSound(relock'[s], Base(s))
    BY <1>10, <2>1, <2>3
  <2> QED BY <1>7, <1>11, <2>4, RunsStay
<1>14. Relocks \subseteq 1 .. made /\ made + 1 \notin Relocks
  BY <1>3, RelockBounds DEF Relocks
<1>15. PatchFits(c, commits[head])
  <2>1. PatchFits(relock[r], commits[head])
    BY <1>1, RunIsSound DEF RunSound
  <2> QED BY <1>6, <2>1 DEF PatchFits
<1>16. CommitsInv'
  <2> SUFFICES ASSUME NEW n \in Relocks \cup {made + 1}
               PROVE  /\ commits'[n].parent = commits'[n].relocked
                      /\ commits'[n].relocked \in 1 .. made'
                      /\ commits'[n].relocked < head'
                      /\ commits'[n].update = commits'[commits'[n].parent].update
                      /\ commits'[n].lock = commits'[n].update
                      /\ PatchFits(commits'[n], commits'[commits'[n].parent])
    BY <1>7 DEF CommitsInv, PatchFits
  <2>1. CASE n \in Relocks
    <3>1. commits'[n] = commits[n] /\ commits[n].parent \in 1 .. made
      BY <1>7, <1>14, <2>1 DEF RelockInv, CommitsInv
    <3>2. commits'[commits[n].parent] = commits[commits[n].parent]
      BY <1>7, <3>1
    <3>3. commits[n].relocked < head' /\ commits[n].relocked \in 1 .. made'
      BY <1>1, <1>7, <2>1, RelockTyped DEF RelockInv, CommitsInv
    <3> QED BY <2>1, <3>1, <3>2, <3>3 DEF RelockInv, CommitsInv
  <2>2. CASE n = made + 1
    <3>1. commits'[n] = c /\ commits'[head] = commits[head]
      BY <1>3, <1>7, <2>2
    <3>2. head \in 1 .. made'
      BY <1>3, <1>7
    <3> QED BY <1>6, <1>7, <1>15, <3>1, <3>2
  <2> QED BY <2>1, <2>2
<1>17. OnceInv'
  <2>1. \A n \in Relocks : commits'[n] = commits[n] /\ commits[n].relocked # head
    BY <1>3, <1>7, <1>14 DEF RelockInv, CommitsInv
  <2>2. commits'[made + 1].relocked = head
    BY <1>6, <1>7
  <2> QED BY <1>7, <2>1, <2>2 DEF RelockInv, OnceInv
<1> QED BY <1>12, <1>13, <1>16, <1>17 DEF RelockInv

\* Commits and runs stay of their types; what a run has collected stays true of its commit.
THEOREM RelockTypeCorrect == RelockSpec => []RelockInv
<1>1. RelockInv /\ UNCHANGED relockVars => RelockInv'
  <2> SUFFICES ASSUME RelockInv, UNCHANGED relockVars PROVE RelockInv'
    OBVIOUS
  <2>1. UNCHANGED <<commits, made, head, relock, relockReruns>>
    BY DEF relockVars
  <2>2. RelockTypeOK'
    BY <2>1 DEF RelockInv, RelockTypeOK
  <2>3. RunsInv'
    BY <2>1 DEF RelockInv, RunsInv, RunSound, Base, Known, PatchFits
  <2>4. CommitsInv'
    BY <2>1 DEF RelockInv, CommitsInv, PatchFits, Relocks
  <2>5. OnceInv'
    BY <2>1 DEF RelockInv, OnceInv, Relocks
  <2> QED BY <2>2, <2>3, <2>4, <2>5 DEF RelockInv
<1>2. RelockInv /\ RelockNext => RelockInv'
  BY MoveBranchKeeps, DispatchKeeps, FailKeeps, RerunFailedKeeps, RerunAllKeeps, ExpireKeeps,
     ResolvePrKeeps, RunGroupKeeps, UploadKeeps, ApplyKeeps, CommitKeeps
  DEF RelockNext, RunStep
<1> QED BY <1>1, <1>2, RelockInitInv, PTL DEF RelockSpec

\* A relock's commit leaves every checksum of its parent as it was, whatever the repositories
\* serve and however the branch moves.
THEOREM ChecksumsAlwaysKept == RelockSpec => []ChecksumsKept
<1>1. RelockInv => ChecksumsKept
  BY DEF RelockInv, CommitsInv, PatchFits, ChecksumsKept
<1> QED BY <1>1, RelockTypeCorrect, PTL

\* A relock's commit fits the update it is put on, and no commit is relocked twice, though
\* runs fail, are run again, and answers are lost.
THEOREM RelockAlwaysFits == RelockSpec => []RelockFits
<1>1. RelockInv => RelockFits
  <2> SUFFICES ASSUME RelockInv, NEW n \in Relocks
               PROVE  /\ commits[n].lock = commits[n].update
                      /\ \A g \in Group : \A a \in Resolves[commits[n].update][g] :
                           commits[n].sums[a] # NoDigest \/ a \in commits[n].missing
                      /\ \A m \in Relocks : commits[m].relocked = commits[n].relocked => m = n
    BY DEF RelockFits
  <2> QED BY DEF RelockInv, CommitsInv, OnceInv, PatchFits
<1> QED BY <1>1, RelockTypeCorrect, PTL

-----------------------------------------------------------------------------
(* The supply chain.                                                       *)

\* The newest of some versions: the one with the fewest newer ones.
LEMMA HasNewest ==
  ASSUME NEW S \in SUBSET Versions, S # {}
  PROVE  Newest(S) \in S /\ \A v \in S : v <= Newest(S)
<1> DEFINE newer(v) == {w \in S : v < w}
           family == {newer(v) : v \in S}
<1>1. S \subseteq Nat /\ IsFiniteSet(S)
  <2>1. MaxVersion \in Int /\ 1 \in Int
    BY VersionAssumption
  <2>2. IsFiniteSet(Versions)
    BY <2>1, FS_Interval DEF Versions
  <2>3. IsFiniteSet(S)
    BY <2>2, FS_Subset
  <2>4. Versions \subseteq Nat
    BY <2>1 DEF Versions
  <2> QED BY <2>3, <2>4
<1>2. family \subseteq FiniteSubsetsOf(S) /\ family # {}
  <2>1. \A T \in SUBSET S : IsFiniteSet(T)
    BY <1>1, FS_Subset
  <2>2. \A v \in S : newer(v) \in SUBSET S
    OBVIOUS
  <2>3. family # {}
    OBVIOUS
  <2> HIDE DEF newer
  <2> QED BY <2>1, <2>2, <2>3 DEF FiniteSubsetsOf
<1>3. PICK T \in family : \A U \in family : <<U, T>> \notin StrictSubsetOrdering(S)
  <2>1. IsWellFoundedOn(StrictSubsetOrdering(S), FiniteSubsetsOf(S))
    BY <1>1, FS_StrictSubsetOrderingWellFounded
  <2> HIDE DEF family
  <2> QED BY <1>2, <2>1, WFMin
<1>4. PICK v \in S : T = newer(v)
  OBVIOUS
<1>5. \A w \in S : w <= v
  <2> SUFFICES ASSUME NEW w \in S, ~(w <= v) PROVE FALSE
    OBVIOUS
  <2>1. w \in Nat /\ v \in Nat /\ v < w
    BY <1>1
  <2>2. newer(w) \subseteq T
    <3> SUFFICES ASSUME NEW x \in S, w < x PROVE v < x
      BY <1>4
    <3> QED BY <1>1, <2>1
  <2>3. w \in T /\ w \notin newer(w) /\ T \in SUBSET S
    BY <1>4, <2>1
  <2>4. newer(w) \in family
    OBVIOUS
  <2> HIDE DEF newer, family
  <2>5. <<newer(w), T>> \in StrictSubsetOrdering(S)
    BY <2>2, <2>3 DEF StrictSubsetOrdering
  <2> QED BY <1>3, <2>4, <2>5
<1> QED BY <1>5 DEF Newest

\* Whose releases a dependency follows.
LEMMA UpstreamFacts ==
  ASSUME NEW d \in Dependencies
  PROVE  /\ Upstream(d) \in Dependencies
         /\ Kind[d] # "wrapper" => Upstream(d) = d
         /\ Kind[d] = "wrapper" => Kind[Upstream(d)] = "gradle"
         /\ Upstream(Upstream(d)) = Upstream(d)
<1>1. CASE Kind[d] # "wrapper"
  BY <1>1 DEF Upstream
<1>2. CASE Kind[d] = "wrapper"
  <2>1. d \in OfKind("wrapper")
    BY <1>2 DEF OfKind
  <2>2. Upstream(d) \in OfKind("gradle")
    BY <1>2, <2>1, KindAssumption DEF Upstream
  <2>3. Upstream(d) \in Dependencies /\ Kind[Upstream(d)] = "gradle"
    BY <2>2 DEF OfKind
  <2>4. Upstream(Upstream(d)) = Upstream(d)
    BY <2>3 DEF Upstream
  <2> QED BY <1>2, <2>3, <2>4
<1> QED BY <1>1, <1>2

\* What Fits says of a product: nothing is declared but the version of its entry.
LEMMA ProductDeclared ==
  ASSUME NEW d \in Products, DeclarationFits(d)
  PROVE  \A v \in tree[d] : v = inventory[d].version
<1>1. d \in Dependencies /\ Kind[d] = "product" /\ d \notin Undeclared
  BY DEF Products, OfKind, Undeclared
<1>2. DeclaredFields(d) = {"version"}
  BY <1>1 DEF DeclaredFields
<1>3. \A v \in tree[d], f \in DeclaredFields(d) : inventory[d][f] = v
  BY <1>1 DEF DeclarationFits
<1>4. \A v \in tree[d] : inventory[d]["version"] = v
  BY <1>2, <1>3
<1> QED BY <1>4

-----------------------------------------------------------------------------
(* The audit.                                                              *)

LEMMA CandidatesAreVersions ==
  ASSUME NEW d
  PROVE  Candidates(d) \subseteq Versions /\ Matured(d) \subseteq Candidates(d)
BY DEF Candidates, Matured

\* A release that validates is the one it says it is, and none that has matured is newer.
LEMMA ValidIsFresh ==
  ASSUME NEW d, NEW version, NEW releasedAt, ValidateRelease(d, version, releasedAt) = Ok
  PROVE  releasedAt = version /\ \A v \in Matured(d) : v <= version
<1>1. /\ version \in Candidates(d) /\ releasedAt = version
      /\ ~(Matured(d) = {} \/ version < Newest(Matured(d)))
  BY DEF ValidateRelease, Ok, Mismatch, Drift
<1>2. Matured(d) \in SUBSET Versions /\ version \in Versions
  BY <1>1, CandidatesAreVersions
<1>3. Newest(Matured(d)) \in Matured(d) /\ \A v \in Matured(d) : v <= Newest(Matured(d))
  BY <1>1, <1>2, HasNewest
<1>4. \A v \in Matured(d) : v \in Nat /\ version \in Nat
  BY <1>2, VersionAssumption DEF Versions
<1> QED BY <1>1, <1>3, <1>4

LEMMA GradleIsFresh ==
  ASSUME NEW d, VerifyGradle(d) = Ok
  PROVE  /\ inventory[d].releasedAt = inventory[d].version
         /\ inventory[d].sha256 = inventory[d].version
         /\ \A v \in Matured(d) : v <= inventory[d].version
<1>1. /\ inventory[d].version = Newest(Candidates(d))
      /\ inventory[d].releasedAt = inventory[d].version
      /\ inventory[d].sha256 = inventory[d].version
  BY DEF VerifyGradle, Ok, Mismatch, Drift
<1>2. ASSUME NEW v \in Matured(d) PROVE v <= Newest(Candidates(d))
  BY CandidatesAreVersions, HasNewest
<1> QED BY <1>1, <1>2

LEMMA GithubIsFresh ==
  ASSUME NEW d, VerifyGithub(d) = Ok
  PROVE  /\ inventory[d].releasedAt = inventory[d].version
         /\ inventory[d].release = inventory[d].version
         /\ \A v \in Matured(d) : v <= inventory[d].version
<1>1. /\ ValidateRelease(d, inventory[d].release, inventory[d].releasedAt) = Ok
      /\ inventory[d].version = inventory[d].release
  BY DEF VerifyGithub, Ok, Mismatch, Drift
<1> QED BY <1>1, ValidIsFresh

\* An audit that is content had nothing but Ok to say.
LEMMA ContentMeansOk ==
  ASSUME ExitStatus = 0, NEW d \in Dependencies
  PROVE  Verify(d) = Ok /\ DeclarationFits(d)
<1>1. /\ Accepted
      /\ Mismatch \notin {Verify(e) : e \in Dependencies}
      /\ Drift \notin {Verify(e) : e \in Dependencies}
  BY DEF ExitStatus
<1>2. Verify(d) # Mismatch /\ Verify(d) # Drift
  BY <1>1
<1>3. \A version, releasedAt :
        ValidateRelease(d, version, releasedAt) \in {Ok, Drift, Mismatch}
  BY DEF ValidateRelease
<1>4. /\ VerifyGradle(d) \in {Ok, Drift, Mismatch}
      /\ VerifyGithub(d) \in {Ok, Drift, Mismatch}
      /\ VerifyContainer(d) \in {Ok, Drift, Mismatch}
  BY <1>3 DEF VerifyGradle, VerifyGithub, VerifyContainer
<1>5. Verify(d) \in {Ok, Drift, Mismatch}
  BY <1>3, <1>4 DEF Verify
<1> QED BY <1>1, <1>2, <1>5 DEF Accepted

\* What the audit's content rests on, in any state of the declared types: each verdict is Ok, and the offline check
\* ties an image's version to its release.
LEMMA ContentTells == TypeOK => AuditTells
<1> SUFFICES ASSUME TypeOK, ExitStatus = 0, NEW d \in Dependencies, ~Forgiven(d)
             PROVE  OfOneRelease(d) /\ \A v \in Matured(d) : v <= inventory[d].version
  BY DEF AuditTells
<1>1. Verify(d) = Ok /\ DeclarationFits(d)
  BY ContentMeansOk
<1>2. CASE Kind[d] \in {"gradle", "wrapper"}
  <2>1. VerifyGradle(d) = Ok
    BY <1>1, <1>2 DEF Verify
  <2> QED BY <1>2, <2>1, GradleIsFresh DEF OfOneRelease
<1>3. CASE Kind[d] \in {"action", "tool"}
  <2>1. VerifyGithub(d) = Ok
    BY <1>1, <1>3 DEF Verify
  <2> QED BY <1>3, <2>1, GithubIsFresh DEF OfOneRelease
<1>4. CASE Kind[d] = "image"
  <2>1. VerifyContainer(d) = Ok
    BY <1>1, <1>4 DEF Verify
  <2>2. repushed.tag # inventory[d].release
    <3>1. SUFFICES ASSUME repushed.tag = inventory[d].release PROVE FALSE
      OBVIOUS
    <3>2. ~(repushed.at + Grace <= now)
      BY <2>1, <3>1 DEF VerifyContainer, Ok, Drift
    <3>3. now < repushed.at + Grace
      <4>1. now \in Int /\ repushed.at \in Int /\ Grace \in Int
        BY VersionAssumption DEF TypeOK
      <4> QED BY <3>2, <4>1
    <3> QED BY <1>4, <3>1, <3>3 DEF Forgiven
  <2>3. ValidateRelease(d, inventory[d].release, inventory[d].releasedAt) = Ok
    BY <2>1, <2>2 DEF VerifyContainer
  <2>4. d \notin Undeclared /\ DeclaredFields(d) = {"version", "release"}
    BY <1>4 DEF DeclaredFields, Undeclared, OfKind
  <2>5. tree[d] # {} /\ \A v \in tree[d], f \in DeclaredFields(d) : inventory[d][f] = v
    BY <1>1, <1>4, <2>4 DEF DeclarationFits
  <2>6. PICK v \in tree[d] : TRUE
    BY <2>5
  <2>7. inventory[d].version = v /\ inventory[d].release = v
    BY <2>4, <2>5
  <2>8. inventory[d].releasedAt = v /\ \A w \in Matured(d) : w <= v
    BY <2>3, <2>7, ValidIsFresh
  <2> QED BY <1>4, <2>7, <2>8 DEF OfOneRelease
<1>5. CASE Kind[d] \notin {"gradle", "wrapper", "action", "tool", "image"}
  <2>1. ValidateRelease(d, inventory[d].version, inventory[d].releasedAt) = Ok
    BY <1>1, <1>5 DEF Verify
  <2> QED BY <1>5, <2>1, ValidIsFresh DEF OfOneRelease
<1> QED BY <1>2, <1>3, <1>4, <1>5

-----------------------------------------------------------------------------
(* What refresh makes of the inventory.                                    *)

LEMMA SupplyBounds ==
  /\ MaxVersion \in Nat \ {0} /\ Grace \in Nat
  /\ MaxNow \in Nat /\ MaxNews \in Nat /\ MaxEdits \in Nat
  /\ Grace < MaxNow /\ Versions \subseteq Nat \ {0} /\ 1 \in Versions
<1>1. MaxVersion \in Nat \ {0} /\ Grace \in Nat
  BY VersionAssumption
<1>2. MaxNow \in Nat /\ MaxNews \in Nat /\ MaxEdits \in Nat /\ Grace < MaxNow
  BY BoundsAssumption
<1>3. Versions \subseteq Nat \ {0} /\ 1 \in Versions
  BY <1>1 DEF Versions
<1> QED BY <1>1, <1>2, <1>3

LEMMA SameEntry ==
  ASSUME NEW e \in Entry, NEW f \in Entry, e.version = f.version, e.release = f.release,
         e.releasedAt = f.releasedAt, e.sha256 = f.sha256, e.source = f.source
  PROVE  e = f
BY DEF Entry

LEMMA Declared ==
  ASSUME NEW d
  PROVE  /\ DeclaredFields(d) \subseteq {"version", "release", "sha256"}
         /\ d \in Undeclared => DeclaredFields(d) = {}
         /\ d \notin Undeclared /\ Kind[d] = "image" => DeclaredFields(d) = {"version", "release"}
         /\ d \notin Undeclared /\ Kind[d] = "wrapper" => DeclaredFields(d) = {"sha256"}
         /\ d \notin Undeclared /\ Kind[d] \notin {"image", "wrapper"} =>
              DeclaredFields(d) = {"version"}
<1>0. d \in Undeclared => Kind[d] = "tool"
  BY DEF Undeclared, OfKind
<1>1. CASE d \in Undeclared
  BY <1>0, <1>1 DEF DeclaredFields
<1>2. CASE d \notin Undeclared /\ Kind[d] = "image"
  BY <1>2 DEF DeclaredFields
<1>3. CASE d \notin Undeclared /\ Kind[d] = "wrapper"
  BY <1>3 DEF DeclaredFields
<1>4. CASE d \notin Undeclared /\ Kind[d] \notin {"image", "wrapper"}
  BY <1>4 DEF DeclaredFields
<1> QED BY <1>1, <1>2, <1>3, <1>4

\* The URL names the version or the release, whatever else the entry says.
LEMMA SourceOf ==
  ASSUME NEW d, NEW e \in Entry
  PROVE  OfficialSource(d, e) \in 0 .. MaxVersion
<1>1. e.version \in 0 .. MaxVersion /\ e.release \in 0 .. MaxVersion
  BY SupplyBounds DEF Entry, Versions
<1>2. 0 \in 0 .. MaxVersion
  BY SupplyBounds
<1> QED BY <1>1, <1>2 DEF OfficialSource

LEMMA Sourced ==
  ASSUME NEW d, NEW e \in Entry
  PROVE  LET s == [e EXCEPT !.source = OfficialSource(d, e)] IN
         /\ s \in Entry /\ s.source = OfficialSource(d, s)
         /\ s.version = e.version /\ s.release = e.release
         /\ s.releasedAt = e.releasedAt /\ s.sha256 = e.sha256
<1> DEFINE source == OfficialSource(d, e)
           s == [e EXCEPT !.source = source]
<1>1. source \in 0 .. MaxVersion
  BY SourceOf
<1>2. s.version = e.version /\ s.release = e.release
  BY DEF Entry
<1>3. OfficialSource(d, s) = OfficialSource(d, e)
  BY <1>2 DEF OfficialSource
<1> HIDE DEF source
<1>4. s \in Entry /\ s.source = source /\ s.releasedAt = e.releasedAt /\ s.sha256 = e.sha256
  BY <1>1 DEF Entry
<1> QED BY <1>2, <1>3, <1>4 DEF source

\* The one value a dependency declares.
LEMMA OneDeclared ==
  ASSUME TypeOK, NEW d \in Dependencies, Declares(d)
  PROVE  \E v \in Versions : tree[d] = {v}
<1>1. tree[d] \in SUBSET Versions
  BY DEF TypeOK
<1>2. IsFiniteSet(Versions)
  <2>1. 1 \in Int /\ MaxVersion \in Int
    BY SupplyBounds
  <2> QED BY <2>1, FS_Interval DEF Versions
<1>3. IsFiniteSet(tree[d]) /\ Cardinality(tree[d]) = 1
  BY <1>1, <1>2, FS_Subset DEF Declares
<1>4. PICK v : tree[d] = {v}
  BY <1>3, FS_Singleton
<1> QED BY <1>1, <1>4

\* What the tree proves of an entry.
LEMMA ProvedFacts ==
  ASSUME TypeOK, NEW d \in Dependencies
  PROVE  /\ Proved[d] \in Entry
         /\ Proved[d].releasedAt = inventory[d].releasedAt
         /\ Proved[d].source = inventory[d].source
         /\ ~Declares(d) => Proved[d] = inventory[d]
         /\ \A v : tree[d] = {v} /\ Declares(d) =>
              /\ Proved[d].version = IF "version" \in DeclaredFields(d) THEN v
                                     ELSE inventory[d].version
              /\ Proved[d].release = IF "release" \in DeclaredFields(d) THEN v
                                     ELSE inventory[d].release
              /\ Proved[d].sha256 = IF "sha256" \in DeclaredFields(d) THEN v
                                    ELSE inventory[d].sha256
<1> DEFINE e == inventory[d]
           fields == DeclaredFields(d)
<1>1. e \in Entry
  BY DEF TypeOK
<1>2. fields \subseteq {"version", "release", "sha256"}
  BY Declared
<1>3. CASE ~Declares(d)
  <2>1. Proved[d] = e
    BY <1>3 DEF Proved
  <2> QED BY <1>1, <1>3, <2>1
<1>4. CASE Declares(d)
  <2>1. PICK v \in Versions : tree[d] = {v}
    BY <1>4, OneDeclared
  <2> DEFINE chosen == CHOOSE w \in tree[d] : TRUE
  <2>2. chosen = v
    BY <2>1
  <2>0. Proved[d] = [f \in DOMAIN inventory[d] |->
                       IF f \in DeclaredFields(d) THEN chosen ELSE inventory[d][f]]
    BY <1>4 DEF Proved
  <2> HIDE DEF chosen
  <2>3. Proved[d] = [f \in DOMAIN e |-> IF f \in fields THEN v ELSE e[f]]
    BY <2>0, <2>2
  <2> HIDE DEF e, fields
  <2>4. Proved[d] \in Entry
    BY <1>1, <1>2, <2>3 DEF Entry
  <2>5. /\ Proved[d].version = IF "version" \in fields THEN v ELSE e.version
        /\ Proved[d].release = IF "release" \in fields THEN v ELSE e.release
        /\ Proved[d].sha256 = IF "sha256" \in fields THEN v ELSE e.sha256
        /\ Proved[d].releasedAt = e.releasedAt /\ Proved[d].source = e.source
    BY <1>1, <1>2, <2>3 DEF Entry
  <2>6. \A w : tree[d] = {w} => w = v
    BY <2>1
  <2> QED BY <1>4, <2>4, <2>5, <2>6 DEF e, fields
<1> QED BY <1>3, <1>4

\* The version whose metadata is asked for is among the versions.
LEMMA FollowedFacts ==
  ASSUME NEW inv \in [Dependencies -> Entry], NEW d \in Dependencies
  PROVE  /\ Followed(inv, d) \in Versions
         /\ Kind[d] \in {"gradle", "wrapper"} => Followed(inv, d) = inv[Upstream(d)].version
         /\ Kind[d] = "image" => Followed(inv, d) = inv[d].release
         /\ Kind[d] \notin {"gradle", "wrapper", "image"} => Followed(inv, d) = inv[d].version
<1>1. Upstream(d) \in Dependencies
  BY UpstreamFacts
<1>2. inv[Upstream(d)].version \in Versions /\ inv[d].release \in Versions /\ inv[d].version \in Versions
  BY <1>1 DEF Entry
<1>3. CASE Kind[d] \in {"gradle", "wrapper"}
  BY <1>2, <1>3 DEF Followed
<1>4. CASE Kind[d] = "image"
  BY <1>2, <1>4 DEF Followed
<1>5. CASE Kind[d] \notin {"gradle", "wrapper", "image"}
  BY <1>2, <1>5 DEF Followed
<1> QED BY <1>3, <1>4, <1>5

\* What an answer makes of an entry, per kind; without one it stays as it is.
LEMMA AnsweredFacts ==
  ASSUME NEW inv \in [Dependencies -> Entry], NEW d \in Dependencies, NEW silent
  PROVE  LET v == Followed(inv, d) a == Answered(inv, d, silent) e == inv[d] IN
         /\ a \in Entry /\ a.source = e.source
         /\ ~Refreshable(inv, d, silent) => a = e
         /\ Kind[d] \notin {"gradle", "wrapper"} => a.version = e.version /\ a.sha256 = e.sha256
         /\ Kind[d] \notin {"action", "tool"} => a.release = e.release
         /\ Refreshable(inv, d, silent) =>
              /\ a.releasedAt = v
              /\ Kind[d] \in {"gradle", "wrapper"} => a.version = v /\ a.sha256 = v
              /\ Kind[d] \in {"action", "tool"} => a.release = v
<1> DEFINE v == Followed(inv, d)
           a == Answered(inv, d, silent)
           e == inv[d]
<1>1. e \in Entry /\ v \in Versions
  BY FollowedFacts
<1>2. CASE ~Refreshable(inv, d, silent)
  <2>1. a = e
    BY <1>2 DEF Answered
  <2> QED BY <1>1, <1>2, <2>1
<1>3. CASE Refreshable(inv, d, silent) /\ Kind[d] \in {"gradle", "wrapper"}
  <2>1. a = [e EXCEPT !.version = v, !.releasedAt = v, !.sha256 = v]
    BY <1>3 DEF Answered
  <2> HIDE DEF a, v, e
  <2>2. /\ a \in Entry /\ a.version = v /\ a.releasedAt = v /\ a.sha256 = v
        /\ a.release = e.release /\ a.source = e.source
    BY <1>1, <2>1 DEF Entry
  <2> QED BY <1>3, <2>2 DEF a, v, e
<1>4. CASE Refreshable(inv, d, silent) /\ Kind[d] \in {"action", "tool"}
  <2>1. a = [e EXCEPT !.release = v, !.releasedAt = v]
    BY <1>4 DEF Answered
  <2> HIDE DEF a, v, e
  <2>2. /\ a \in Entry /\ a.release = v /\ a.releasedAt = v /\ a.version = e.version
        /\ a.sha256 = e.sha256 /\ a.source = e.source
    BY <1>1, <2>1 DEF Entry
  <2> QED BY <1>4, <2>2 DEF a, v, e
<1>5. CASE Refreshable(inv, d, silent) /\ Kind[d] \notin {"gradle", "wrapper", "action", "tool"}
  <2>1. a = [e EXCEPT !.releasedAt = v]
    BY <1>5 DEF Answered
  <2> HIDE DEF a, v, e
  <2>2. /\ a \in Entry /\ a.releasedAt = v /\ a.version = e.version
        /\ a.release = e.release /\ a.sha256 = e.sha256 /\ a.source = e.source
    BY <1>1, <2>1 DEF Entry
  <2> QED BY <1>5, <2>2 DEF a, v, e
<1> QED BY <1>2, <1>3, <1>4, <1>5

LEMMA ProvedTyped == TypeOK => Proved \in [Dependencies -> Entry]
<1> SUFFICES ASSUME TypeOK PROVE Proved \in [Dependencies -> Entry]
  OBVIOUS
<1>1. Proved = [d \in Dependencies |-> Proved[d]]
  BY DEF Proved
<1>2. \A d \in Dependencies : Proved[d] \in Entry
  BY ProvedFacts
<1> QED BY <1>1, <1>2

Asked(online, silent, d) == IF online THEN Answered(Proved, d, silent) ELSE Proved[d]

\* The entry a run computes: what was proved and answered, with the URL of that.
LEMMA RefreshedFacts ==
  ASSUME TypeOK, NEW online \in BOOLEAN, NEW silent, NEW d \in Dependencies
  PROVE  LET a == Asked(online, silent, d) r == Refreshed(online, silent)[d] IN
         /\ a \in Entry /\ r \in Entry
         /\ r.version = a.version /\ r.release = a.release /\ r.releasedAt = a.releasedAt
         /\ r.sha256 = a.sha256
         /\ inventory[d].source = OfficialSource(d, inventory[d]) => r.source = OfficialSource(d, r)
<1> DEFINE a == Asked(online, silent, d)
           r == Refreshed(online, silent)[d]
           sourced == [a EXCEPT !.source = OfficialSource(d, a)]
           changed == Proved[d] # inventory[d] \/ a # Proved[d]
<1>1. a \in Entry
  BY AnsweredFacts, ProvedTyped DEF Asked
<1>2. r = IF changed THEN sourced ELSE a
  BY DEF Refreshed, Asked
<1>3. /\ sourced \in Entry /\ sourced.source = OfficialSource(d, sourced)
      /\ sourced.version = a.version /\ sourced.release = a.release
      /\ sourced.releasedAt = a.releasedAt /\ sourced.sha256 = a.sha256
  BY <1>1, Sourced
<1>4. ~changed => a = inventory[d]
  OBVIOUS
<1> HIDE DEF sourced, changed, a, r
<1>5. CASE changed
  BY <1>2, <1>3, <1>5, <1>1 DEF a, r
<1>6. CASE ~changed
  BY <1>1, <1>2, <1>4, <1>6 DEF a, r
<1> QED BY <1>5, <1>6

LEMMA RefreshedTyped ==
  ASSUME TypeOK, NEW online \in BOOLEAN, NEW silent
  PROVE  Refreshed(online, silent) \in [Dependencies -> Entry]
<1>1. Refreshed(online, silent) = [d \in Dependencies |-> Refreshed(online, silent)[d]]
  BY DEF Refreshed
<1>2. \A d \in Dependencies : Refreshed(online, silent)[d] \in Entry
  BY RefreshedFacts
<1> QED BY <1>1, <1>2

-----------------------------------------------------------------------------
(* Every state of the synchronisation is of its declared types.            *)

LEMMA ReleasedTyped ==
  ASSUME TypeOK, NEW d \in Dependencies, NEW v \in Versions
  PROVE  [released EXCEPT ![d][v] = now] \in [Dependencies -> [Versions -> 0 .. MaxNow]]
<1>1. released \in [Dependencies -> [Versions -> 0 .. MaxNow]] /\ now \in 0 .. MaxNow
  BY DEF TypeOK
<1> QED BY <1>1

LEMMA NobodyIsNoProduct == Nobody \notin Products
BY NobodyAssumption DEF Products, OfKind

\* What others do.
LEMMA OthersTyped ==
  ASSUME TypeOK, NEW d \in Dependencies,
         Tick \/ Publish(d) \/ Repush(d) \/ Bump(d) \/ BumpTool(d) \/ Relock(d)
  PROVE  TypeOK'
<1> USE DEF repositoryVars, upstreamVars, syncVars
<1>1. CASE Tick
  <2>1. now' \in 0 .. MaxNow
    <3>1. now \in 0 .. MaxNow
      BY DEF TypeOK
    <3> QED BY <1>1, <3>1, SupplyBounds DEF Tick
  <2> QED BY <1>1, <2>1 DEF Tick, TypeOK
<1>2. CASE Publish(d)
  <2>1. released' \in [Dependencies -> [Versions -> 0 .. MaxNow]]
    BY <1>2, ReleasedTyped DEF Publish
  <2>2. news' \in 0 .. MaxNews
    <3>1. news \in 0 .. MaxNews
      BY DEF TypeOK
    <3> QED BY <1>2, <3>1, SupplyBounds DEF Publish
  <2> QED BY <1>2, <2>1, <2>2 DEF Publish, TypeOK
<1>3. CASE Repush(d)
  <2>1. news' \in 0 .. MaxNews
    <3>1. news \in 0 .. MaxNews
      BY DEF TypeOK
    <3> QED BY <1>3, <3>1, SupplyBounds DEF Repush
  <2>2. repushed' \in [tag : 0 .. MaxVersion, at : 0 .. MaxNow]
    <3>1. inventory[d].release \in Versions /\ now \in 0 .. MaxNow
      BY DEF TypeOK, Entry
    <3>2. inventory[d].release \in 0 .. MaxVersion
      BY <3>1, SupplyBounds DEF Versions
    <3> QED BY <1>3, <3>1, <3>2 DEF Repush
  <2> QED BY <1>3, <2>1, <2>2 DEF Repush, TypeOK
<1>4. ASSUME Edited PROVE edits' \in 0 .. MaxEdits /\ synced' \in BOOLEAN
  <2>1. edits \in 0 .. MaxEdits /\ edits < MaxEdits /\ edits' = edits + 1
    BY <1>4 DEF TypeOK, Edited
  <2>2. edits' \in 0 .. MaxEdits
    BY <2>1, SupplyBounds
  <2>3. synced' \in BOOLEAN
    BY <1>4 DEF Edited
  <2> QED BY <2>2, <2>3
<1>5. CASE Bump(d)
  <2>1. tree' \in [Dependencies -> SUBSET Versions]
    <3>1. tree \in [Dependencies -> SUBSET Versions]
      BY DEF TypeOK
    <3> QED BY <1>5, <3>1 DEF Bump
  <2>2. told' \in [Products -> {"no", "warned", "promised", "excused"}]
    BY <1>5 DEF Bump, TypeOK
  <2> QED BY <1>4, <1>5, <2>1, <2>2 DEF Bump, TypeOK
<1>6. CASE BumpTool(d)
  <2>1. PICK v \in Versions : /\ inventory' = [inventory EXCEPT ![d].version = v]
                              /\ download' = [download EXCEPT !.tag = v]
    BY <1>6 DEF BumpTool
  <2>2. inventory' \in [Dependencies -> Entry]
    <3>1. inventory \in [Dependencies -> Entry]
      BY DEF TypeOK
    <3>2. [inventory[d] EXCEPT !.version = v] \in Entry
      BY <3>1 DEF Entry
    <3> QED BY <2>1, <3>1, <3>2
  <2>3. download' \in [tag : Versions, sha256 : Versions]
    BY <2>1 DEF TypeOK
  <2> QED BY <1>4, <1>6, <2>2, <2>3 DEF BumpTool, TypeOK
<1>7. CASE Relock(d)
  <2>1. PICK v \in tree[d] : /\ lock' = [lock EXCEPT ![d] = v]
                             /\ components' = components \cup {<<d, v>>}
    BY <1>7 DEF Relock
  <2>2. v \in Versions /\ d \in Products
    BY <1>7, <2>1 DEF Relock, TypeOK
  <2>3. lock' \in [Products -> Versions] /\ components' \subseteq Products \X Versions
    BY <2>1, <2>2 DEF TypeOK
  <2>4. told' \in [Products -> {"no", "warned", "promised", "excused"}]
    BY <1>7 DEF Relock, TypeOK
  <2> QED BY <1>4, <1>7, <2>3, <2>4 DEF Relock, TypeOK
<1> QED BY <1>1, <1>2, <1>3, <1>5, <1>6, <1>7

LEMMA BeginTyped ==
  ASSUME TypeOK, NEW online \in BOOLEAN, Begin(online)
  PROVE  TypeOK'
<1> USE DEF repositoryVars, upstreamVars
<1>1. mute' \subseteq Dependencies
  BY DEF Begin, AskedAgain, Products, Undeclared, OfKind
<1>2. fresh' \in [Dependencies -> Entry]
  BY RefreshedTyped DEF Begin
<1>3. touched' \subseteq Dependencies
  BY DEF Begin, Changed
<1>4. moved' \subseteq Products /\ toTell' \subseteq Products
  BY DEF Begin
<1>5. phase' \in {"derive", "download", "offline"}
  BY DEF Begin
<1>6. synced' \in BOOLEAN
  BY DEF Begin
<1> QED BY <1>1, <1>2, <1>3, <1>4, <1>5, <1>6 DEF Begin, TypeOK

LEMMA ScriptTyped ==
  ASSUME TypeOK,
         \/ \E d \in Products : WriteLock(d) \/ RewriteComponent(d)
         \/ RepinDownload \/ PrintProblems \/ WriteInventory \/ Notice \/ CutOff
  PROVE  TypeOK'
<1> USE DEF repositoryVars, upstreamVars
<1>1. ASSUME NEW d \in Products, NextProduct(d)
      PROVE  /\ phase' \in {"derive", "download"} /\ lockDone' \in Products \cup {Nobody}
             /\ (moved \subseteq Products => moved' \subseteq Products)
  BY <1>1 DEF NextProduct
<1>2. ASSUME NEW d \in Products, Problem(d)
      PROVE  synced' \in BOOLEAN /\ (toTell \subseteq Products => toTell' \subseteq Products)
  BY <1>2 DEF Problem
<1>3. ASSUME NEW d \in Products PROVE fresh[d].version \in Versions /\ d \in Dependencies
  BY DEF TypeOK, Entry, Products, OfKind
<1>4. ASSUME NEW d \in Products, WriteLock(d) PROVE TypeOK'
  <2>1. CASE d \in LockOnly /\ lock[d] = inventory[d].version
    <3>1. lock' \in [Products -> Versions] /\ lockDone' \in Products \cup {Nobody}
      BY <1>3, <1>4, <2>1 DEF WriteLock, TypeOK
    <3> QED BY <1>4, <2>1, <3>1 DEF WriteLock, TypeOK
  <2>2. CASE ~(d \in LockOnly /\ lock[d] = inventory[d].version)
    <3>1. Problem(d) /\ NextProduct(d) /\ UNCHANGED lock
      BY <1>4, <2>2 DEF WriteLock
    <3> QED BY <1>1, <1>2, <1>4, <3>1 DEF WriteLock, TypeOK
  <2> QED BY <2>1, <2>2
<1>5. ASSUME NEW d \in Products, RewriteComponent(d) PROVE TypeOK'
  <2>1. components' \subseteq Products \X Versions
    BY <1>3, <1>5 DEF RewriteComponent, TypeOK
  <2>2. toTell' \subseteq Products /\ synced' \in BOOLEAN
    BY <1>2, <1>5 DEF RewriteComponent, TypeOK
  <2>3. NextProduct(d)
    BY <1>5 DEF RewriteComponent
  <2> QED BY <1>1, <1>5, <2>1, <2>2, <2>3 DEF RewriteComponent, TypeOK
<1>6. CASE RepinDownload
  <2>1. download' \in [tag : Versions, sha256 : Versions] /\ synced' \in BOOLEAN
    BY <1>6 DEF RepinDownload, TypeOK
  <2> QED BY <1>6, <2>1 DEF RepinDownload, TypeOK
<1>7. /\ Nobody \in Products \cup {Nobody} /\ {} \subseteq Products /\ {} \subseteq Dependencies
      /\ \A how \in {"warned", "promised", "excused"} :
           Tell(how) => told' \in [Products -> {"no", "warned", "promised", "excused"}]
  BY DEF Tell, TypeOK
<1>9. CASE PrintProblems
  <2>1. CASE touched = {}
    BY <1>7, <1>9, <2>1 DEF PrintProblems, Forget, TypeOK
  <2>2. CASE touched # {}
    BY <1>7, <1>9, <2>2 DEF PrintProblems, TypeOK
  <2> QED BY <2>1, <2>2
<1>10. CASE WriteInventory
  <2>1. CASE phase = "write"
    BY <1>7, <1>10, <2>1 DEF WriteInventory, Forget, TypeOK
  <2>2. CASE phase # "write"
    BY <1>7, <1>10, <2>2 DEF WriteInventory, TypeOK
  <2> QED BY <2>1, <2>2
<1>11. CASE Notice
  BY <1>7, <1>11 DEF Notice, Forget, TypeOK
<1>8. CASE CutOff
  BY <1>8 DEF CutOff, Forget, TypeOK
<1> QED BY <1>4, <1>5, <1>6, <1>8, <1>9, <1>10, <1>11

LEMMA SupplyTypedStep == TypeOK /\ [Next]_vars => TypeOK'
<1>1. ASSUME TypeOK, UNCHANGED vars PROVE TypeOK'
  BY <1>1 DEF TypeOK, vars, repositoryVars, upstreamVars, syncVars
<1>2. ASSUME TypeOK, Tick PROVE TypeOK'
  <2>1. CASE Dependencies = {}
    <3>1. now' \in 0 .. MaxNow
      <4>1. now \in 0 .. MaxNow
        BY <1>2 DEF TypeOK
      <4> QED BY <1>2, <4>1, SupplyBounds DEF Tick
    <3> QED BY <1>2, <3>1 DEF Tick, TypeOK, repositoryVars, syncVars
  <2>2. CASE Dependencies # {}
    BY <1>2, <2>2, OthersTyped
  <2> QED BY <2>1, <2>2
<1> QED BY <1>1, <1>2, OthersTyped, BeginTyped, ScriptTyped DEF Next

LEMMA StartFacts ==
  ASSUME NEW d \in Dependencies
  PROVE  /\ Start(d) \in Entry /\ Start(d).version = 1
         /\ Start(d).source = OfficialSource(d, Start(d))
<1> DEFINE e == [version |-> 1, release |-> 1, releasedAt |-> 1, sha256 |-> 1, source |-> 0]
<1>1. e \in Entry /\ e.version = 1
  <2>1. 1 \in Versions /\ 0 \in 0 .. MaxVersion
    BY SupplyBounds
  <2> QED BY <2>1 DEF Entry
<1>2. Start(d) = [e EXCEPT !.source = OfficialSource(d, e)]
  BY DEF Start
<1> HIDE DEF e
<1> QED BY <1>1, <1>2, Sourced

LEMMA SupplyTypedInit == Init => TypeOK
<1> SUFFICES ASSUME Init PROVE TypeOK
  OBVIOUS
<1>1. now \in 0 .. MaxNow
  <2>1. now = Grace + 1
    BY DEF Init
  <2> QED BY <2>1, SupplyBounds
<1>2. released \in [Dependencies -> [Versions -> 0 .. MaxNow]]
  <2>1. 0 \in 0 .. MaxNow /\ 1 \in 0 .. MaxNow
    BY SupplyBounds
  <2> QED BY <2>1 DEF Init
<1>3. /\ repushed \in [tag : 0 .. MaxVersion, at : 0 .. MaxNow]
      /\ news \in 0 .. MaxNews /\ edits \in 0 .. MaxEdits
  <2>1. 0 \in 0 .. MaxVersion /\ 0 \in 0 .. MaxNow /\ 0 \in 0 .. MaxNews /\ 0 \in 0 .. MaxEdits
    BY SupplyBounds
  <2> QED BY <2>1 DEF Init
<1>4. inventory \in [Dependencies -> Entry] /\ fresh = inventory
  BY StartFacts DEF Init
<1>5. /\ tree \in [Dependencies -> SUBSET Versions] /\ lock \in [Products -> Versions]
      /\ components \subseteq Products \X Versions
      /\ download \in [tag : Versions, sha256 : Versions]
  BY SupplyBounds DEF Init
<1>6. told \in [Products -> {"no", "warned", "promised", "excused"}]
  BY DEF Init
<1> QED BY <1>1, <1>2, <1>3, <1>4, <1>5, <1>6 DEF Init, TypeOK

\* Whatever is edited and whichever run is cut off, every entry, lock line and
\* component stays a record of versions that upstream numbers, the entry's URL
\* included (refresh, derived_writes and rewrite_component).
THEOREM SupplyTypeCorrect == Spec => []TypeOK
BY SupplyTypedInit, SupplyTypedStep, PTL DEF Spec

\* An audit that is content has seen all that there was to see: every entry is
\* of one release, and none is behind a release that has outlived the grace,
\* unless it is an image whose tag was just pushed again (check_online).
THEOREM AuditAlwaysTells == Spec => []AuditTells
BY SupplyTypeCorrect, ContentTells, PTL


-----------------------------------------------------------------------------
(* What a run leaves, however it ends.                                     *)

Whole(d, e) ==
  /\ e.releasedAt = e.version
  /\ Kind[d] \in {"action", "tool", "image"} => e.release = e.version
  /\ Kind[d] \in {"gradle", "wrapper"} => e.sha256 = e.version

Settled(d, e) ==
  /\ d \notin Undeclared => tree[Upstream(d)] = {e.version}
  /\ d \notin Unrouted => Whole(d, e)

Bumped(d) == fresh[d].version # inventory[d].version

\* The URL of an entry is that of its version or release at all times.
SourceInv ==
  \A d \in Dependencies :
    /\ inventory[d].source = OfficialSource(d, inventory[d])
    /\ fresh[d].source = OfficialSource(d, fresh[d])

\* What is declared has been published, and a run leaves a tool's version alone.
OutInv ==
  \A d \in Dependencies :
    /\ \A v \in tree[d] : Out(d, v)
    /\ d \in Undeclared => /\ Out(d, inventory[d].version)
                           /\ fresh[d].version = inventory[d].version

\* A run at work has dealt with every product whose version it moves, or has
\* yet to, or has something to tell of it; what it moves a product to is declared.
ProductInv(d) ==
  /\ d \in moved => Bumped(d)
  /\ Bumped(d) => fresh[d].version \in tree[d]
  /\ Bumped(d) /\ d \notin moved =>
       told[d] # "no" \/ d \in toTell \/ lock[d] = fresh[d].version
  /\ lockDone = d => d \in moved /\ lock[d] = fresh[d].version

\* Only while the derived files are written are there products to deal with; when an online
\* run writes the inventory, it has told of all it had to.
RunInv ==
  /\ phase \in {"idle", "notice"} => fresh = inventory
  /\ touched = {} => fresh = inventory
  /\ phase # "derive" => moved = {}
  /\ phase = "write" => toTell = {}
  /\ \A d \in Products : ProductInv(d)

\* A lock line that is not where the inventory says was told of, or else the
\* declaration is not there either.
LagInv ==
  \A d \in Products : Lags(d) => told[d] # "no" \/ \E v \in tree[d] : v # inventory[d].version

\* An untroubled run has settled what it computed, and nobody undoes it unnoticed.
SettledInv ==
  synced =>
    /\ \A d \in Dependencies : (d \notin Undeclared => Declares(d)) /\ Settled(d, fresh[d])
    /\ phase \notin {"derive", "download"} => download.sha256 = download.tag

SupplyInv == TypeOK /\ SourceInv /\ OutInv /\ RunInv /\ LagInv /\ SettledInv

LEMMA ProductKind ==
  ASSUME NEW d \in Products
  PROVE  d \in Dependencies /\ Kind[d] = "product" /\ d \notin Undeclared
BY DEF Products, OfKind, Undeclared

LEMMA SupplyInvInit == Init => SupplyInv
<1> SUFFICES ASSUME Init PROVE SupplyInv
  OBVIOUS
<1>1. TypeOK
  BY SupplyTypedInit
<1>2. /\ \A d \in Dependencies : inventory[d] = Start(d)
      /\ fresh = inventory /\ moved = {} /\ lockDone = Nobody /\ synced = FALSE
  BY DEF Init
<1>3. SourceInv
  BY <1>2, StartFacts DEF SourceInv
<1>4. OutInv
  <2>1. \A d \in Dependencies : Upstream(d) \in Dependencies /\ 1 \in Versions
    BY UpstreamFacts, SupplyBounds
  <2>2. \A d \in Dependencies : Out(d, 1)
    BY <2>1 DEF Out, Init
  <2>3. \A d \in Dependencies : tree[d] \subseteq {1} /\ inventory[d].version = 1
    BY <1>2, StartFacts DEF Init
  <2> QED BY <1>2, <2>2, <2>3 DEF OutInv
<1>5. RunInv
  BY <1>2, NobodyIsNoProduct DEF RunInv, ProductInv, Bumped, Init
<1>6. LagInv
  <2>1. \A d \in Products : inventory[d].version = 1 /\ lock[d] = 1
    BY <1>2, StartFacts, ProductKind DEF Init
  <2> QED BY <2>1 DEF LagInv, Lags
<1>7. SettledInv
  BY <1>2 DEF SettledInv
<1> QED BY <1>1, <1>3, <1>4, <1>5, <1>6, <1>7 DEF SupplyInv

\* Nothing that is out is withdrawn.
LEMMA OutStays ==
  ASSUME TypeOK, NEW d \in Dependencies, NEW v \in Versions, Out(d, v),
         UNCHANGED released \/ \E e \in Dependencies : Publish(e)
  PROVE  Out(d, v)'
<1>1. CASE UNCHANGED released
  BY <1>1 DEF Out
<1>2. ASSUME NEW e \in Dependencies, Publish(e) PROVE Out(d, v)'
  <2>1. PICK w \in Versions : ~Out(e, w) /\ released' = [released EXCEPT ![e][w] = now]
    BY <1>2 DEF Publish
  <2>2. e = Upstream(e) /\ Upstream(d) \in Dependencies
    BY <1>2, UpstreamFacts DEF Publish
  <2>3. released \in [Dependencies -> [Versions -> 0 .. MaxNow]]
    BY DEF TypeOK
  <2>4. released[e][w] = 0 /\ released[Upstream(d)][v] # 0
    BY <2>1, <2>2 DEF Out
  <2>5. released'[Upstream(d)][v] = released[Upstream(d)][v]
    BY <2>1, <2>2, <2>3, <2>4
  <2> QED BY <2>4, <2>5 DEF Out
<1> QED BY <1>1, <1>2

\* With an inventory, a tree and a script at rest, the run's part holds.
LEMMA RestRun ==
  ASSUME fresh' = inventory', moved' = {}, phase' # "write",
         \A d \in Products : lockDone' # d
  PROVE  RunInv'
BY DEF RunInv, ProductInv, Bumped

\* What an idle script leaves to others.
LEMMA IdleFacts ==
  ASSUME SupplyInv, Idle
  PROVE  fresh = inventory /\ moved = {} /\ \A d \in Products : lockDone # d
BY DEF SupplyInv, RunInv, ProductInv, Idle

LEMMA OthersKeep ==
  ASSUME SupplyInv, NEW d \in Dependencies,
         Tick \/ Publish(d) \/ Repush(d) \/ Bump(d) \/ BumpTool(d) \/ Relock(d)
  PROVE  SupplyInv'
<1> USE DEF repositoryVars, upstreamVars, syncVars
<1>1. TypeOK /\ TypeOK'
  BY OthersTyped DEF SupplyInv
<1>2. Idle
  BY DEF Tick, Publish, Repush, Edited, Bump, BumpTool, Relock
<1>3. fresh = inventory /\ moved = {} /\ \A e \in Products : lockDone # e
  BY <1>2, IdleFacts
<1>4. ASSUME NEW e \in Dependencies, NEW v \in Versions, Out(e, v) PROVE Out(e, v)'
  <2>1. UNCHANGED released \/ Publish(d)
    BY DEF Tick, Repush, Bump, BumpTool, Relock
  <2> QED BY <1>1, <1>4, <2>1, OutStays
<1>5. /\ \A e \in Dependencies : tree[e] \subseteq Versions /\ inventory[e].version \in Versions
      /\ \A e \in Dependencies : fresh[e] \in Entry /\ inventory[e] \in Entry
  BY <1>1 DEF TypeOK, Entry
<1>6. CASE Tick \/ Publish(d) \/ Repush(d)
  <2>1. /\ UNCHANGED <<tree, inventory, lock, components, download, phase, fresh, moved,
                       lockDone, touched, told, synced>>
    BY <1>6 DEF Tick, Publish, Repush
  <2>2. SourceInv'
    BY <2>1 DEF SupplyInv, SourceInv, OfficialSource
  <2>3. OutInv'
    BY <1>4, <1>5, <2>1 DEF SupplyInv, OutInv
  <2>4. RunInv'
    BY <1>2, <1>3, <2>1, RestRun DEF Idle
  <2>5. LagInv'
    BY <2>1 DEF SupplyInv, LagInv, Lags
  <2>6. SettledInv'
    BY <2>1 DEF SupplyInv, SettledInv, Settled, Declares, Whole
  <2> QED BY <1>1, <2>2, <2>3, <2>4, <2>5, <2>6 DEF SupplyInv
<1>7. CASE Bump(d)
  <2>1. UNCHANGED <<released, inventory, lock, phase, fresh, moved, lockDone, touched>>
    BY <1>7 DEF Bump
  <2>2. SourceInv'
    BY <2>1 DEF SupplyInv, SourceInv, OfficialSource
  <2>3. OutInv'
    <3>1. PICK v \in Versions, all \in BOOLEAN :
            /\ Out(d, v)
            /\ tree' = [tree EXCEPT ![d] = IF all THEN {v} ELSE @ \cup {v}]
      BY <1>7 DEF Bump
    <3>2. \A e \in Dependencies : tree'[e] \subseteq tree[e] \cup (IF e = d THEN {v} ELSE {})
      BY <1>1, <3>1 DEF TypeOK
    <3> QED BY <1>4, <1>5, <2>1, <3>1, <3>2 DEF SupplyInv, OutInv
  <2>4. RunInv'
    BY <1>2, <1>3, <2>1, RestRun DEF Idle
  <2>5. LagInv'
    <3>1. \A e \in Products : e # d => tree'[e] = tree[e]
      BY <1>1, <1>7 DEF Bump, TypeOK, Products, OfKind
    <3>2. \A e \in Products : e # d => told'[e] = told[e]
      BY <1>7 DEF Bump
    <3>3. d \in Products /\ Lags(d) => told'[d] = "excused"
      BY <1>7 DEF Bump
    <3> QED BY <2>1, <3>1, <3>2, <3>3 DEF SupplyInv, LagInv, Lags
  <2>6. SettledInv'
    BY <1>7 DEF SettledInv, Bump, Edited
  <2> QED BY <1>1, <2>2, <2>3, <2>4, <2>5, <2>6 DEF SupplyInv
<1>8. CASE BumpTool(d)
  <2>1. /\ UNCHANGED <<released, tree, lock, told, phase, moved, lockDone>>
        /\ d \in Undeclared /\ fresh' = inventory'
    BY <1>8 DEF BumpTool
  <2>2. PICK v \in Versions : Out(d, v) /\ inventory' = [inventory EXCEPT ![d].version = v]
    BY <1>8 DEF BumpTool
  <2>3. /\ \A e \in Dependencies : e # d => inventory'[e] = inventory[e]
        /\ inventory'[d] = [inventory[d] EXCEPT !.version = v]
    BY <1>1, <2>2 DEF TypeOK
  <2>4. inventory'[d].source = inventory[d].source /\ inventory'[d].release = inventory[d].release
        /\ inventory'[d].version = v
    BY <1>5, <2>3 DEF Entry
  <2>5. SourceInv'
    <3>1. Kind[d] = "tool"
      BY <2>1 DEF Undeclared, OfKind
    <3>2. OfficialSource(d, inventory'[d]) = OfficialSource(d, inventory[d])
      BY <2>4, <3>1 DEF OfficialSource
    <3>3. \A e \in Dependencies : inventory'[e].source = OfficialSource(e, inventory'[e])
      BY <2>3, <2>4, <3>2 DEF SupplyInv, SourceInv
    <3> QED BY <2>1, <3>3 DEF SourceInv, OfficialSource
  <2>6. OutInv'
    BY <1>4, <1>5, <2>1, <2>2, <2>3, <2>4 DEF SupplyInv, OutInv
  <2>7. RunInv'
    BY <1>2, <1>3, <2>1, RestRun DEF Idle
  <2>8. LagInv'
    <3>1. \A e \in Products : e # d /\ e \in Dependencies
      BY <2>1, ProductKind
    <3> QED BY <2>1, <2>3, <3>1 DEF SupplyInv, LagInv, Lags
  <2>9. SettledInv'
    BY <1>8 DEF SettledInv, BumpTool, Edited
  <2> QED BY <1>1, <2>5, <2>6, <2>7, <2>8, <2>9 DEF SupplyInv
<1>9. CASE Relock(d)
  <2>1. UNCHANGED <<released, tree, inventory, phase, fresh, moved, lockDone, touched>>
    BY <1>9 DEF Relock
  <2>2. SourceInv'
    BY <2>1 DEF SupplyInv, SourceInv, OfficialSource
  <2>3. OutInv'
    BY <1>4, <1>5, <2>1 DEF SupplyInv, OutInv
  <2>4. RunInv'
    BY <1>2, <1>3, <2>1, RestRun DEF Idle
  <2>5. LagInv'
    <3>1. PICK v \in tree[d] : lock' = [lock EXCEPT ![d] = v]
      BY <1>9 DEF Relock
    <3>2. d \in Products /\ told' = [told EXCEPT ![d] = "no"]
      BY <1>9 DEF Relock
    <3>3. /\ lock'[d] = v /\ \A e \in Products : e # d => lock'[e] = lock[e]
          /\ \A e \in Products : e # d => told'[e] = told[e]
      BY <1>1, <3>1, <3>2 DEF TypeOK
    <3> QED BY <2>1, <3>1, <3>3 DEF SupplyInv, LagInv, Lags
  <2>6. SettledInv'
    BY <1>9 DEF SettledInv, Relock, Edited
  <2> QED BY <1>1, <2>2, <2>3, <2>4, <2>5, <2>6 DEF SupplyInv
<1> QED BY <1>6, <1>7, <1>8, <1>9


\* A product is moved to what is declared, and a tool is not moved at all.
LEMMA RefreshedVersion ==
  ASSUME TypeOK, NEW online \in BOOLEAN, NEW silent, NEW d \in Dependencies
  PROVE  LET r == Refreshed(online, silent)[d] IN
         /\ d \in Products => r.version = inventory[d].version \/ r.version \in tree[d]
         /\ d \in Undeclared => r.version = inventory[d].version
<1> DEFINE a == Asked(online, silent, d)
           r == Refreshed(online, silent)[d]
<1>1. r.version = a.version
  BY RefreshedFacts
<1>2. ASSUME Kind[d] \notin {"gradle", "wrapper"} PROVE a.version = Proved[d].version
  BY <1>2, AnsweredFacts, ProvedTyped DEF Asked
<1> HIDE DEF a, r
<1>3. ASSUME d \in Products PROVE r.version = inventory[d].version \/ r.version \in tree[d]
  <2>1. r.version = Proved[d].version
    BY <1>1, <1>2, <1>3, ProductKind
  <2>2. CASE ~Declares(d)
    BY <2>1, <2>2, ProvedFacts
  <2>3. CASE Declares(d)
    <3>1. PICK v \in Versions : tree[d] = {v}
      BY <2>3, OneDeclared
    <3>2. Proved[d].version = v \/ Proved[d].version = inventory[d].version
      BY <2>3, <3>1, ProvedFacts
    <3> QED BY <2>1, <3>1, <3>2
  <2> QED BY <2>2, <2>3
<1>4. ASSUME d \in Undeclared PROVE r.version = inventory[d].version
  <2>1. Kind[d] = "tool" /\ ~Declares(d)
    BY <1>4 DEF Undeclared, OfKind, Declares
  <2> QED BY <1>1, <1>2, <2>1, ProvedFacts
<1> QED BY <1>3, <1>4 DEF r

\* The version everything of a dependency is to be of.
Due(d) == IF d \in Undeclared THEN inventory[d].version
          ELSE CHOOSE v \in tree[Upstream(d)] : TRUE

LEMMA DueFacts ==
  ASSUME TypeOK, OutInv, NEW d \in Dependencies,
         \A e \in Dependencies : e \notin Undeclared => Declares(e)
  PROVE  /\ Due(d) \in Versions /\ Out(d, Due(d))
         /\ d \notin Undeclared => tree[Upstream(d)] = {Due(d)}
<1>1. CASE d \in Undeclared
  <2>1. Due(d) = inventory[d].version
    BY <1>1 DEF Due
  <2>2. inventory[d].version \in Versions
    BY DEF TypeOK, Entry
  <2> QED BY <1>1, <2>1, <2>2 DEF OutInv
<1>2. CASE d \notin Undeclared
  <2> DEFINE u == Upstream(d)
  <2>1. u \in Dependencies /\ u \notin Undeclared /\ Upstream(u) = u
    BY <1>2, UpstreamFacts DEF Undeclared, OfKind
  <2>2. PICK v \in Versions : tree[u] = {v}
    BY <2>1, OneDeclared
  <2>3. Due(d) = v
    BY <1>2, <2>2 DEF Due
  <2>4. Out(u, v)
    BY <2>1, <2>2 DEF OutInv
  <2>5. Out(d, v)
    BY <2>1, <2>4 DEF Out
  <2> QED BY <1>2, <2>2, <2>3, <2>5
<1> QED BY <1>1, <1>2

\* The fields that the tree proves are of that version.
LEMMA ProvedDue ==
  ASSUME TypeOK, OutInv, NEW d \in Dependencies,
         \A e \in Dependencies : e \notin Undeclared => Declares(e)
  PROVE  /\ Kind[d] # "wrapper" => Proved[d].version = Due(d)
         /\ Kind[d] = "image" => Proved[d].release = Due(d)
         /\ Followed(Proved, d) = Due(d)
<1>1. ASSUME NEW e \in Dependencies, Kind[e] # "wrapper"
      PROVE  /\ Proved[e].version = Due(e)
             /\ Kind[e] = "image" => Proved[e].release = Due(e)
  <2>1. CASE e \in Undeclared
    <3>1. ~Declares(e) /\ Kind[e] = "tool"
      BY <2>1 DEF Declares, Undeclared, OfKind
    <3> QED BY <2>1, <3>1, ProvedFacts DEF Due
  <2>2. CASE e \notin Undeclared
    <3>1. Upstream(e) = e /\ tree[Upstream(e)] = {Due(e)}
      BY <1>1, <2>2, UpstreamFacts, DueFacts
    <3>2. /\ "version" \in DeclaredFields(e)
          /\ Kind[e] = "image" => "release" \in DeclaredFields(e)
      BY <1>1, <2>2, Declared
    <3> QED BY <2>2, <3>1, <3>2, ProvedFacts
  <2> QED BY <2>1, <2>2
<1>2. Followed(Proved, d) = Due(d)
  <2>1. Proved \in [Dependencies -> Entry]
    BY ProvedTyped
  <2>2. CASE Kind[d] \in {"gradle", "wrapper"}
    <3> DEFINE u == Upstream(d)
    <3>1. u \in Dependencies /\ Kind[u] = "gradle" /\ Upstream(u) = u
      BY <2>2, UpstreamFacts
    <3>2. Due(u) = Due(d)
      BY <2>2, <3>1 DEF Due, Undeclared, OfKind
    <3>3. Proved[u].version = Due(u)
      BY <1>1, <3>1
    <3> QED BY <2>1, <2>2, <3>2, <3>3, FollowedFacts
  <2>3. CASE Kind[d] = "image"
    BY <1>1, <2>1, <2>3, FollowedFacts
  <2>4. CASE Kind[d] \notin {"gradle", "wrapper", "image"}
    BY <1>1, <2>1, <2>4, FollowedFacts
  <2> QED BY <2>2, <2>3, <2>4
<1> QED BY <1>1, <1>2

\* A full run with every declaration in order and every source answering
\* settles each entry.
LEMMA RefreshedSettled ==
  ASSUME TypeOK, OutInv, NEW d \in Dependencies,
         \A e \in Dependencies : e \notin Undeclared => Declares(e)
  PROVE  Settled(d, Refreshed(TRUE, {})[d])
<1> DEFINE v == Due(d)
           a == Asked(TRUE, {}, d)
           r == Refreshed(TRUE, {})[d]
<1>1. a = Answered(Proved, d, {})
  BY DEF Asked
<1>0. TRUE \in BOOLEAN
  OBVIOUS
<1>2. /\ r.version = a.version /\ r.release = a.release
      /\ r.releasedAt = a.releasedAt /\ r.sha256 = a.sha256
  BY ONLY TypeOK, d \in Dependencies, <1>0, RefreshedFacts
<1>3. Proved \in [Dependencies -> Entry] /\ Followed(Proved, d) = v
  BY ProvedTyped, ProvedDue
<1>4. d \notin Undeclared => tree[Upstream(d)] = {v}
  BY DueFacts
<1>5. Refreshable(Proved, d, {}) <=> d \notin Unrouted
  BY <1>3, DueFacts DEF Refreshable
<1>6. /\ Kind[d] # "wrapper" => Proved[d].version = v
      /\ Kind[d] = "image" => Proved[d].release = v
  BY ProvedDue
<1>7. CASE d \in Unrouted
  <2>1. a = Proved[d] /\ Kind[d] = "maven"
    BY <1>1, <1>3, <1>5, <1>7, AnsweredFacts DEF Unrouted, OfKind
  <2> HIDE DEF a, r, v
  <2> QED BY <1>2, <1>4, <1>6, <1>7, <2>1 DEF Settled, r
<1>8. CASE d \notin Unrouted
  <2>1. /\ a.releasedAt = v
        /\ Kind[d] \in {"gradle", "wrapper"} => a.version = v /\ a.sha256 = v
        /\ Kind[d] \in {"action", "tool"} => a.release = v
        /\ Kind[d] \notin {"gradle", "wrapper"} => a.version = Proved[d].version
        /\ Kind[d] \notin {"action", "tool"} => a.release = Proved[d].release
    <3>1. Refreshable(Proved, d, {})
      BY <1>5, <1>8
    <3>2. ASSUME NEW w, NEW b, w = Followed(Proved, d), b = Answered(Proved, d, {})
          PROVE  /\ b.releasedAt = w
                 /\ Kind[d] \in {"gradle", "wrapper"} => b.version = w /\ b.sha256 = w
                 /\ Kind[d] \in {"action", "tool"} => b.release = w
                 /\ Kind[d] \notin {"gradle", "wrapper"} => b.version = Proved[d].version
                 /\ Kind[d] \notin {"action", "tool"} => b.release = Proved[d].release
      BY <1>3, <3>1, <3>2, AnsweredFacts
    <3> HIDE DEF a, v
    <3> QED BY <1>1, <1>3, <3>2
  <2> HIDE DEF a, r, v
  <2>2. a.version = v /\ (Kind[d] \in {"action", "tool", "image"} => a.release = v)
    BY <1>6, <2>1
  <2>3. Whole(d, r)
    BY <1>2, <2>1, <2>2 DEF Whole
  <2> QED BY <1>2, <1>4, <2>2, <2>3 DEF Settled, r
<1> QED BY <1>7, <1>8

LEMMA BeginKeeps ==
  ASSUME SupplyInv, NEW online \in BOOLEAN, Begin(online)
  PROVE  SupplyInv'
<1> USE DEF repositoryVars, upstreamVars
<1> DEFINE bumped == {d \in Products : fresh'[d].version # inventory[d].version}
<1>1. TypeOK /\ TypeOK' /\ OutInv
  BY BeginTyped DEF SupplyInv
<1> PICK silent : /\ fresh' = Refreshed(online, silent) /\ touched' = Changed(online, silent)
                  /\ synced' = (online /\ silent = {} /\ ~Troubled(silent))
  BY DEF Begin
<1>2. /\ fresh' = Refreshed(online, silent) /\ touched' = Changed(online, silent)
      /\ lockDone' = Nobody /\ Idle
      /\ UNCHANGED <<tree, inventory, lock, components, download, released, told>>
  BY DEF Begin
<1>3. /\ moved' = IF online THEN bumped ELSE {}
      /\ toTell' = IF online THEN {} ELSE bumped
      /\ phase' = IF ~online THEN "offline" ELSE IF bumped # {} THEN "derive" ELSE "download"
  BY DEF Begin
<1>4. fresh = inventory
  BY <1>2, IdleFacts
<1>5. SourceInv'
  <2>1. \A d \in Dependencies : fresh'[d].source = OfficialSource(d, fresh'[d])
    BY <1>1, <1>2, RefreshedFacts DEF SupplyInv, SourceInv
  <2> QED BY <1>2, <2>1 DEF SupplyInv, SourceInv, OfficialSource
<1>6. OutInv'
  <2>1. \A d \in Dependencies : d \in Undeclared => fresh'[d].version = inventory[d].version
    BY <1>1, <1>2, RefreshedVersion
  <2> QED BY <1>1, <1>2, <2>1 DEF OutInv, Out
<1>7. RunInv'
  <2>1. touched' = {} => fresh' = inventory'
    <3> SUFFICES ASSUME touched' = {} PROVE fresh' = inventory
      BY <1>2
    <3>1. \A d \in Dependencies : fresh'[d] = inventory[d]
      BY <1>2 DEF Changed
    <3>2. fresh' \in [Dependencies -> Entry] /\ inventory \in [Dependencies -> Entry]
      BY <1>1 DEF TypeOK
    <3> QED BY <3>1, <3>2
  <2>2. phase' # "derive" => moved' = {}
    BY <1>3
  <2>3. phase' \notin {"idle", "notice", "write"}
    BY <1>3
  <2>4. ASSUME NEW d \in Products PROVE ProductInv(d)'
    <3>1. Bumped(d)' => fresh'[d].version \in tree[d]
      BY <1>1, <1>2, RefreshedVersion, ProductKind DEF Bumped
    <3>2. Bumped(d)' <=> d \in bumped
      BY <1>2 DEF Bumped
    <3>3. lockDone' # d
      BY <1>2, NobodyIsNoProduct
    <3> HIDE DEF bumped
    <3> QED BY <1>2, <1>3, <3>1, <3>2, <3>3 DEF ProductInv
  <2> QED BY <2>1, <2>2, <2>3, <2>4 DEF RunInv
<1>8. LagInv'
  BY <1>2 DEF SupplyInv, LagInv, Lags
<1>9. SettledInv'
  <2> SUFFICES ASSUME synced' PROVE SettledInv'
    BY DEF SettledInv
  <2>1. online = TRUE /\ silent = {} /\ ~Troubled(silent)
    OBVIOUS
  <2>2. \A d \in Dependencies : d \notin Undeclared => Declares(d)
    BY <2>1 DEF Troubled
  <2>3. \A d \in Dependencies : Settled(d, Refreshed(TRUE, {})[d])
    BY <1>1, <2>2, RefreshedSettled
  <2>4. \A d \in Dependencies : Settled(d, fresh[d])'
    BY <1>2, <2>1, <2>3 DEF Settled, Whole
  <2>5. phase' \in {"derive", "download"}
    BY <1>3, <2>1
  <2>6. \A d \in Dependencies : d \notin Undeclared => Declares(d)'
    BY <1>2, <2>2 DEF Declares
  <2> QED BY <2>4, <2>5, <2>6 DEF SettledInv
<1> QED BY <1>1, <1>5, <1>6, <1>7, <1>8, <1>9 DEF SupplyInv


\* Of the script's own steps, only those of the derived files change a line,
\* and each of them for a product that moves.
LEMMA DeriveKeeps ==
  ASSUME SupplyInv, NEW d \in Products, WriteLock(d) \/ RewriteComponent(d)
  PROVE  SupplyInv'
<1> USE DEF upstreamVars
<1>1. TypeOK /\ TypeOK'
  BY ScriptTyped DEF SupplyInv
<1>2. /\ UNCHANGED <<tree, inventory, fresh, download, released, touched>>
      /\ d \in Products
  BY DEF WriteLock, RewriteComponent
<1>3. d \in moved
  BY DEF WriteLock, RewriteComponent, SupplyInv, RunInv, ProductInv
<1>4. Bumped(d) /\ fresh[d].version \in tree[d]
  BY <1>3 DEF SupplyInv, RunInv, ProductInv
<1>5. phase = "derive"
  BY <1>3 DEF SupplyInv, RunInv
<1>6. /\ UNCHANGED told
      /\ \/ /\ lock' = [lock EXCEPT ![d] = fresh[d].version] /\ lockDone' = d
            /\ UNCHANGED <<phase, moved, toTell, synced>>
         \/ /\ UNCHANGED lock /\ NextProduct(d) /\ Problem(d)
         \/ /\ UNCHANGED <<lock, toTell, synced>> /\ NextProduct(d) /\ lockDone = d
  BY DEF WriteLock, RewriteComponent
<1>7. /\ \A e \in Products \ {d} : lock'[e] = lock[e]
      /\ lock'[d] = lock[d] \/ lock'[d] = fresh[d].version
      /\ toTell \subseteq toTell'
  BY <1>1, <1>6 DEF TypeOK, Problem
<1>8. phase' \in {"derive", "download"} /\ (phase' # "derive" => moved' = {})
  BY <1>5, <1>6 DEF NextProduct
<1>9. SourceInv' /\ OutInv'
  <2>1. SourceInv'
    BY <1>2 DEF SupplyInv, SourceInv, OfficialSource
  <2>2. OutInv'
    BY <1>2 DEF SupplyInv, OutInv, Out
  <2> QED BY <2>1, <2>2
<1>10. RunInv'
  <2>1. ASSUME NEW e \in Products PROVE ProductInv(e)'
    <3>1. ProductInv(e)
      BY DEF SupplyInv, RunInv
    <3>2. CASE /\ lock' = [lock EXCEPT ![d] = fresh[d].version] /\ lockDone' = d
               /\ UNCHANGED <<moved, toTell>>
      BY <1>1, <1>2, <1>3, <1>6, <3>1, <3>2 DEF ProductInv, Bumped, TypeOK
    <3>3. CASE UNCHANGED lock /\ NextProduct(d) /\ (d \in toTell' \/ lockDone = d)
      <4>1. moved' = moved \ {d} /\ lockDone' # e
        BY <3>3, NobodyIsNoProduct DEF NextProduct
      <4>2. ProductInv(d)
        BY DEF SupplyInv, RunInv
      <4>3. d \in toTell' \/ lock[d] = fresh[d].version
        BY <3>3, <4>2 DEF ProductInv
      <4> QED BY <1>2, <1>6, <1>7, <3>1, <3>3, <4>1, <4>3 DEF ProductInv, Bumped
    <3> QED BY <1>6, <3>2, <3>3 DEF Problem
  <2>2. touched' = {} => fresh' = inventory'
    BY <1>2 DEF SupplyInv, RunInv
  <2> QED BY <1>8, <2>1, <2>2 DEF RunInv
<1>11. LagInv'
  <2>1. ASSUME NEW e \in Products, lock'[e] # inventory[e].version
        PROVE  told[e] # "no" \/ \E v \in tree[e] : v # inventory[e].version
    <3>1. CASE lock'[e] = lock[e]
      BY <1>7, <2>1, <3>1 DEF SupplyInv, LagInv, Lags
    <3>2. CASE lock'[e] # lock[e]
      BY <1>4, <1>7, <3>2 DEF Bumped
    <3> QED BY <3>1, <3>2
  <2> QED BY <1>2, <1>6, <2>1 DEF LagInv, Lags
<1>12. SettledInv'
  <2>1. synced' => synced
    BY <1>6 DEF Problem
  <2> QED BY <1>2, <1>8, <2>1 DEF SupplyInv, SettledInv, Settled, Declares, Whole
<1> QED BY <1>1, <1>9, <1>10, <1>11, <1>12 DEF SupplyInv

LEMMA ForgotRun == Forget => RunInv'
BY NobodyIsNoProduct, RestRun DEF Forget

\* What leaves the tree, the inventory and the lock lines alone, and only says more.
LEMMA SaysMore ==
  ASSUME SupplyInv, UNCHANGED <<tree, inventory, lock, released>>, fresh' = fresh \/ Forget,
         \A d \in Products : told[d] # "no" => told'[d] # "no"
  PROVE  SourceInv' /\ OutInv' /\ LagInv'
<1>1. fresh' = fresh \/ fresh' = inventory
  BY DEF Forget
<1>2. SourceInv'
  BY <1>1 DEF SupplyInv, SourceInv, OfficialSource
<1>3. OutInv'
  BY <1>1 DEF SupplyInv, OutInv, Out
<1>4. LagInv'
  BY DEF SupplyInv, LagInv, Lags
<1> QED BY <1>2, <1>3, <1>4

\* What is told of is told of, and nothing else is forgotten.
LEMMA ToldOf ==
  ASSUME NEW how \in {"warned", "promised", "excused"}, Tell(how), NEW d \in Products
  PROVE  told'[d] = IF d \in toTell THEN how ELSE told[d]
BY DEF Tell

LEMMA RepinKeeps == ASSUME SupplyInv, RepinDownload PROVE SupplyInv'
<1> USE DEF repositoryVars, upstreamVars
<1>1. TypeOK'
  BY ScriptTyped DEF SupplyInv
<1>2. /\ phase = "download" /\ phase' = "print"
      /\ UNCHANGED <<tree, inventory, lock, released, fresh, moved, lockDone, touched, toTell, told>>
  BY DEF RepinDownload
<1>3. RunInv'
  <2>1. moved' = {}
    BY <1>2 DEF SupplyInv, RunInv
  <2>2. \A d \in Products : ProductInv(d)'
    BY <1>2 DEF SupplyInv, RunInv, ProductInv, Bumped
  <2> QED BY <1>2, <2>1, <2>2 DEF SupplyInv, RunInv
<1>4. SettledInv'
  <2> SUFFICES ASSUME synced' PROVE SettledInv'
    BY DEF SettledInv
  <2>1. synced /\ download' = [download EXCEPT !.sha256 = download.tag]
    BY DEF RepinDownload
  <2>2. download'.sha256 = download'.tag
    BY <2>1 DEF SupplyInv, TypeOK
  <2> QED BY <1>2, <2>1, <2>2 DEF SupplyInv, SettledInv, Settled, Declares, Whole
<1> QED BY <1>1, <1>2, <1>3, <1>4, SaysMore DEF SupplyInv

LEMMA PrintKeeps == ASSUME SupplyInv, PrintProblems PROVE SupplyInv'
<1> USE DEF repositoryVars, upstreamVars
<1>1. TypeOK'
  BY ScriptTyped DEF SupplyInv
<1>2. /\ phase = "print" /\ UNCHANGED <<tree, inventory, lock, released, download, synced>>
      /\ Tell("warned")
  BY DEF PrintProblems
<1>3. /\ fresh' = fresh \/ Forget
      /\ \A d \in Products : told[d] # "no" => told'[d] # "no"
  BY <1>2, ToldOf DEF PrintProblems
<1>4. fresh' = fresh
  BY <1>2 DEF PrintProblems, Forget, SupplyInv, RunInv
<1>5. RunInv'
  <2>1. CASE touched = {}
    BY <2>1, ForgotRun DEF PrintProblems
  <2>2. CASE touched # {}
    <3>1. /\ phase' = "write" /\ toTell' = {} /\ moved' = {} /\ moved' = moved
          /\ lockDone' = lockDone /\ touched' # {}
      BY <1>2, <2>2 DEF PrintProblems, SupplyInv, RunInv
    <3>2. ASSUME NEW d \in Products PROVE ProductInv(d)'
      <4>1. ProductInv(d) /\ told'[d] = IF d \in toTell THEN "warned" ELSE told[d]
        BY <1>2, ToldOf DEF SupplyInv, RunInv
      <4> QED BY <1>2, <1>4, <3>1, <4>1 DEF ProductInv, Bumped
    <3> QED BY <3>1, <3>2 DEF RunInv
  <2> QED BY <2>1, <2>2
<1>6. SettledInv'
  BY <1>2, <1>4 DEF SupplyInv, SettledInv, Settled, Declares, Whole
<1> QED BY <1>1, <1>2, <1>3, <1>5, <1>6, SaysMore DEF SupplyInv

LEMMA InventoryKeeps == ASSUME SupplyInv, WriteInventory PROVE SupplyInv'
<1> USE DEF repositoryVars, upstreamVars
<1>1. TypeOK'
  BY ScriptTyped DEF SupplyInv
<1>2. /\ phase \in {"write", "offline"} /\ inventory' = fresh /\ fresh' = fresh
      /\ UNCHANGED <<tree, lock, download, released, synced>>
      /\ phase = "write" => Forget /\ UNCHANGED told
      /\ phase = "offline" => /\ phase' = "notice" /\ Tell("excused")
                             /\ UNCHANGED <<moved, lockDone>>
  BY DEF WriteInventory, Forget
<1>3. SourceInv'
  BY <1>2 DEF SupplyInv, SourceInv, OfficialSource
<1>4. OutInv'
  BY <1>2 DEF SupplyInv, OutInv, Out
<1>5. RunInv'
  <2>1. CASE phase = "write"
    BY <1>2, <2>1, ForgotRun
  <2>2. CASE phase = "offline"
    <3>1. moved' = {} /\ phase' # "write" /\ \A d \in Products : lockDone' # d
      BY <1>2, <2>2 DEF SupplyInv, RunInv, ProductInv
    <3> QED BY <1>2, <3>1, RestRun
  <2> QED BY <1>2, <2>1, <2>2
<1>6. LagInv'
  <2> SUFFICES ASSUME NEW d \in Products, lock[d] # fresh[d].version
               PROVE  told'[d] # "no" \/ \E v \in tree[d] : v # fresh[d].version
    BY <1>2 DEF LagInv, Lags
  <2>1. d \notin moved /\ ProductInv(d) /\ (phase = "write" => toTell = {})
    BY <1>2 DEF SupplyInv, RunInv
  <2>2. /\ told[d] # "no" => told'[d] # "no"
        /\ d \in toTell => told'[d] # "no"
    BY <1>2, <2>1, ToldOf
  <2>3. CASE Bumped(d)
    BY <2>1, <2>2, <2>3 DEF ProductInv
  <2>4. CASE ~Bumped(d)
    BY <2>2, <2>4 DEF Bumped, SupplyInv, LagInv, Lags
  <2> QED BY <2>3, <2>4
<1>7. SettledInv'
  BY <1>2 DEF SupplyInv, SettledInv, Settled, Declares, Whole
<1> QED BY <1>1, <1>3, <1>4, <1>5, <1>6, <1>7 DEF SupplyInv

LEMMA NoticeKeeps == ASSUME SupplyInv, Notice PROVE SupplyInv'
<1> USE DEF repositoryVars, upstreamVars
<1>1. TypeOK'
  BY ScriptTyped DEF SupplyInv
<1>2. /\ phase = "notice" /\ UNCHANGED <<tree, inventory, lock, released, download, synced>>
      /\ Tell("promised") /\ Forget
  BY DEF Notice
<1>3. \A d \in Products : told[d] # "no" => told'[d] # "no"
  BY <1>2, ToldOf
<1>4. fresh' = fresh
  BY <1>2 DEF Forget, SupplyInv, RunInv
<1>5. SettledInv'
  BY <1>2, <1>4 DEF SupplyInv, SettledInv, Settled, Declares, Whole
<1> QED BY <1>1, <1>2, <1>3, <1>5, ForgotRun, SaysMore DEF SupplyInv

LEMMA CutOffKeeps == ASSUME SupplyInv, CutOff PROVE SupplyInv'
<1> USE DEF repositoryVars, upstreamVars
<1>1. TypeOK'
  BY ScriptTyped DEF SupplyInv
<1>2. Forget /\ UNCHANGED <<tree, inventory, lock, released, told>> /\ ~synced'
  BY DEF CutOff
<1>3. SettledInv'
  BY <1>2 DEF SettledInv
<1> QED BY <1>1, <1>2, <1>3, ForgotRun, SaysMore DEF SupplyInv

LEMMA SupplyInvUnchanged == SupplyInv /\ UNCHANGED vars => SupplyInv'
<1> SUFFICES ASSUME SupplyInv, UNCHANGED vars PROVE SupplyInv'
  OBVIOUS
<1> USE DEF vars, repositoryVars, upstreamVars, syncVars
<1>1. TypeOK'
  BY SupplyTypedStep DEF SupplyInv
<1>2. SourceInv'
  BY DEF SupplyInv, SourceInv, OfficialSource
<1>3. OutInv'
  BY DEF SupplyInv, OutInv, Out
<1>4. RunInv'
  BY DEF SupplyInv, RunInv, ProductInv, Bumped
<1>5. LagInv'
  BY DEF SupplyInv, LagInv, Lags
<1>6. SettledInv'
  BY DEF SupplyInv, SettledInv, Settled, Declares, Whole
<1> QED BY <1>1, <1>2, <1>3, <1>4, <1>5, <1>6 DEF SupplyInv


LEMMA SupplyInvStep == SupplyInv /\ [Next]_vars => SupplyInv'
<1>1. ASSUME SupplyInv, Tick PROVE SupplyInv'
  <2>1. CASE Dependencies # {}
    BY <1>1, <2>1, OthersKeep
  <2>2. CASE Dependencies = {}
    <3>1. TypeOK'
      BY <1>1, SupplyTypedStep DEF SupplyInv, Next
    <3>2. /\ Products = {}
          /\ UNCHANGED <<phase, fresh, inventory, moved, touched, toTell, synced, download>>
      BY <1>1, <2>2 DEF Products, OfKind, Tick, syncVars, repositoryVars
    <3>3. SourceInv' /\ OutInv' /\ LagInv'
      BY <2>2, <3>2 DEF SourceInv, OutInv, LagInv
    <3>4. RunInv'
      BY <1>1, <3>2 DEF SupplyInv, RunInv
    <3>5. SettledInv'
      BY <1>1, <2>2, <3>2 DEF SupplyInv, SettledInv
    <3> QED BY <3>1, <3>3, <3>4, <3>5 DEF SupplyInv
  <2> QED BY <2>1, <2>2
<1> QED BY <1>1, OthersKeep, BeginKeeps, DeriveKeeps, RepinKeeps, PrintKeeps, InventoryKeeps,
           NoticeKeeps, CutOffKeeps, SupplyInvUnchanged DEF Next

LEMMA SupplyInvHolds == Spec => []SupplyInv
BY SupplyInvInit, SupplyInvStep, PTL DEF Spec

\* When the lock line of a product is not at the recorded version, and the check accepts the
\* repository, an online run has printed a warning of it, wherever runs were cut off; unless an
\* offline run has moved the product, or it was declared anew while it lagged (derived_writes, main).
THEOREM LagAlwaysTold == Spec => []LockLagIsTold
<1>1. SupplyInv => LockLagIsTold
  <2> SUFFICES ASSUME SupplyInv, NEW d \in Products, Accepted, Lags(d)
               PROVE  told[d] # "no"
    BY DEF LockLagIsTold
  <2>1. DeclarationFits(d)
    BY ProductKind DEF Accepted
  <2>2. \A v \in tree[d] : v = inventory[d].version
    BY <2>1, ProductDeclared
  <2> QED BY <2>2 DEF SupplyInv, LagInv
<1> QED BY <1>1, SupplyInvHolds, PTL

-----------------------------------------------------------------------------
(* A branch that is synchronised stays as it is.                           *)

\* Nothing is left to prove or to ask of a whole entry that says what is
\* declared.
LEMMA NothingToProve ==
  ASSUME TypeOK, NEW d \in Dependencies, Whole(d, inventory[d]) \/ d \in Unrouted,
         d \in Undeclared \/ tree[d] = {inventory[d].version}
  PROVE  Proved[d] = inventory[d]
<1> DEFINE e == inventory[d]
           p == Proved[d]
<1>1. p \in Entry /\ e \in Entry /\ p.releasedAt = e.releasedAt /\ p.source = e.source
  BY ProvedFacts DEF TypeOK
<1>2. CASE ~Declares(d)
  BY <1>2, ProvedFacts
<1>3. CASE Declares(d)
  <2>1. d \notin Undeclared /\ tree[d] = {e.version}
    BY <1>3 DEF Declares
  <2>2. "release" \in DeclaredFields(d) => e.release = e.version
    BY <2>1, Declared DEF Whole, Unrouted, OfKind
  <2>3. "sha256" \in DeclaredFields(d) => e.sha256 = e.version
    BY <2>1, Declared DEF Whole, Unrouted, OfKind
  <2>4. p.version = e.version /\ p.release = e.release /\ p.sha256 = e.sha256
    BY <1>3, <2>1, <2>2, <2>3, ProvedFacts
  <2> HIDE DEF p, e
  <2>5. p = e
    BY <1>1, <2>4, SameEntry
  <2> QED BY <2>5 DEF p, e
<1> QED BY <1>2, <1>3

LEMMA NothingToAsk ==
  ASSUME NEW inv \in [Dependencies -> Entry], NEW d \in Dependencies,
         Whole(d, inv[d]) \/ d \in Unrouted,
         Kind[d] \in {"gradle", "wrapper"} => inv[Upstream(d)].version = inv[d].version
  PROVE  Answered(inv, d, {}) = inv[d]
<1> DEFINE a == Answered(inv, d, {})
           e == inv[d]
           v == Followed(inv, d)
<1>1. a \in Entry /\ e \in Entry /\ a.source = e.source
  BY AnsweredFacts
<1>2. CASE ~Refreshable(inv, d, {})
  BY <1>2, AnsweredFacts
<1>3. CASE Refreshable(inv, d, {})
  <2>1. Whole(d, e)
    BY <1>3 DEF Refreshable
  <2>2. v = e.version
    BY <2>1, FollowedFacts DEF Whole
  <2>3. /\ a.releasedAt = v
        /\ Kind[d] \in {"gradle", "wrapper"} => a.version = v /\ a.sha256 = v
        /\ Kind[d] \in {"action", "tool"} => a.release = v
        /\ Kind[d] \notin {"gradle", "wrapper"} => a.version = e.version /\ a.sha256 = e.sha256
        /\ Kind[d] \notin {"action", "tool"} => a.release = e.release
    BY <1>3, AnsweredFacts
  <2> HIDE DEF a, e, v
  <2>4. a.version = e.version /\ a.release = e.release /\ a.releasedAt = e.releasedAt
        /\ a.sha256 = e.sha256
    BY <2>1, <2>2, <2>3 DEF Whole
  <2>5. a = e
    BY <1>1, <2>4, SameEntry
  <2> QED BY <2>5 DEF a, e
<1> QED BY <1>2, <1>3

\* After an online run that had nothing to report, and until somebody edits
\* the branch, every entry says what the repository declares and what the
\* source of that one release publishes, the pinned checksum is that of what
\* the workflow downloads, and a second run would find nothing to change
\* (refresh, download_checksums, main).
THEOREM SyncedAlwaysFresh == Spec => []SyncedIsFresh
<1>1. SupplyInv => SyncedIsFresh
  <2> SUFFICES ASSUME SupplyInv, synced, Idle, WrapperWhole PROVE SyncedIsFresh
    BY DEF SyncedIsFresh
  <2>1. /\ TypeOK /\ fresh = inventory
        /\ \A d \in Dependencies : Settled(d, inventory[d])
        /\ download.sha256 = download.tag
    BY DEF SupplyInv, RunInv, SettledInv, Idle
  <2>2. ASSUME NEW d \in Dependencies PROVE d \in Undeclared \/ tree[d] = {inventory[d].version}
    <3>1. CASE Kind[d] = "wrapper"
      BY <2>1, <3>1 DEF WrapperWhole, OfKind, Settled
    <3>2. CASE Kind[d] # "wrapper"
      BY <2>1, <3>2, UpstreamFacts DEF Settled
    <3> QED BY <3>1, <3>2
  <2>3. ASSUME NEW d \in Dependencies PROVE Whole(d, inventory[d]) \/ d \in Unrouted
    BY <2>1 DEF Settled
  <2>4. inventory \in [Dependencies -> Entry] /\ Proved \in [Dependencies -> Entry]
    BY <2>1, ProvedTyped DEF TypeOK
  <2>5. \A d \in Dependencies : Proved[d] = inventory[d]
    BY <2>1, <2>2, <2>3, NothingToProve
  <2>6. ASSUME NEW d \in Dependencies, Kind[d] \in {"gradle", "wrapper"}
        PROVE  inventory[Upstream(d)].version = inventory[d].version
    <3>1. /\ d \notin Undeclared /\ Upstream(d) \in Dependencies
          /\ Upstream(d) \notin Undeclared /\ Upstream(Upstream(d)) = Upstream(d)
      BY <2>6, UpstreamFacts DEF Undeclared, OfKind
    <3>2. /\ tree[Upstream(d)] = {inventory[d].version}
          /\ tree[Upstream(d)] = {inventory[Upstream(d)].version}
      BY <2>1, <3>1 DEF Settled
    <3> QED BY <3>2
  <2>7. ASSUME NEW d \in Dependencies PROVE Answered(Proved, d, {}) = Proved[d]
    <3>1. /\ Whole(d, Proved[d]) \/ d \in Unrouted
          /\ Kind[d] \in {"gradle", "wrapper"} => Proved[Upstream(d)].version = Proved[d].version
      BY <2>3, <2>5, <2>6, UpstreamFacts
    <3> QED BY <2>4, <3>1, NothingToAsk
  <2>8. Changed(TRUE, {}) = {}
    <3>1. \A d \in Dependencies : Refreshed(TRUE, {})[d] = inventory[d]
      BY <2>5, <2>7 DEF Refreshed
    <3> QED BY <2>5, <3>1 DEF Changed
  <2>9. \A d \in Dependencies \ Unrouted :
          /\ OfOneRelease(d)
          /\ inventory[d].source = OfficialSource(d, inventory[d])
          /\ d \in Undeclared \/ tree[d] = {inventory[d].version}
    BY <2>2, <2>3 DEF OfOneRelease, Whole, SupplyInv, SourceInv
  <2> QED BY <2>1, <2>8, <2>9 DEF SyncedIsFresh
<1> QED BY <1>1, SupplyInvHolds, PTL
=============================================================================
