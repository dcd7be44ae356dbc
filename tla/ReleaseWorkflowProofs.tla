------------------------ MODULE ReleaseWorkflowProofs ------------------------
(***************************************************************************)
(* Theorems about ReleaseWorkflow, for any versions, commits, runs and     *)
(* re-runs: what is published was tagged by an allowed signer, was built   *)
(* twice, and is the same at the Marketplace and at GitHub.                *)
(***************************************************************************)
EXTENDS ReleaseWorkflow, TLAPS

AfterCompare == {"approval", "recheck", "bind", "sign"} \cup Publishing
AfterRecheck == {"bind", "sign"} \cup Publishing

\* What is known of a run d when these versions were tagged and uploaded.  A run that waits
\* to be run again, or that failed, is known by the job that failed.
RunInv(d, tg, mk) ==
  /\ d.a # NoZip => d.a.commit = d.sha
  /\ d.stage = "compare" \/ (d.stage \in {"failed", "queued"} /\ d.job = "compare") =>
       d.a # NoZip /\ d.b # NoZip
  /\ d.stage \in AfterCompare \/ (d.stage \in {"failed", "queued"} /\ d.job = "publish") =>
       d.a # NoZip /\ d.b = d.a /\ d.verified = d.a
  /\ d.stage \in AfterRecheck => <<d.tag, d.sha>> \in tg
  /\ d.stage \in Publishing => d.signed \in Signed /\ d.signed.zip = d.verified
  /\ d.stage \in {"checkRelease", "release"} => mk[d.tag] = d.signed

RunsInv == \A r \in Run : RunInv(run[r], tagged, market)

\* The concurrency group.
OneAtWork == \A r, s \in Run : Live(r) /\ Live(s) /\ run[r].tag = run[s].tag => r = s

TagsInv == \A t \in Tag :
  originTags[t] # NoTag /\ originTags[t].allowed => <<t, originTags[t].commit>> \in tagged

Inv == TypeOK /\ RunsInv /\ OneAtWork /\ TagsInv /\ UploadedWasTagged

LEMMA NewRunFacts ==
  ASSUME NEW t \in Tag, NEW c \in Commit, NEW tg, NEW mk
  PROVE  /\ NewRun(t, c) \in RunRecord
         /\ NewRun(t, c).stage = "queued" /\ RunInv(NewRun(t, c), tg, mk)
         /\ [NewRun(t, c) EXCEPT !.stage = "unused"] \in RunRecord
         /\ [NewRun(t, c) EXCEPT !.stage = "unused"].stage = "unused"
         /\ RunInv([NewRun(t, c) EXCEPT !.stage = "unused"], tg, mk)
<1>1. NewRun(t, c) \in [tag : {t}, sha : {c}, stage : {"queued"}, job : {"none"}, a : {NoZip},
        b : {NoZip}, verified : {NoZip}, digest : {NoZip}, kept : {TRUE}, signed : {NoZip}]
  BY DEF NewRun
<1>2. [NewRun(t, c) EXCEPT !.stage = "unused"] \in
        [tag : {t}, sha : {c}, stage : {"unused"}, job : {"none"}, a : {NoZip},
        b : {NoZip}, verified : {NoZip}, digest : {NoZip}, kept : {TRUE}, signed : {NoZip}]
  BY DEF NewRun
<1>3. NewRun(t, c) \in RunRecord
  BY <1>1 DEF RunRecord, Resting, JobName
<1>4. [NewRun(t, c) EXCEPT !.stage = "unused"] \in RunRecord
  BY <1>2 DEF RunRecord, Resting, JobName
<1>5. RunInv(NewRun(t, c), tg, mk)
  BY <1>1 DEF RunInv, AfterCompare, AfterRecheck, Publishing
<1>6. RunInv([NewRun(t, c) EXCEPT !.stage = "unused"], tg, mk)
  BY <1>2 DEF RunInv, AfterCompare, AfterRecheck, Publishing
<1> QED BY <1>1, <1>2, <1>3, <1>4, <1>5, <1>6

LEMMA InitInv == Init => Inv
<1> SUFFICES ASSUME Init PROVE Inv
  OBVIOUS
<1>1. PICK t \in Tag, c \in Commit : run = [r \in Run |-> [NewRun(t, c) EXCEPT !.stage = "unused"]]
  BY DEF Init
<1>2. /\ originTags = [u \in Tag |-> NoTag] /\ market = [u \in Tag |-> NoZip] /\ tagged = {}
      /\ releases = [u \in Tag |-> NoZip] /\ reruns = 0
  BY DEF Init
<1>3. TypeOK
  BY <1>1, <1>2, NewRunFacts, BoundAssumption DEF TypeOK
<1>4. RunsInv
  BY <1>1, NewRunFacts DEF RunsInv
<1>5. OneAtWork
  BY <1>1, NewRunFacts DEF OneAtWork, Live, Resting
<1>6. TagsInv /\ UploadedWasTagged
  BY <1>2 DEF TagsInv, UploadedWasTagged
<1> QED BY <1>3, <1>4, <1>5, <1>6 DEF Inv

\* A failed run keeps what it had.
LEMMA FailedFacts ==
  ASSUME TypeOK, NEW r \in Run, NEW tg, NEW mk, RunInv(run[r], tg, mk),
         Live(r) \/ At(r, "queued")
  PROVE  /\ Failed(r) \in RunRecord /\ Failed(r).stage = "failed"
         /\ Failed(r).tag = run[r].tag
         /\ RunInv(Failed(r), tg, mk)
<1> DEFINE d == run[r]
           job == IF d.stage = "queued" /\ d.job # "none" THEN d.job ELSE JobOf(d.stage)
<1>1. d \in RunRecord
  BY DEF TypeOK
<1>2. Failed(r) \in [tag : {d.tag}, sha : {d.sha}, stage : {"failed"}, job : {job}, a : {d.a},
        b : {d.b}, verified : {d.verified}, digest : {d.digest}, kept : {d.kept},
        signed : {d.signed}]
  BY <1>1 DEF Failed, RunRecord
<1>3. job \in JobName
  BY <1>1 DEF RunRecord, JobName, JobOf
<1>4. job = "compare" => d.stage = "compare" \/ (d.stage = "queued" /\ d.job = "compare")
  BY DEF JobOf
<1>5. job = "publish" => d.stage \in AfterCompare \/ (d.stage = "queued" /\ d.job = "publish")
  BY <1>1 DEF JobOf, RunRecord, Working, Resting, AfterCompare, Publishing, Live, At
<1> HIDE DEF job
<1>6. Failed(r) \in RunRecord
  BY <1>1, <1>2, <1>3 DEF RunRecord, Resting
<1>7. RunInv(Failed(r), tg, mk)
  BY <1>2, <1>4, <1>5 DEF RunInv, AfterCompare, AfterRecheck, Publishing
<1> QED BY <1>2, <1>6, <1>7

\* A step of one run, which may upload its ZIP under its version.
LEMMA RunMoves ==
  ASSUME Inv, NEW r \in Run, NEW e \in RunRecord, RunInv(e, tagged, market'),
         run' = [run EXCEPT ![r] = e], e.tag = run[r].tag,
         e.stage \notin Resting =>
           \A s \in Run : s # r /\ run[s].tag = run[r].tag => ~Live(s),
         UNCHANGED tags,
         market' \in [Tag -> Signed \cup {NoZip}], releases' \in [Tag -> Signed \cup {NoZip}],
         \A t \in Tag : market[t] # NoZip => market'[t] = market[t],
         \A t \in Tag : market'[t] # NoZip => <<t, market'[t].zip.commit>> \in tagged,
         reruns' \in 0 .. MaxReruns
  PROVE  Inv'
<1>1. \A s \in Run : run'[s] = IF s = r THEN e ELSE run[s]
  BY DEF Inv, TypeOK
<1>2. TypeOK'
  BY <1>1 DEF Inv, TypeOK, tags
<1>3. ASSUME NEW s \in Run PROVE RunInv(run'[s], tagged, market')
  <2>1. CASE s = r
    BY <1>1, <2>1
  <2>2. CASE s # r
    <3> DEFINE d == run[s]
    <3>1. d \in RunRecord /\ RunInv(d, tagged, market)
      BY DEF Inv, TypeOK, RunsInv
    <3>2. d.stage \in {"checkRelease", "release"} => market'[d.tag] = d.signed
      <4>1. SUFFICES ASSUME d.stage \in {"checkRelease", "release"} PROVE market'[d.tag] = d.signed
        OBVIOUS
      <4>2. d.signed \in Signed /\ market[d.tag] = d.signed /\ d.tag \in Tag
        BY <3>1, <4>1 DEF RunInv, Publishing, RunRecord
      <4>3. market[d.tag] # NoZip
        BY <4>2, NullAssumption
      <4> QED BY <4>2, <4>3
    <3>3. RunInv(d, tagged, market')
      BY <3>1, <3>2 DEF RunInv
    <3> QED BY <1>1, <2>2, <3>3
  <2> QED BY <2>1, <2>2
<1>4. RunsInv'
  BY <1>3 DEF RunsInv, tags
<1>5. OneAtWork'
  BY <1>1 DEF Inv, OneAtWork, Live
<1>6. TagsInv' /\ UploadedWasTagged'
  BY DEF Inv, TagsInv, UploadedWasTagged, tags
<1> QED BY <1>2, <1>4, <1>5, <1>6 DEF Inv

\* The same, for a run that was at work and publishes nothing.
LEMMA RunWorks ==
  ASSUME Inv, NEW r \in Run, Live(r), NEW e \in RunRecord, RunInv(e, tagged, market),
         run' = [run EXCEPT ![r] = e], e.tag = run[r].tag,
         UNCHANGED <<tags, public, reruns>>
  PROVE  Inv'
<1>1. \A s \in Run : s # r /\ run[s].tag = run[r].tag => ~Live(s)
  BY DEF Inv, OneAtWork
<1>2. /\ market' = market /\ releases' = releases /\ reruns' = reruns /\ UNCHANGED tags
      /\ market \in [Tag -> Signed \cup {NoZip}] /\ releases \in [Tag -> Signed \cup {NoZip}]
      /\ reruns \in 0 .. MaxReruns
  BY DEF public, Inv, TypeOK
<1>3. \A t \in Tag : market[t] # NoZip => <<t, market[t].zip.commit>> \in tagged
  BY DEF Inv, UploadedWasTagged
<1> QED BY <1>1, <1>2, <1>3, RunMoves

LEMMA RunTypes ==
  ASSUME Inv, NEW r \in Run
  PROVE  run[r] \in RunRecord /\ RunInv(run[r], tagged, market)
BY DEF Inv, TypeOK, RunsInv

\* What becomes of a run that goes to another stage.
LEMMA StageFacts ==
  ASSUME NEW d \in RunRecord, NEW stage \in Working \cup Resting
  PROVE  /\ [d EXCEPT !.stage = stage] \in RunRecord
         /\ [d EXCEPT !.stage = stage] \in [tag : {d.tag}, sha : {d.sha}, stage : {stage},
              job : {d.job}, a : {d.a}, b : {d.b}, verified : {d.verified}, digest : {d.digest},
              kept : {d.kept}, signed : {d.signed}]
BY DEF RunRecord

LEMMA GotoInv ==
  ASSUME Inv, NEW r \in Run, Live(r), NEW stage \in Working \cup Resting, Goto(r, stage),
         RunInv([run[r] EXCEPT !.stage = stage], tagged, market),
         UNCHANGED <<tags, public, reruns>>
  PROVE  Inv'
<1> DEFINE e == [run[r] EXCEPT !.stage = stage]
<1>1. e \in RunRecord /\ e.tag = run[r].tag
  BY RunTypes, StageFacts
<1>2. run' = [run EXCEPT ![r] = e]
  BY DEF Goto, Inv, TypeOK
<1> HIDE DEF e
<1> QED BY <1>1, <1>2, RunWorks DEF e

\* The run's tag, verified now, was pushed by an allowed signer.
LEMMA StandingTag ==
  ASSUME Inv, NEW r \in Run, TagStands(r)
  PROVE  <<run[r].tag, run[r].sha>> \in tagged
<1> DEFINE t == run[r].tag
<1>1. t \in Tag /\ run[r].sha \in Commit
  BY RunTypes DEF RunRecord
<1>2. originTags[t] \in Pushed /\ originTags[t].commit = run[r].sha /\ originTags[t].allowed
  BY <1>1 DEF TagStands, Pushed
<1>3. originTags[t] # NoTag
  BY <1>2, NullAssumption
<1> QED BY <1>1, <1>2, <1>3 DEF Inv, TagsInv

LEMMA CheckingInv ==
  ASSUME Inv, NEW r \in Run,
         \/ ValidateTag(r) \/ BuildsDone(r) \/ Approve(r) \/ Recheck(r)
         \/ Bind(r) \/ CheckUpload(r)
  PROVE  Inv'
<1> DEFINE d == run[r]
<1>0. d \in RunRecord /\ RunInv(d, tagged, market)
  BY RunTypes
<1>1. CASE ValidateTag(r)
  <2>1. RunInv([d EXCEPT !.stage = "build"], tagged, market)
    BY <1>0, StageFacts DEF RunInv, AfterCompare, AfterRecheck, Publishing, Working
  <2> QED BY <1>1, <2>1, GotoInv DEF ValidateTag, At, Live, Resting, Working
<1>2. CASE BuildsDone(r)
  <2>1. RunInv([d EXCEPT !.stage = "compare"], tagged, market)
    BY <1>0, <1>2, StageFacts
    DEF BuildsDone, RunInv, AfterCompare, AfterRecheck, Publishing, Working
  <2> QED BY <1>2, <2>1, GotoInv DEF BuildsDone, At, Live, Resting, Working
<1>3. CASE Approve(r)
  <2>1. RunInv([d EXCEPT !.stage = "recheck"], tagged, market)
    BY <1>0, <1>3, StageFacts
    DEF Approve, At, RunInv, AfterCompare, AfterRecheck, Publishing, Working
  <2> QED BY <1>3, <2>1, GotoInv DEF Approve, At, Live, Resting, Working
<1>4. CASE Recheck(r)
  <2>1. <<d.tag, d.sha>> \in tagged
    BY <1>4, StandingTag DEF Recheck
  <2>2. RunInv([d EXCEPT !.stage = "bind"], tagged, market)
    BY <1>0, <1>4, <2>1, StageFacts
    DEF Recheck, At, RunInv, AfterCompare, AfterRecheck, Publishing, Working
  <2> QED BY <1>4, <2>2, GotoInv DEF Recheck, At, Live, Resting, Working
<1>5. CASE Bind(r)
  <2>1. RunInv([d EXCEPT !.stage = "sign"], tagged, market)
    BY <1>0, <1>5, StageFacts
    DEF Bind, At, RunInv, AfterCompare, AfterRecheck, Publishing, Working
  <2> QED BY <1>5, <2>1, GotoInv DEF Bind, At, Live, Resting, Working
<1>6. CASE CheckUpload(r)
  <2>1. RunInv([d EXCEPT !.stage = "upload"], tagged, market)
    BY <1>0, <1>6, StageFacts
    DEF CheckUpload, At, RunInv, AfterCompare, AfterRecheck, Publishing, Working
  <2> QED BY <1>6, <2>1, GotoInv DEF CheckUpload, At, Live, Resting, Working
<1> QED BY <1>1, <1>2, <1>3, <1>4, <1>5, <1>6

LEMMA CheckReleaseInv ==
  ASSUME Inv, NEW r \in Run, CheckRelease(r)
  PROVE  Inv'
<1>0. run[r] \in RunRecord /\ RunInv(run[r], tagged, market)
  BY RunTypes
<1>1. RunInv([run[r] EXCEPT !.stage = "release"], tagged, market)
  BY <1>0, StageFacts
  DEF CheckRelease, At, RunInv, AfterCompare, AfterRecheck, Publishing, Working
<1> QED BY <1>1, GotoInv DEF CheckRelease, At, Live, Resting, Working

LEMMA BuildInv ==
  ASSUME Inv, NEW r \in Run, Build(r)
  PROVE  Inv'
<1> DEFINE d == run[r]
<1>0. d \in RunRecord /\ RunInv(d, tagged, market) /\ d.stage = "build"
  BY RunTypes DEF Build, At
<1>1. Live(r)
  BY <1>0 DEF Live, Resting
<1>2. PICK v \in Variant :
        \/ d.a = NoZip /\ run' = [run EXCEPT ![r].a = [commit |-> d.sha, variant |-> v]]
        \/ d.b = NoZip /\ run' = [run EXCEPT ![r].b = [commit |-> d.sha, variant |-> v]]
  BY DEF Build
<1> DEFINE zip == [commit |-> d.sha, variant |-> v]
<1>3. zip \in Zip /\ zip.commit = d.sha
  BY <1>0 DEF Zip, RunRecord
<1>4. UNCHANGED <<tags, public, reruns>>
  BY DEF Build
<1> HIDE DEF zip
<1>5. CASE run' = [run EXCEPT ![r].a = zip]
  <2> DEFINE e == [d EXCEPT !.a = zip]
  <2>1. e \in [tag : {d.tag}, sha : {d.sha}, stage : {"build"}, job : {d.job}, a : {zip},
          b : {d.b}, verified : {d.verified}, digest : {d.digest}, kept : {d.kept},
          signed : {d.signed}]
    BY <1>0 DEF RunRecord
  <2>2. e \in RunRecord
    BY <1>0, <1>3 DEF RunRecord
  <2>3. RunInv(e, tagged, market)
    BY <2>1, <1>3 DEF RunInv, AfterCompare, AfterRecheck, Publishing
  <2>4. run' = [run EXCEPT ![r] = e] /\ e.tag = d.tag
    BY <1>5, <2>1
  <2> HIDE DEF e
  <2> QED BY <1>1, <1>4, <2>2, <2>3, <2>4, RunWorks
<1>6. CASE run' = [run EXCEPT ![r].b = zip]
  <2> DEFINE e == [d EXCEPT !.b = zip]
  <2>1. e \in [tag : {d.tag}, sha : {d.sha}, stage : {"build"}, job : {d.job}, a : {d.a},
          b : {zip}, verified : {d.verified}, digest : {d.digest}, kept : {d.kept},
          signed : {d.signed}]
    BY <1>0 DEF RunRecord
  <2>2. e \in RunRecord
    BY <1>0, <1>3 DEF RunRecord
  <2>3. RunInv(e, tagged, market)
    BY <2>1, <1>0 DEF RunInv, AfterCompare, AfterRecheck, Publishing
  <2>4. run' = [run EXCEPT ![r] = e] /\ e.tag = d.tag
    BY <1>6, <2>1
  <2> HIDE DEF e
  <2> QED BY <1>1, <1>4, <2>2, <2>3, <2>4, RunWorks
<1> QED BY <1>2, <1>5, <1>6 DEF zip

LEMMA CompareInv ==
  ASSUME Inv, NEW r \in Run, Compare(r)
  PROVE  Inv'
<1> DEFINE d == run[r]
           e == [d EXCEPT !.verified = d.a, !.digest = d.a, !.stage = "approval"]
<1>0. d \in RunRecord /\ RunInv(d, tagged, market) /\ d.stage = "compare" /\ d.a = d.b
  BY RunTypes DEF Compare, At, Identical
<1>1. Live(r)
  BY <1>0 DEF Live, Resting
<1>2. e \in [tag : {d.tag}, sha : {d.sha}, stage : {"approval"}, job : {d.job}, a : {d.a},
          b : {d.b}, verified : {d.a}, digest : {d.a}, kept : {d.kept},
          signed : {d.signed}]
  BY <1>0 DEF RunRecord
<1>3. e \in RunRecord
  BY <1>0, <1>2 DEF RunRecord, Working
<1>4. RunInv(e, tagged, market)
  BY <1>0, <1>2 DEF RunInv, AfterCompare, AfterRecheck, Publishing
<1>5. run' = [run EXCEPT ![r] = e] /\ e.tag = d.tag
  BY <1>2 DEF Compare, Inv, TypeOK
<1>6. UNCHANGED <<tags, public, reruns>>
  BY DEF Compare
<1> HIDE DEF e
<1> QED BY <1>1, <1>3, <1>4, <1>5, <1>6, RunWorks

LEMMA SignInv ==
  ASSUME Inv, NEW r \in Run, Sign(r)
  PROVE  Inv'
<1> DEFINE d == run[r]
<1>0. d \in RunRecord /\ RunInv(d, tagged, market) /\ d.stage = "sign"
  BY RunTypes DEF Sign, At
<1>1. PICK v \in Variant :
        run' = [run EXCEPT ![r].signed = [zip |-> d.verified, signature |-> v],
                           ![r].stage = "checkUpload"]
  BY DEF Sign
<1> DEFINE z == [zip |-> d.verified, signature |-> v]
           e == [d EXCEPT !.signed = z, !.stage = "checkUpload"]
<1>2. d.verified \in Zip
  BY <1>0 DEF RunInv, AfterCompare, RunRecord
<1>3. z \in Signed /\ z.zip = d.verified
  BY <1>2 DEF Signed
<1>4. run' = [run EXCEPT ![r] = e]
  BY <1>1 DEF Inv, TypeOK
<1> HIDE DEF z
<1>5. e \in [tag : {d.tag}, sha : {d.sha}, stage : {"checkUpload"}, job : {d.job}, a : {d.a},
          b : {d.b}, verified : {d.verified}, digest : {d.digest}, kept : {d.kept},
          signed : {z}]
  BY <1>0 DEF RunRecord
<1>6. e \in RunRecord
  BY <1>0, <1>3, <1>5 DEF RunRecord, Working
<1>7. RunInv(e, tagged, market)
  BY <1>0, <1>3, <1>5 DEF RunInv, AfterCompare, AfterRecheck, Publishing
<1>8. Live(r) /\ e.tag = d.tag /\ UNCHANGED <<tags, public, reruns>>
  BY <1>0, <1>5 DEF Live, Resting, Sign
<1> HIDE DEF e
<1> QED BY <1>4, <1>6, <1>7, <1>8, RunWorks

\* A publishing run is the only one at work on its version, and what it signed is a build of
\* the tagged commit.
LEMMA PublishingFacts ==
  ASSUME Inv, NEW r \in Run, run[r].stage \in {"upload", "checkRelease", "release"}
  PROVE  /\ run[r].tag \in Tag /\ run[r].signed \in Signed /\ run[r].signed # NoZip
         /\ <<run[r].tag, run[r].signed.zip.commit>> \in tagged
         /\ Live(r) /\ JobOf(run[r].stage) = "publish"
         /\ \A s \in Run : s # r /\ run[s].tag = run[r].tag => ~Live(s)
<1> DEFINE d == run[r]
<1>1. d \in RunRecord /\ RunInv(d, tagged, market)
  BY RunTypes
<1>2. d.stage \in Publishing /\ d.stage \in AfterRecheck /\ d.stage \in AfterCompare
  BY DEF Publishing, AfterRecheck, AfterCompare
<1>3. d.signed \in Signed /\ d.signed.zip.commit = d.sha /\ <<d.tag, d.sha>> \in tagged
  BY <1>1, <1>2 DEF RunInv
<1>4. Live(r) /\ JobOf(d.stage) = "publish"
  BY DEF Live, Resting, JobOf
<1> QED BY <1>1, <1>3, <1>4, NullAssumption DEF RunRecord, Inv, OneAtWork

LEMMA UploadInv ==
  ASSUME Inv, NEW r \in Run, Upload(r)
  PROVE  Inv'
<1> DEFINE d == run[r]
           t == run[r].tag
<1>0. d \in RunRecord /\ RunInv(d, tagged, market) /\ d.stage = "upload"
  BY RunTypes DEF Upload, At
<1>1. /\ t \in Tag /\ d.signed \in Signed /\ d.signed # NoZip
      /\ <<t, d.signed.zip.commit>> \in tagged /\ Live(r)
      /\ \A s \in Run : s # r /\ run[s].tag = t => ~Live(s)
  BY <1>0, PublishingFacts
<1>2. /\ market[t] = NoZip /\ market' = [market EXCEPT ![t] = d.signed]
      /\ UNCHANGED <<tags, releases, reruns>>
  BY DEF Upload
<1>3. market \in [Tag -> Signed \cup {NoZip}] /\ releases \in [Tag -> Signed \cup {NoZip}]
      /\ reruns \in 0 .. MaxReruns
  BY DEF Inv, TypeOK
<1>4. /\ market' \in [Tag -> Signed \cup {NoZip}] /\ market'[t] = d.signed
      /\ \A u \in Tag : u # t => market'[u] = market[u]
  BY <1>1, <1>2, <1>3
<1>5. /\ \A u \in Tag : market[u] # NoZip => market'[u] = market[u]
      /\ \A u \in Tag : market'[u] # NoZip => <<u, market'[u].zip.commit>> \in tagged
  BY <1>1, <1>2, <1>4 DEF Inv, UploadedWasTagged
<1>6. CASE Goto(r, "checkRelease")
  <2> DEFINE e == [d EXCEPT !.stage = "checkRelease"]
  <2>1. e \in RunRecord /\ e.tag = t
    BY <1>0, StageFacts DEF Working
  <2>2. RunInv(e, tagged, market')
    BY <1>0, <1>4, StageFacts DEF RunInv, AfterCompare, AfterRecheck, Publishing, Working
  <2>3. run' = [run EXCEPT ![r] = e]
    BY <1>6 DEF Goto, Inv, TypeOK
  <2> HIDE DEF e
  <2> QED BY <1>1, <1>2, <1>3, <1>4, <1>5, <2>1, <2>2, <2>3, RunMoves
<1>7. CASE run' = [run EXCEPT ![r] = Failed(r)]
  <2>1. RunInv(d, tagged, market')
    BY <1>0 DEF RunInv
  <2>2. Failed(r) \in RunRecord /\ Failed(r).tag = t /\ RunInv(Failed(r), tagged, market')
    BY <1>1, <2>1, FailedFacts DEF Inv
  <2> QED BY <1>1, <1>2, <1>3, <1>4, <1>5, <1>7, <2>2, RunMoves
<1> QED BY <1>6, <1>7 DEF Upload

LEMMA ReleaseInv ==
  ASSUME Inv, NEW r \in Run, Release(r)
  PROVE  Inv'
<1> DEFINE d == run[r]
           t == run[r].tag
<1>0. d \in RunRecord /\ RunInv(d, tagged, market) /\ d.stage = "release"
  BY RunTypes DEF Release, At
<1>1. /\ t \in Tag /\ d.signed \in Signed /\ Live(r)
      /\ \A s \in Run : s # r /\ run[s].tag = t => ~Live(s)
  BY <1>0, PublishingFacts
<1>2. releases' = [releases EXCEPT ![t] = d.signed] /\ UNCHANGED <<tags, market, reruns>>
  BY DEF Release
<1>3. /\ market' \in [Tag -> Signed \cup {NoZip}] /\ releases' \in [Tag -> Signed \cup {NoZip}]
      /\ reruns' \in 0 .. MaxReruns
      /\ \A u \in Tag : market[u] # NoZip => market'[u] = market[u]
      /\ \A u \in Tag : market'[u] # NoZip => <<u, market'[u].zip.commit>> \in tagged
  BY <1>1, <1>2 DEF Inv, TypeOK, UploadedWasTagged
<1>4. CASE Goto(r, "done")
  <2> DEFINE e == [d EXCEPT !.stage = "done"]
  <2>1. e \in RunRecord /\ e.tag = t
    BY <1>0, StageFacts DEF Resting
  <2>2. RunInv(e, tagged, market')
    BY <1>0, StageFacts DEF RunInv, AfterCompare, AfterRecheck, Publishing, Resting
  <2>3. run' = [run EXCEPT ![r] = e]
    BY <1>4 DEF Goto, Inv, TypeOK
  <2> HIDE DEF e
  <2> QED BY <1>1, <1>2, <1>3, <2>1, <2>2, <2>3, RunMoves
<1>5. CASE run' = [run EXCEPT ![r] = Failed(r)]
  <2>1. Failed(r) \in RunRecord /\ Failed(r).tag = t /\ RunInv(Failed(r), tagged, market')
    BY <1>0, <1>1, <1>2, FailedFacts DEF Inv
  <2> QED BY <1>1, <1>2, <1>3, <1>5, <2>1, RunMoves
<1> QED BY <1>4, <1>5 DEF Release

LEMMA FailInv ==
  ASSUME Inv, NEW r \in Run, Fail(r)
  PROVE  Inv'
<1>1. /\ Live(r) /\ run' = [run EXCEPT ![r] = Failed(r)] /\ UNCHANGED <<tags, public, reruns>>
  BY DEF Fail
<1>2. Failed(r) \in RunRecord /\ Failed(r).tag = run[r].tag /\ RunInv(Failed(r), tagged, market)
  BY <1>1, RunTypes, FailedFacts DEF Inv
<1> QED BY <1>1, <1>2, RunWorks

\* Steps of a run that do not publish, once the run has nobody beside it.
LEMMA RunTurns ==
  ASSUME Inv, NEW r \in Run, NEW e \in RunRecord, RunInv(e, tagged, market),
         run' = [run EXCEPT ![r] = e], e.tag = run[r].tag,
         e.stage \notin Resting =>
           \A s \in Run : s # r /\ run[s].tag = run[r].tag => ~Live(s),
         UNCHANGED <<tags, public>>, reruns' \in 0 .. MaxReruns
  PROVE  Inv'
<1>1. /\ market' = market /\ releases' = releases /\ UNCHANGED tags
      /\ market \in [Tag -> Signed \cup {NoZip}] /\ releases \in [Tag -> Signed \cup {NoZip}]
  BY DEF public, Inv, TypeOK
<1>2. \A t \in Tag : market[t] # NoZip => <<t, market[t].zip.commit>> \in tagged
  BY DEF Inv, UploadedWasTagged
<1> QED BY <1>1, <1>2, RunMoves

LEMMA StartRunInv ==
  ASSUME Inv, NEW r \in Run, StartRun(r)
  PROVE  Inv'
<1> DEFINE d == run[r]
           stage == IF d.job = "none" THEN "validate" ELSE FirstStage(d.job)
           e == [d EXCEPT !.stage = stage]
<1>0. d \in RunRecord /\ RunInv(d, tagged, market) /\ d.stage = "queued"
  BY RunTypes DEF StartRun, At
<1>1. stage \in {"validate", "build", "compare", "approval"}
      /\ (stage = "compare" => d.job = "compare") /\ (stage = "approval" => d.job = "publish")
  BY <1>0 DEF RunRecord, JobName, FirstStage
<1>2. run' = [run EXCEPT ![r] = e]
  BY DEF StartRun, Inv, TypeOK
<1> HIDE DEF stage
<1>3. e \in RunRecord /\ e.tag = d.tag
  BY <1>0, <1>1, StageFacts DEF Working
<1>4. RunInv(e, tagged, market)
  <2>1. stage \in Working
    BY <1>1 DEF Working
  <2>2. /\ e.stage = stage /\ e.job = d.job /\ e.a = d.a /\ e.b = d.b /\ e.sha = d.sha
        /\ e.verified = d.verified
    BY <1>0, <2>1, StageFacts
  <2> HIDE DEF e
  <2> QED BY <1>0, <1>1, <2>2 DEF RunInv, AfterCompare, AfterRecheck, Publishing
<1>5. \A s \in Run : s # r /\ run[s].tag = d.tag => ~Live(s)
  BY DEF StartRun
<1>6. UNCHANGED <<tags, public>> /\ reruns' \in 0 .. MaxReruns
  BY DEF StartRun, Inv, TypeOK
<1> HIDE DEF e
<1> QED BY <1>2, <1>3, <1>4, <1>5, <1>6, RunTurns

LEMMA RerunInv ==
  ASSUME Inv, NEW r \in Run, RerunFailed(r) \/ RerunAll(r)
  PROVE  Inv'
<1> DEFINE d == run[r]
<1>0. d \in RunRecord /\ RunInv(d, tagged, market) /\ d.tag \in Tag /\ d.sha \in Commit
  BY RunTypes DEF RunRecord
<1>1. UNCHANGED <<tags, public>> /\ reruns' \in 0 .. MaxReruns
  <2>1. reruns \in 0 .. MaxReruns /\ reruns < MaxReruns /\ reruns' = reruns + 1
    BY DEF RerunFailed, RerunAll, Inv, TypeOK
  <2> QED BY <2>1, BoundAssumption DEF RerunFailed, RerunAll
<1>2. CASE RerunFailed(r)
  <2> DEFINE e == [d EXCEPT !.stage = "queued"]
  <2>1. e \in RunRecord /\ e.tag = d.tag /\ e.stage = "queued"
    BY <1>0, StageFacts DEF Resting
  <2>2. RunInv(e, tagged, market)
    BY <1>0, <1>2, StageFacts
    DEF RerunFailed, At, RunInv, AfterCompare, AfterRecheck, Publishing, Resting
  <2>3. run' = [run EXCEPT ![r] = e]
    BY <1>2 DEF RerunFailed, Goto, Inv, TypeOK
  <2> HIDE DEF e
  <2> QED BY <1>1, <2>1, <2>2, <2>3, RunTurns DEF Resting
<1>3. CASE RerunAll(r)
  <2> DEFINE e == NewRun(d.tag, d.sha)
  <2>1. e \in RunRecord /\ e.stage = "queued" /\ RunInv(e, tagged, market)
    BY <1>0, NewRunFacts
  <2>2. e.tag = d.tag
    BY DEF NewRun
  <2>3. run' = [run EXCEPT ![r] = e]
    BY <1>3 DEF RerunAll
  <2> HIDE DEF e
  <2> QED BY <1>1, <2>1, <2>2, <2>3, RunTurns DEF Resting
<1> QED BY <1>2, <1>3

LEMMA ExpireInv ==
  ASSUME Inv, NEW r \in Run, Expire(r)
  PROVE  Inv'
<1> DEFINE d == run[r]
           e == [d EXCEPT !.kept = FALSE]
<1>0. d \in RunRecord /\ RunInv(d, tagged, market)
  BY RunTypes
<1>1. e \in [tag : {d.tag}, sha : {d.sha}, stage : {d.stage}, job : {d.job}, a : {d.a},
          b : {d.b}, verified : {d.verified}, digest : {d.digest}, kept : {FALSE},
          signed : {d.signed}]
  BY <1>0 DEF RunRecord
<1>2. e \in RunRecord
  BY <1>0 DEF RunRecord
<1>3. /\ e.stage = d.stage /\ e.job = d.job /\ e.a = d.a /\ e.b = d.b /\ e.sha = d.sha
      /\ e.verified = d.verified /\ e.tag = d.tag /\ e.signed = d.signed
  BY <1>1
<1>4. run' = [run EXCEPT ![r] = e]
  BY DEF Expire
<1>5. UNCHANGED <<tags, public>> /\ reruns' \in 0 .. MaxReruns
  BY DEF Expire, Inv, TypeOK
<1> HIDE DEF e
<1>6. RunInv(e, tagged, market)
  BY <1>0, <1>3 DEF RunInv
<1>7. e.stage \notin Resting => \A s \in Run : s # r /\ run[s].tag = d.tag => ~Live(s)
  BY <1>3 DEF Inv, OneAtWork, Live
<1> QED BY <1>2, <1>3, <1>4, <1>5, <1>6, <1>7, RunTurns

\* Another tag is pushed: a new run queues and may supersede queued ones.
LEMMA PushTagInv ==
  ASSUME Inv, NEW r \in Run, NEW t \in Tag, NEW c \in Commit, PushTag(r, t, c)
  PROVE  Inv'
<1>1. PICK allowed \in BOOLEAN :
        /\ originTags' = [originTags EXCEPT ![t] = [commit |-> c, allowed |-> allowed]]
        /\ tagged' = IF allowed THEN tagged \cup {<<t, c>>} ELSE tagged
  BY DEF PushTag
<1>2. /\ market' = market /\ releases' = releases /\ reruns' = reruns
      /\ run' = [s \in Run |-> CASE s = r -> NewRun(t, c)
                             [] s # r /\ At(s, "queued") /\ run[s].tag = t -> Failed(s)
                             [] OTHER -> run[s]]
  BY DEF PushTag, public
<1>3. [commit |-> c, allowed |-> allowed] \in Pushed
  BY DEF Pushed
<1>4. tagged \subseteq tagged' /\ tagged' \subseteq Tag \X Commit
  BY <1>1 DEF Inv, TypeOK
<1>5. ASSUME NEW s \in Run
      PROVE  /\ run'[s] \in RunRecord /\ RunInv(run'[s], tagged', market')
             /\ run'[s].stage \notin Resting => run'[s] = run[s]
  <2>0. run[s] \in RunRecord /\ RunInv(run[s], tagged, market)
    BY RunTypes
  <2>1. RunInv(run[s], tagged', market')
    BY <2>0, <1>2, <1>4 DEF RunInv
  <2>2. CASE s = r
    BY <2>2, <1>2, NewRunFacts DEF Resting
  <2>3. CASE s # r /\ At(s, "queued") /\ run[s].tag = t
    <3>1. run'[s] = Failed(s)
      BY <2>3, <1>2
    <3>2. Failed(s) \in RunRecord /\ Failed(s).stage = "failed" /\ RunInv(Failed(s), tagged', market')
      BY <2>1, <2>3, FailedFacts DEF Inv
    <3> QED BY <3>1, <3>2 DEF Resting
  <2>4. CASE s # r /\ ~(At(s, "queued") /\ run[s].tag = t)
    BY <2>0, <2>1, <2>4, <1>2
  <2> QED BY <2>2, <2>3, <2>4
<1>6. run' \in [Run -> RunRecord]
  BY <1>2, <1>5
<1>7. originTags' \in [Tag -> Pushed \cup {NoTag}]
  BY <1>1, <1>3 DEF Inv, TypeOK
<1>8. TypeOK'
  BY <1>2, <1>4, <1>6, <1>7 DEF Inv, TypeOK
<1>9. RunsInv'
  BY <1>5 DEF RunsInv
<1>10. OneAtWork'
  BY <1>5 DEF Inv, OneAtWork, Live
<1>11. TagsInv'
  <2>1. ASSUME NEW u \in Tag, originTags'[u] # NoTag, originTags'[u].allowed
        PROVE  <<u, originTags'[u].commit>> \in tagged'
    <3>1. CASE u = t
      BY <3>1, <2>1, <1>1 DEF Inv, TypeOK
    <3>2. CASE u # t
      BY <3>2, <2>1, <1>1, <1>4 DEF Inv, TypeOK, TagsInv
    <3> QED BY <3>1, <3>2
  <2> QED BY <2>1 DEF TagsInv
<1>12. UploadedWasTagged'
  BY <1>2, <1>4 DEF Inv, UploadedWasTagged
<1> QED BY <1>8, <1>9, <1>10, <1>11, <1>12 DEF Inv

LEMMA DeleteTagInv ==
  ASSUME Inv, NEW t \in Tag, DeleteTag(t)
  PROVE  Inv'
<1>1. /\ originTags' = [originTags EXCEPT ![t] = NoTag]
      /\ UNCHANGED <<tagged, run, market, releases, reruns>>
  BY DEF DeleteTag, public
<1>2. TypeOK'
  BY <1>1 DEF Inv, TypeOK
<1>3. RunsInv' /\ OneAtWork' /\ UploadedWasTagged'
  BY <1>1 DEF Inv, RunsInv, OneAtWork, Live, UploadedWasTagged
<1>4. TagsInv'
  BY <1>1 DEF Inv, TypeOK, TagsInv
<1> QED BY <1>2, <1>3, <1>4 DEF Inv

LEMMA NextInv ==
  ASSUME Inv, [Next]_vars
  PROVE  Inv'
<1>1. CASE UNCHANGED vars
  BY <1>1 DEF vars, Inv, TypeOK, RunsInv, OneAtWork, Live, TagsInv, UploadedWasTagged
<1>2. CASE \E r \in Run, t \in Tag, c \in Commit : PushTag(r, t, c)
  BY <1>2, PushTagInv
<1>3. CASE \E t \in Tag : DeleteTag(t)
  BY <1>3, DeleteTagInv
<1>4. ASSUME NEW r \in Run,
             StartRun(r) \/ Fail(r) \/ RerunFailed(r) \/ RerunAll(r) \/ Expire(r)
      PROVE  Inv'
  BY <1>4, StartRunInv, FailInv, RerunInv, ExpireInv
<1>5. ASSUME NEW r \in Run, Job(r) PROVE Inv'
  BY <1>5, CheckingInv, BuildInv, CompareInv, SignInv, UploadInv, CheckReleaseInv, ReleaseInv
  DEF Job
<1> QED BY <1>1, <1>2, <1>3, <1>4, <1>5 DEF Next

\* The inductive invariant.
THEOREM AlwaysInv == Spec => []Inv
BY InitInv, NextInv, PTL DEF Spec

\* Every variable of the release workflow keeps its type.
THEOREM TypeCorrect == Spec => []TypeOK
<1>1. Inv => TypeOK
  BY DEF Inv
<1> QED BY <1>1, AlwaysInv, PTL

\* What the Marketplace has under a version was built from a commit that an allowed signer
\* tagged with it, for any number of runs, re-runs, deletions and pushes.
THEOREM UploadedAlwaysTagged == Spec => []UploadedWasTagged
<1>1. Inv => UploadedWasTagged
  BY DEF Inv
<1> QED BY <1>1, AlwaysInv, PTL

\* What a run publishes is what both of its builds made of its commit.
THEOREM SignedAlwaysReproduced == Spec => []SignedWasReproduced
<1>1. Inv => SignedWasReproduced
  <2>1. ASSUME Inv, NEW r \in Run, run[r].stage \in Publishing
        PROVE  /\ run[r].signed # NoZip /\ run[r].a = run[r].signed.zip
               /\ run[r].b = run[r].signed.zip /\ run[r].signed.zip.commit = run[r].sha
    BY <2>1, RunTypes, NullAssumption DEF RunInv, AfterCompare
  <2> QED BY <2>1 DEF SignedWasReproduced
<1> QED BY <1>1, AlwaysInv, PTL

(***************************************************************************)
(* The promise.                                                            *)
(***************************************************************************)

Releasing == {"checkRelease", "release"}

LEMMA FreshFacts == \A t : t \in Fresh <=> \E r \in Run : run[r].stage \in Releasing /\ run[r].tag = t
BY DEF Fresh, Releasing

LEMMA FreshFactsNext ==
  \A t : t \in Fresh' <=> \E r \in Run : run'[r].stage \in Releasing /\ run'[r].tag = t
BY DEF Fresh, Releasing

\* A run that is not between its two publications, before and after its step, or that is,
\* before and after, changes nothing.
LEMMA FreshStays ==
  ASSUME Inv, NEW r \in Run, NEW e, run' = [run EXCEPT ![r] = e], e.tag = run[r].tag,
         e.stage \in Releasing <=> run[r].stage \in Releasing
  PROVE  Fresh' = Fresh
<1>1. \A s \in Run : run'[s].tag = run[s].tag
                    /\ (run'[s].stage \in Releasing <=> run[s].stage \in Releasing)
  BY DEF Inv, TypeOK
<1>2. \A t : t \in Fresh' <=> t \in Fresh
  BY <1>1, FreshFacts, FreshFactsNext
<1> QED BY <1>2

LEMMA FreshGrows ==
  ASSUME Inv, NEW r \in Run, NEW e, run' = [run EXCEPT ![r] = e], e.tag = run[r].tag,
         e.stage \in Releasing
  PROVE  Fresh' = Fresh \cup {run[r].tag}
<1>1. \A s \in Run : run'[s] = IF s = r THEN e ELSE run[s]
  BY DEF Inv, TypeOK
<1>2. \A t : t \in Fresh' <=> t \in Fresh \/ t = run[r].tag
  BY <1>1, FreshFacts, FreshFactsNext
<1> QED BY <1>2

\* The other runs of its version are at rest, so a run that leaves leaves alone.
LEMMA FreshShrinks ==
  ASSUME Inv, NEW r \in Run, NEW e, run' = [run EXCEPT ![r] = e], e.tag = run[r].tag,
         run[r].stage \in Releasing, e.stage \notin Releasing
  PROVE  run[r].tag \in Fresh /\ Fresh' = Fresh \ {run[r].tag}
<1>1. \A s \in Run : run'[s] = IF s = r THEN e ELSE run[s]
  BY DEF Inv, TypeOK
<1>2. \A s \in Run : run[s].stage \in Releasing /\ run[s].tag = run[r].tag => s = r
  BY DEF Inv, OneAtWork, Live, Resting, Releasing
<1>3. run[r].tag \in Fresh
  BY FreshFacts
<1>4. \A t : t \in Fresh' <=> t \in Fresh /\ t # run[r].tag
  BY <1>1, <1>2, FreshFacts, FreshFactsNext
<1> QED BY <1>3, <1>4

LEMMA UploadKeeps ==
  ASSUME Inv, NEW r \in Run, Upload(r)
  PROVE  Promise!Next
<1> DEFINE t == run[r].tag
<1>1. run[r].stage = "upload"
  BY DEF Upload, At
<1>2. t \in Tag /\ run[r].signed \in Signed
  BY <1>1, PublishingFacts
<1>3. market[t] = NoZip /\ market' = [market EXCEPT ![t] = run[r].signed] /\ UNCHANGED releases
  BY DEF Upload
<1>4. Fresh' \in {Fresh, Fresh \cup {t}}
  <2>1. CASE Goto(r, "checkRelease")
    <3> DEFINE e == [run[r] EXCEPT !.stage = "checkRelease"]
    <3>1. e.tag = t /\ e.stage \in Releasing
      BY RunTypes, StageFacts DEF Working, Releasing
    <3>2. run' = [run EXCEPT ![r] = e]
      BY <2>1 DEF Goto, Inv, TypeOK
    <3> HIDE DEF e
    <3> QED BY <3>1, <3>2, FreshGrows
  <2>2. CASE run' = [run EXCEPT ![r] = Failed(r)]
    <3>1. Live(r)
      BY <1>1 DEF Live, Resting
    <3>2. Failed(r).stage = "failed" /\ Failed(r).tag = t
      BY <3>1, RunTypes, FailedFacts DEF Inv
    <3> QED BY <1>1, <2>2, <3>2, FreshStays DEF Releasing
  <2> QED BY <2>1, <2>2 DEF Upload
<1>5. Promise!Upload(t)
  BY <1>2, <1>3, <1>4 DEF Promise!Upload
<1> QED BY <1>2, <1>5 DEF Promise!Next

LEMMA ReleaseKeeps ==
  ASSUME Inv, NEW r \in Run, Release(r)
  PROVE  Promise!Next
<1> DEFINE t == run[r].tag
<1>1. run[r].stage = "release" /\ run[r] \in RunRecord
  BY RunTypes DEF Release, At
<1>2. t \in Tag /\ Live(r) /\ market[t] = run[r].signed
  BY <1>1, PublishingFacts, RunTypes DEF RunInv
<1>3. releases[t] = NoZip /\ releases' = [releases EXCEPT ![t] = market[t]] /\ UNCHANGED market
  BY <1>2 DEF Release
<1>4. t \in Fresh /\ Fresh' = Fresh \ {t}
  <2>1. CASE Goto(r, "done")
    <3> DEFINE e == [run[r] EXCEPT !.stage = "done"]
    <3>1. e.tag = t /\ e.stage = "done"
      BY <1>1, StageFacts DEF Resting
    <3>2. run' = [run EXCEPT ![r] = e]
      BY <2>1 DEF Goto, Inv, TypeOK
    <3> HIDE DEF e
    <3> QED BY <1>1, <3>1, <3>2, FreshShrinks DEF Releasing
  <2>2. CASE run' = [run EXCEPT ![r] = Failed(r)]
    <3>1. Failed(r).stage = "failed" /\ Failed(r).tag = t
      BY <1>2, RunTypes, FailedFacts DEF Inv
    <3> QED BY <1>1, <2>2, <3>1, FreshShrinks DEF Releasing
  <2> QED BY <2>1, <2>2 DEF Release
<1>5. Promise!Release(t)
  BY <1>3, <1>4 DEF Promise!Release
<1> QED BY <1>2, <1>5 DEF Promise!Next

LEMMA FailKeeps ==
  ASSUME Inv, NEW r \in Run, Fail(r)
  PROVE  [Promise!Next]_Promise!vars
<1> DEFINE t == run[r].tag
<1>1. Live(r) /\ run' = [run EXCEPT ![r] = Failed(r)] /\ UNCHANGED <<market, releases>>
  BY DEF Fail, public
<1>2. Failed(r).stage = "failed" /\ Failed(r).tag = t /\ t \in Tag
  BY <1>1, RunTypes, FailedFacts DEF Inv, RunRecord
<1>3. CASE run[r].stage \in Releasing
  <2>1. t \in Fresh /\ Fresh' = Fresh \ {t}
    BY <1>1, <1>2, <1>3, FreshShrinks DEF Releasing
  <2>2. Promise!GiveUp(t)
    BY <1>1, <2>1 DEF Promise!GiveUp
  <2> QED BY <1>2, <2>2 DEF Promise!Next
<1>4. CASE run[r].stage \notin Releasing
  <2>1. Fresh' = Fresh
    BY <1>1, <1>2, <1>4, FreshStays DEF Releasing
  <2> QED BY <1>1, <2>1 DEF Promise!vars
<1> QED BY <1>3, <1>4

\* The other steps of a run.
LEMMA GotoKeeps ==
  ASSUME Inv, NEW r \in Run, NEW stage \in Working \cup Resting, Goto(r, stage),
         stage \in Releasing <=> run[r].stage \in Releasing
  PROVE  Fresh' = Fresh
<1> DEFINE e == [run[r] EXCEPT !.stage = stage]
<1>1. e.tag = run[r].tag /\ e.stage = stage
  BY RunTypes, StageFacts
<1>2. run' = [run EXCEPT ![r] = e]
  BY DEF Goto, Inv, TypeOK
<1> HIDE DEF e
<1> QED BY <1>1, <1>2, FreshStays

LEMMA JobKeeps ==
  ASSUME Inv, NEW r \in Run, Job(r), ~Upload(r), ~Release(r)
  PROVE  Fresh' = Fresh /\ UNCHANGED <<market, releases>>
<1>1. UNCHANGED <<market, releases>>
  BY DEF Job, ValidateTag, Build, BuildsDone, Compare, Approve, Recheck, Bind, Sign, CheckUpload,
     CheckRelease, public
<1>2. CASE ValidateTag(r)
  BY <1>1, <1>2, GotoKeeps DEF ValidateTag, At, Working, Releasing
<1>3. CASE BuildsDone(r)
  BY <1>1, <1>3, GotoKeeps DEF BuildsDone, At, Working, Releasing
<1>4. CASE Approve(r)
  BY <1>1, <1>4, GotoKeeps DEF Approve, At, Working, Releasing
<1>5. CASE Recheck(r)
  BY <1>1, <1>5, GotoKeeps DEF Recheck, At, Working, Releasing
<1>6. CASE Bind(r)
  BY <1>1, <1>6, GotoKeeps DEF Bind, At, Working, Releasing
<1>7. CASE CheckUpload(r)
  BY <1>1, <1>7, GotoKeeps DEF CheckUpload, At, Working, Releasing
<1>8. CASE CheckRelease(r)
  BY <1>1, <1>8, GotoKeeps DEF CheckRelease, At, Working, Releasing
<1>9. CASE Build(r) \/ Compare(r) \/ Sign(r)
  <2>0. run[r] \in RunRecord /\ run \in [Run -> RunRecord]
    BY RunTypes DEF Inv, TypeOK
  <2>1. /\ run[r].stage \notin Releasing
        /\ run'[r].tag = run[r].tag /\ run'[r].stage \notin Releasing
        /\ run' = [run EXCEPT ![r] = run'[r]]
    <3>1. CASE Build(r)
      BY <2>0, <3>1 DEF Build, At, Releasing, RunRecord
    <3>2. CASE Compare(r)
      BY <2>0, <3>2 DEF Compare, At, Releasing, RunRecord
    <3>3. CASE Sign(r)
      BY <2>0, <3>3 DEF Sign, At, Releasing, RunRecord
    <3> QED BY <1>9, <3>1, <3>2, <3>3
  <2> QED BY <1>1, <2>1, FreshStays
<1> QED BY <1>1, <1>2, <1>3, <1>4, <1>5, <1>6, <1>7, <1>8, <1>9 DEF Job

LEMMA UpkeepKeeps ==
  ASSUME Inv, NEW r \in Run, StartRun(r) \/ RerunFailed(r) \/ RerunAll(r) \/ Expire(r)
  PROVE  Fresh' = Fresh /\ UNCHANGED <<market, releases>>
<1> DEFINE d == run[r]
<1>0. d \in RunRecord /\ run \in [Run -> RunRecord]
  BY RunTypes DEF Inv, TypeOK
<1>1. UNCHANGED <<market, releases>>
  BY DEF StartRun, RerunFailed, RerunAll, Expire, public
<1>2. CASE StartRun(r)
  <2> DEFINE stage == IF d.job = "none" THEN "validate" ELSE FirstStage(d.job)
  <2>1. stage \in {"validate", "build", "compare", "approval"}
    BY <1>0 DEF RunRecord, JobName, FirstStage
  <2>2. Goto(r, stage) /\ d.stage = "queued"
    BY <1>2 DEF StartRun, Goto, At
  <2> HIDE DEF stage
  <2> QED BY <1>1, <2>1, <2>2, GotoKeeps DEF Working, Releasing
<1>3. CASE RerunFailed(r)
  BY <1>1, <1>3, GotoKeeps DEF RerunFailed, At, Resting, Releasing
<1>4. CASE RerunAll(r)
  <2>1. NewRun(d.tag, d.sha).tag = d.tag /\ NewRun(d.tag, d.sha).stage = "queued"
    BY DEF NewRun
  <2>2. d.stage \notin Releasing /\ run' = [run EXCEPT ![r] = NewRun(d.tag, d.sha)]
    BY <1>4 DEF RerunAll, Releasing
  <2> QED BY <1>1, <2>1, <2>2, FreshStays DEF Releasing
<1>5. CASE Expire(r)
  <2>1. /\ run'[r].tag = d.tag /\ run'[r].stage = d.stage
        /\ run' = [run EXCEPT ![r] = run'[r]]
    BY <1>0, <1>5 DEF Expire, RunRecord
  <2> QED BY <1>1, <2>1, FreshStays
<1> QED BY <1>2, <1>3, <1>4, <1>5

LEMMA PushTagKeeps ==
  ASSUME Inv, NEW r \in Run, NEW t \in Tag, NEW c \in Commit, PushTag(r, t, c)
  PROVE  Fresh' = Fresh /\ UNCHANGED <<market, releases>>
<1>1. /\ UNCHANGED <<market, releases>>
      /\ run' = [s \in Run |-> CASE s = r -> NewRun(t, c)
                             [] s # r /\ At(s, "queued") /\ run[s].tag = t -> Failed(s)
                             [] OTHER -> run[s]]
  BY DEF PushTag, public
<1>2. ASSUME NEW s \in Run
      PROVE  \/ run'[s] = run[s]
             \/ run'[s].stage \notin Releasing /\ run[s].stage \notin Releasing
  <2>1. CASE s = r
    BY <1>1, <2>1, NewRunFacts DEF PushTag, Unused, Releasing
  <2>2. CASE s # r /\ At(s, "queued") /\ run[s].tag = t
    BY <1>1, <2>2, RunTypes, FailedFacts DEF Inv, At, Releasing
  <2>3. CASE s # r /\ ~(At(s, "queued") /\ run[s].tag = t)
    BY <1>1, <2>3
  <2> QED BY <2>1, <2>2, <2>3
<1>3. \A u : u \in Fresh' <=> u \in Fresh
  BY <1>2, FreshFacts, FreshFactsNext
<1> QED BY <1>1, <1>3

\* Whatever fails and whatever is run again, a version goes to the Marketplace once, and
\* GitHub gets the same bytes, from the same attempt, or nothing.
THEOREM PromiseKept == Spec => KeepsPromise
<1>1. Init => Promise!Init
  <2> SUFFICES ASSUME Init PROVE Promise!Init
    OBVIOUS
  <2>1. PICK t \in Tag, c \in Commit : run = [r \in Run |-> [NewRun(t, c) EXCEPT !.stage = "unused"]]
    BY DEF Init
  <2>2. \A r \in Run : run[r].stage \notin Releasing
    BY <2>1, NewRunFacts DEF Releasing
  <2>3. Fresh = {}
    BY <2>2, FreshFacts
  <2> QED BY <2>3 DEF Init, Promise!Init
<1>2. Inv /\ [Next]_vars => [Promise!Next]_Promise!vars
  <2> SUFFICES ASSUME Inv, [Next]_vars PROVE [Promise!Next]_Promise!vars
    OBVIOUS
  <2>1. CASE UNCHANGED vars
    BY <2>1 DEF vars, Promise!vars, Fresh
  <2>2. CASE \E r \in Run, t \in Tag, c \in Commit : PushTag(r, t, c)
    BY <2>2, PushTagKeeps DEF Promise!vars
  <2>3. CASE \E t \in Tag : DeleteTag(t)
    BY <2>3 DEF DeleteTag, public, Promise!vars, Fresh
  <2>4. ASSUME NEW r \in Run, StartRun(r) \/ RerunFailed(r) \/ RerunAll(r) \/ Expire(r)
        PROVE  [Promise!Next]_Promise!vars
    BY <2>4, UpkeepKeeps DEF Promise!vars
  <2>5. ASSUME NEW r \in Run, Fail(r) PROVE [Promise!Next]_Promise!vars
    BY <2>5, FailKeeps
  <2>6. ASSUME NEW r \in Run, Job(r) PROVE [Promise!Next]_Promise!vars
    BY <2>6, UploadKeeps, ReleaseKeeps, JobKeeps DEF Promise!vars
  <2> QED BY <2>1, <2>2, <2>3, <2>4, <2>5, <2>6 DEF Next
<1> QED BY <1>1, <1>2, AlwaysInv, PTL DEF Spec, KeepsPromise, Promise!Spec
=============================================================================
