--------------------------- MODULE WatchersProofs ---------------------------
(***************************************************************************)
(* Theorems about Watchers, for any files, editors and number of highlight *)
(* jobs and refreshes, and about Navigation, for any languages, projects   *)
(* and findings.                                                           *)
(***************************************************************************)
EXTENDS Watchers, Navigation, FiniteSetTheorems, TLAPS

(* What is marked                                                          *)

Pending(j) == job[j].phase \in {"launched", "resolved"}

\* The editors the highlighter keeps account of have been there; after the project is closed it
\* has none left and no job will add one.
TrackInv ==
  /\ \A ed \in Editor : editors[ed] = "unopened" => ed \notin tracked
  /\ disposed => tracked = {} /\ \A j \in Job : ~Pending(j)

\* Only the job scheduled last may still do something.
LastInv == \A j \in Job : /\ Pending(j) => j = scheduled
                          /\ j <= scheduled => job[j].phase # "unborn"

Marked == \A ed \in Editor : editors[ed] = "open" =>
            (ed \in tracked <=> FileOf[ed] \in findings \cap OnDisk)

\* Once the first refresh has been announced to the highlighter, it has the findings on show,
\* and the last job has marked them or is on its way with them.
MarkInv ==
  startup = "done" /\ refresh # "asked" /\ ~disposed =>
    /\ findings = state.findings
    /\ scheduled > 0
    /\ job[scheduled].phase = "launched" => job[scheduled].snapshot = findings
    /\ job[scheduled].phase = "resolved" => job[scheduled].snapshot = findings \cap OnDisk
    /\ job[scheduled].phase = "over" => Marked

\* Shown or not yet, the panel has no details of a row but the selected one.
PanelInv ==
  /\ panel.details \in File => panel.details = panel.selected
  /\ panel.shown => panel.rows = state.findings /\ panel.selected \in panel.rows \cup {None}

WInv == TypeOK /\ NoStrayMark /\ TrackInv /\ LastInv /\ MarkInv /\ PanelInv

JobRecord == [phase : {"unborn", "launched", "resolved", "over"}, snapshot : SUBSET File]

PanelRecord == [shown : BOOLEAN, rows : SUBSET File, selected : File \cup {None},
                details : File \cup {None, Error}]

LEMMA InitWInv == Init => WInv
<1> SUFFICES ASSUME Init PROVE WInv
  OBVIOUS
<1>1. TypeOK
  <2>1. /\ state \in [findings : SUBSET File, failed : BOOLEAN]
        /\ job \in [Job -> JobRecord] /\ panel \in PanelRecord
    BY DEF Init, JobRecord, PanelRecord
  <2>2. /\ refresh \in {"none", "asked", "announced"} /\ asked \in 0..MaxRefreshes
        /\ startup \in {"begun", "listening", "created", "done"}
        /\ findings \subseteq File /\ tracked \subseteq Editor /\ disposed \in BOOLEAN
    <3>1. asked = 0 /\ asked \in 0..MaxRefreshes
      BY BoundAssumption DEF Init
    <3> QED BY <3>1 DEF Init
  <2>3. scheduled \in 0..MaxJobs
    BY BoundAssumption DEF Init
  <2>4. /\ marks \in [Editor -> 0..1]
        /\ editors \in [Editor -> {"unopened", "opening", "open", "closed"}]
    BY DEF Init
  <2> QED BY <2>1, <2>2, <2>3, <2>4 DEF TypeOK, JobRecord, PanelRecord
<1>2. NoStrayMark /\ TrackInv
  BY DEF Init, NoStrayMark, TrackInv, InAllEditors
<1>3. LastInv /\ MarkInv
  BY DEF Init, LastInv, MarkInv, Pending, Job
<1>4. PanelInv
  BY TextAssumption DEF Init, PanelInv
<1> QED BY <1>1, <1>2, <1>3, <1>4 DEF WInv

\* Scheduling retires the jobs before and launches one with the findings given.
LEMMA ScheduleFacts ==
  ASSUME job \in [Job -> JobRecord], scheduled \in 0..MaxJobs, NEW now \in SUBSET File,
         Schedule(now)
  PROVE  /\ job' \in [Job -> JobRecord] /\ scheduled' \in 0..MaxJobs /\ scheduled' \in Job
         /\ scheduled' > 0
         /\ job'[scheduled'].phase = "launched" /\ job'[scheduled'].snapshot = now
         /\ \A j \in Job : j # scheduled' => job'[j].phase \in {"unborn", "over"}
         /\ LastInv => LastInv'
<1>1. scheduled' = scheduled + 1 /\ scheduled < MaxJobs
  BY DEF Schedule
<1>2. scheduled' \in 0..MaxJobs /\ scheduled' \in Job /\ scheduled' > 0
  BY <1>1, BoundAssumption DEF Job
<1> DEFINE retired(j) == [job[j] EXCEPT !.phase = IF @ = "unborn" THEN @ ELSE "over"]
<1>3. \A j \in Job : /\ j = scheduled' => job'[j] = [phase |-> "launched", snapshot |-> now]
                     /\ j # scheduled' => job'[j] = retired(j)
  BY DEF Schedule
<1>4. \A j \in Job : /\ retired(j) \in JobRecord /\ retired(j).phase \in {"unborn", "over"}
                     /\ job[j].phase # "unborn" => retired(j).phase # "unborn"
  BY DEF JobRecord
<1>5. [phase |-> "launched", snapshot |-> now] \in JobRecord
  BY DEF JobRecord
<1> HIDE DEF retired
<1>6. job' \in [Job -> JobRecord]
  <2>1. DOMAIN job' = Job /\ job' = [j \in Job |-> job'[j]]
    BY DEF Schedule
  <2>2. \A j \in Job : job'[j] \in JobRecord
    BY <1>3, <1>4, <1>5
  <2> QED BY <2>1, <2>2
<1>7. job'[scheduled'].phase = "launched" /\ job'[scheduled'].snapshot = now
  BY <1>2, <1>3
<1>8. \A j \in Job : j # scheduled' => job'[j].phase \in {"unborn", "over"}
  BY <1>3, <1>4
<1>9. ASSUME LastInv, NEW j \in Job
      PROVE  /\ job'[j].phase \in {"launched", "resolved"} => j = scheduled'
             /\ j <= scheduled' => job'[j].phase # "unborn"
  <2>1. CASE j = scheduled'
    BY <1>7, <2>1
  <2>2. CASE j # scheduled'
    <3>1. j <= scheduled' => j <= scheduled
      BY <1>1, <2>2 DEF Job
    <3> QED BY <1>3, <1>4, <1>9, <2>2, <3>1 DEF LastInv
  <2> QED BY <2>1, <2>2
<1>10. LastInv => LastInv'
  BY <1>9 DEF LastInv, Pending
<1> QED BY <1>2, <1>6, <1>7, <1>8, <1>10

\* Rendering the findings a publish stores leaves no row selected and no old details.
LEMMA RenderedFacts ==
  ASSUME panel \in PanelRecord, PanelInv, NEW new \in [findings : SUBSET File, failed : BOOLEAN]
  PROVE  /\ Rendered(new) \in PanelRecord /\ Rendered(new).details \notin File
         /\ Rendered(new).rows = new.findings /\ Rendered(new).selected = None
         /\ Rendered(new).shown = panel.shown
<1> DEFINE details == IF new.findings = {} THEN IF new.failed THEN Error ELSE None
                      ELSE IF panel.selected = None THEN panel.details ELSE None
<1>1. Rendered(new) = [panel EXCEPT !.rows = new.findings, !.selected = None, !.details = details]
  BY DEF Rendered, PanelRecord
<1>2. panel.details \in File => panel.selected # None
  BY TextAssumption DEF PanelInv
<1>3. details \notin File
  BY <1>2, TextAssumption
<1>4. details \in {None, Error}
  BY <1>3 DEF PanelRecord
<1> HIDE DEF details
<1> QED BY <1>1, <1>3, <1>4 DEF PanelRecord

LEMMA PublishWInv ==
  ASSUME WInv, NEW new \in [findings : SUBSET File, failed : BOOLEAN], Publish(new),
         refresh' \in {"none", "announced"}
  PROVE  WInv'
<1>a. /\ job \in [Job -> JobRecord] /\ panel \in PanelRecord /\ scheduled \in 0..MaxJobs
      /\ NoStrayMark /\ TrackInv /\ LastInv /\ PanelInv /\ TypeOK
  BY DEF WInv, TypeOK, JobRecord, PanelRecord
<1>b. /\ ~disposed /\ ~disposed' /\ state' = new
      /\ UNCHANGED <<asked, startup, editors, disposed, marks, tracked>>
      /\ panel' = IF panel.shown THEN Rendered(new) ELSE panel
  BY DEF Publish, highlighterVars
<1>c. new.findings \in SUBSET File
  OBVIOUS
<1>1. /\ LastInv' /\ MarkInv' /\ job' \in [Job -> JobRecord] /\ scheduled' \in 0..MaxJobs
      /\ findings' \subseteq File
  <2>1. CASE startup = "begun"
    <3>1. UNCHANGED <<findings, job, scheduled>>
      BY <2>1 DEF Publish, highlighterVars
    <3> QED BY <2>1, <1>a, <1>b, <3>1 DEF LastInv, Pending, MarkInv, TypeOK
  <2>2. CASE startup # "begun"
    <3>1. findings' = new.findings /\ Schedule(new.findings)
      BY <2>2 DEF Publish
    <3>2. /\ job' \in [Job -> JobRecord] /\ scheduled' \in 0..MaxJobs /\ scheduled' > 0
          /\ job'[scheduled'].phase = "launched" /\ job'[scheduled'].snapshot = new.findings
          /\ LastInv'
      BY <1>a, <1>c, <3>1, ScheduleFacts
    <3>3. MarkInv'
      BY <1>b, <3>1, <3>2 DEF MarkInv
    <3> QED BY <1>c, <3>1, <3>2, <3>3
  <2> QED BY <2>1, <2>2
<1>2. PanelInv' /\ panel' \in PanelRecord
  <2>1. CASE panel.shown
    BY <1>a, <1>b, <2>1, RenderedFacts DEF PanelInv
  <2>2. CASE ~panel.shown
    BY <1>a, <1>b, <2>2 DEF PanelInv
  <2> QED BY <2>1, <2>2
<1>3. NoStrayMark' /\ TrackInv'
  BY <1>a, <1>b DEF NoStrayMark, TrackInv, InAllEditors
<1>4. TypeOK'
  BY <1>a, <1>b, <1>1, <1>2 DEF TypeOK, JobRecord, PanelRecord
<1> QED BY <1>1, <1>2, <1>3, <1>4 DEF WInv

LEMMA NextWInv == WInv /\ [Next]_vars => WInv'
<1> SUFFICES ASSUME WInv, [Next]_vars PROVE WInv'
  OBVIOUS
<1>a. /\ job \in [Job -> JobRecord] /\ panel \in PanelRecord /\ scheduled \in 0..MaxJobs
      /\ editors \in [Editor -> {"unopened", "opening", "open", "closed"}]
      /\ marks \in [Editor -> 0..1] /\ tracked \subseteq Editor /\ findings \in SUBSET File
      /\ state \in [findings : SUBSET File, failed : BOOLEAN]
  BY DEF WInv, TypeOK, JobRecord, PanelRecord
<1>b. TypeOK /\ NoStrayMark /\ TrackInv /\ LastInv /\ MarkInv /\ PanelInv
  BY DEF WInv
\* What a step need not show of the part it leaves alone.
<1>h. ASSUME UNCHANGED <<editors, disposed, marks, tracked>>, ~disposed
      PROVE  NoStrayMark' /\ TrackInv'
  BY <1>b, <1>h DEF NoStrayMark, TrackInv, InAllEditors
<1>p. ASSUME UNCHANGED <<state, panel>> PROVE PanelInv'
  BY <1>b, <1>p DEF PanelInv
<1>l. ASSUME UNCHANGED <<job, scheduled>> PROVE LastInv'
  BY <1>b, <1>l DEF LastInv, Pending
<1>m. ASSUME UNCHANGED <<state, refresh, startup, editors, disposed, findings, tracked, job,
                         scheduled>>
      PROVE  MarkInv'
  BY <1>b, <1>m DEF MarkInv, Marked
<1>1. CASE SubscribeFindings \/ SubscribeEditors
  <2>1. /\ ~disposed /\ startup' \in {"listening", "created"}
        /\ UNCHANGED <<state, refresh, asked, editors, marks, findings, tracked, job,
                       scheduled, disposed, panel>>
    BY <1>1 DEF SubscribeFindings, SubscribeEditors, highlighterVars
  <2>2. MarkInv' /\ TypeOK'
    BY <1>b, <2>1 DEF MarkInv, TypeOK
  <2> QED BY <1>h, <1>p, <1>l, <2>1, <2>2 DEF WInv
<1>2. CASE FirstRefresh \/ ClickRefresh
  <2>1. /\ refresh' = "asked" /\ startup' \in {startup, "done"} /\ asked' \in 0..MaxRefreshes
        /\ UNCHANGED <<state, editors, marks, findings, tracked, job, scheduled, disposed,
                       panel>>
    BY <1>2, <1>b, BoundAssumption DEF FirstRefresh, ClickRefresh, highlighterVars, TypeOK
  <2>2. MarkInv' /\ TypeOK'
    BY <1>b, <2>1 DEF MarkInv, TypeOK
  <2>3. NoStrayMark' /\ TrackInv'
    BY <1>b, <2>1 DEF NoStrayMark, TrackInv, InAllEditors, Pending
  <2> QED BY <1>p, <1>l, <2>1, <2>2, <2>3 DEF WInv
<1>3. CASE Announce
  <2>1. PICK kept \in SUBSET state.findings, failed \in {state.failed, FALSE} :
          Publish([findings |-> kept, failed |-> failed])
    BY <1>3 DEF Announce
  <2>2. [findings |-> kept, failed |-> failed] \in [findings : SUBSET File, failed : BOOLEAN]
    BY <1>a
  <2> QED BY <1>3, <2>1, <2>2, PublishWInv DEF Announce
<1>4. CASE PublishResult
  <2>1. PICK found \in SUBSET File, failed \in BOOLEAN :
          Publish([findings |-> found, failed |-> failed])
    BY <1>4 DEF PublishResult
  <2>2. [findings |-> found, failed |-> failed] \in [findings : SUBSET File, failed : BOOLEAN]
    OBVIOUS
  <2> QED BY <1>4, <2>1, <2>2, PublishWInv DEF PublishResult
<1>5. CASE ShowPanel
  <2>1. /\ ~disposed /\ panel' = [Rendered(state) EXCEPT !.shown = TRUE]
        /\ UNCHANGED <<state, refresh, asked, startup, editors, marks, findings, tracked, job,
                       scheduled, disposed>>
    BY <1>5 DEF ShowPanel, highlighterVars
  <2>2. /\ Rendered(state) \in PanelRecord /\ Rendered(state).details \notin File
        /\ Rendered(state).rows = state.findings /\ Rendered(state).selected = None
    BY <1>a, <1>b, RenderedFacts
  <2>3. /\ panel' \in PanelRecord /\ panel'.details = Rendered(state).details
        /\ panel'.rows = Rendered(state).rows /\ panel'.selected = Rendered(state).selected
    BY <2>1, <2>2 DEF PanelRecord
  <2>4. PanelInv'
    BY <2>1, <2>2, <2>3 DEF PanelInv
  <2>5. TypeOK'
    BY <1>b, <2>1, <2>3 DEF TypeOK, PanelRecord
  <2> QED BY <1>h, <1>l, <1>m, <2>1, <2>4, <2>5 DEF WInv
<1>6. CASE Select
  <2>1. PICK row \in panel.rows : panel' = [panel EXCEPT !.selected = row, !.details = row]
    BY <1>6 DEF Select
  <2>2. /\ panel.shown
        /\ UNCHANGED <<state, refresh, asked, startup, editors, marks, findings, tracked, job,
                       scheduled, disposed>>
    BY <1>6 DEF Select, highlighterVars
  <2>3. panel' \in PanelRecord /\ panel'.selected = row /\ panel'.details = row
        /\ panel'.rows = panel.rows
    BY <1>a, <2>1 DEF PanelRecord
  <2>4. PanelInv'
    BY <1>b, <2>2, <2>3 DEF PanelInv
  <2>5. TypeOK'
    BY <1>b, <2>2, <2>3 DEF TypeOK, PanelRecord
  <2>6. NoStrayMark' /\ TrackInv'
    BY <1>b, <2>2 DEF NoStrayMark, TrackInv, InAllEditors, Pending
  <2> QED BY <1>l, <1>m, <2>2, <2>4, <2>5, <2>6 DEF WInv
<1>7. CASE CloseProject
  <2>1. /\ ~disposed /\ disposed' /\ tracked' = {} /\ marks' = Cleared
        /\ panel' = [panel EXCEPT !.shown = FALSE]
        /\ job' = [j \in Job |-> [job[j] EXCEPT !.phase = IF @ = "unborn" THEN @ ELSE "over"]]
        /\ UNCHANGED <<state, refresh, asked, startup, editors, findings, scheduled>>
    BY <1>7 DEF CloseProject
  <2>2. \A ed \in Editor : marks'[ed] = 0
    BY <1>b, <2>1 DEF Cleared, NoStrayMark
  <2>3. \A j \in Job : /\ job'[j] \in JobRecord /\ job'[j].phase \in {"unborn", "over"}
                       /\ job[j].phase # "unborn" => job'[j].phase # "unborn"
    BY <1>a, <2>1 DEF JobRecord
  <2>4. job' \in [Job -> JobRecord]
    BY <2>1, <2>3
  <2>5. marks' \in [Editor -> 0..1]
    BY <2>1, <2>2 DEF Cleared
  <2>6. /\ panel' \in PanelRecord /\ panel'.shown = FALSE /\ panel'.details = panel.details
        /\ panel'.selected = panel.selected
    BY <1>a, <2>1 DEF PanelRecord
  <2>7. TypeOK'
    BY <1>b, <2>1, <2>4, <2>5, <2>6 DEF TypeOK, JobRecord, PanelRecord
  <2>8. NoStrayMark' /\ TrackInv'
    BY <2>1, <2>2, <2>3 DEF NoStrayMark, TrackInv, Pending
  <2>9. LastInv' /\ MarkInv'
    BY <1>b, <2>1, <2>3 DEF LastInv, Pending, MarkInv
  <2>10. PanelInv'
    BY <1>b, <2>6 DEF PanelInv
  <2> QED BY <2>7, <2>8, <2>9, <2>10 DEF WInv
<1>8. ASSUME NEW j \in Job, Resolve(j) PROVE WInv'
  <2>1. /\ job[j].phase = "launched"
        /\ job' = [job EXCEPT ![j].phase = "resolved", ![j].snapshot = @ \cap OnDisk]
        /\ UNCHANGED <<state, refresh, asked, startup, editors, marks, findings, tracked,
                       scheduled, disposed, panel>>
    BY <1>8 DEF Resolve
  <2>2. j = scheduled /\ ~disposed
    BY <1>b, <2>1 DEF LastInv, TrackInv, Pending
  <2>3. /\ job'[j] \in JobRecord /\ job'[j].phase = "resolved"
        /\ job'[j].snapshot = job[j].snapshot \cap OnDisk
        /\ \A k \in Job : k # j => job'[k] = job[k]
    <3> DEFINE known == job[j].snapshot \cap OnDisk
    <3>1. job' = [job EXCEPT ![j] = [job[j] EXCEPT !.phase = "resolved", !.snapshot = known]]
      BY <1>a, <2>1
    <3>2. job[j] \in JobRecord /\ known \in SUBSET File
      BY <1>a DEF JobRecord
    <3> HIDE DEF known
    <3> DEFINE r == [job[j] EXCEPT !.phase = "resolved", !.snapshot = known]
    <3>3. r \in JobRecord
      BY <3>2 DEF JobRecord
    <3>4. r.phase = "resolved" /\ r.snapshot = known
      BY <3>2 DEF JobRecord
    <3> HIDE DEF r
    <3>5. job'[j] = r /\ \A k \in Job : k # j => job'[k] = job[k]
      BY <1>a, <3>1 DEF r
    <3> QED BY <3>3, <3>4, <3>5 DEF known
  <2>4. job' \in [Job -> JobRecord]
    BY <1>a, <2>1, <2>3
  <2>5. TypeOK'
    BY <1>b, <2>1, <2>4 DEF TypeOK, JobRecord
  <2>6. LastInv'
    BY <1>b, <2>1, <2>2, <2>3 DEF LastInv, Pending
  <2>7. MarkInv'
    BY <1>b, <2>1, <2>2, <2>3 DEF MarkInv
  <2> QED BY <1>h, <1>p, <2>1, <2>2, <2>5, <2>6, <2>7 DEF WInv
<1>9. ASSUME NEW j \in Job, ApplyHighlights(j) PROVE WInv'
  <2> DEFINE hit == {ed \in Editor : InAllEditors(ed) /\ FileOf[ed] \in job[j].snapshot}
  <2>1. /\ job[j].phase = "resolved"
        /\ marks' = [ed \in Editor |-> IF ed \in hit THEN Cleared[ed] + 1 ELSE Cleared[ed]]
        /\ tracked' = hit
        /\ job' = [job EXCEPT ![j].phase = "over"]
        /\ UNCHANGED <<state, refresh, asked, startup, editors, findings, scheduled, disposed,
                       panel>>
    BY <1>9 DEF ApplyHighlights
  <2>2. j = scheduled /\ ~disposed
    BY <1>b, <2>1 DEF LastInv, TrackInv, Pending
  <2>3. \A ed \in Editor : Cleared[ed] = 0
    BY <1>b DEF Cleared, NoStrayMark
  <2>4. \A ed \in Editor : ed \in hit <=> InAllEditors(ed) /\ FileOf[ed] \in job[j].snapshot
    OBVIOUS
  <2>5. hit \subseteq Editor
    OBVIOUS
  <2> HIDE DEF hit
  <2>6. \A ed \in Editor : marks'[ed] = IF ed \in hit THEN 1 ELSE 0
    BY <2>1, <2>3
  <2>7. marks' \in [Editor -> 0..1]
    BY <2>1, <2>3
  <2>8. /\ job'[j] \in JobRecord /\ job'[j].phase = "over"
        /\ \A k \in Job : k # j => job'[k] = job[k]
    BY <1>a, <2>1 DEF JobRecord
  <2>9. job' \in [Job -> JobRecord]
    BY <1>a, <2>1, <2>8
  <2>10. TypeOK'
    BY <1>b, <2>1, <2>5, <2>7, <2>9 DEF TypeOK, JobRecord
  <2>11. NoStrayMark' /\ TrackInv'
    BY <2>1, <2>2, <2>4, <2>6 DEF NoStrayMark, TrackInv, InAllEditors
  <2>12. LastInv'
    BY <1>b, <2>1, <2>2, <2>8 DEF LastInv, Pending
  <2>13. MarkInv'
    BY <1>b, <2>1, <2>2, <2>4, <2>8 DEF MarkInv, Marked, InAllEditors
  <2> QED BY <1>p, <2>1, <2>10, <2>11, <2>12, <2>13 DEF WInv
<1>10. ASSUME NEW ed \in Editor, OpenEditor(ed) PROVE WInv'
  <2>1. /\ editors[ed] = "unopened" /\ ~disposed
        /\ editors' = [editors EXCEPT ![ed] = "opening"]
        /\ UNCHANGED <<state, refresh, asked, startup, marks, findings, tracked, job,
                       scheduled, disposed, panel>>
    BY <1>10 DEF OpenEditor, highlighterVars
  <2>2. TypeOK'
    BY <1>b, <2>1 DEF TypeOK
  <2>3. NoStrayMark' /\ TrackInv'
    BY <1>a, <1>b, <2>1 DEF NoStrayMark, TrackInv, InAllEditors
  <2>4. MarkInv'
    BY <1>a, <1>b, <2>1 DEF MarkInv, Marked
  <2> QED BY <1>p, <1>l, <2>1, <2>2, <2>3, <2>4 DEF WInv
<1>11. ASSUME NEW ed \in Editor, FileOpened(ed) PROVE WInv'
  <2>1. /\ editors[ed] = "opening" /\ editors' = [editors EXCEPT ![ed] = "open"]
        /\ UNCHANGED <<state, refresh, asked, startup, disposed, panel, marks, findings, tracked>>
    BY <1>11 DEF FileOpened, highlighterVars
  <2>2. NoStrayMark'
    BY <1>a, <1>b, <2>1 DEF NoStrayMark, InAllEditors
  <2>3. /\ \A e \in Editor : editors'[e] = "unopened" => e \notin tracked'
        /\ editors' \in [Editor -> {"unopened", "opening", "open", "closed"}]
    BY <1>a, <1>b, <2>1 DEF TrackInv
  <2>4. CASE startup \in {"created", "done"} /\ ~disposed
    <3>1. Schedule(findings)
      BY <1>11, <2>4 DEF FileOpened
    <3>2. /\ job' \in [Job -> JobRecord] /\ scheduled' \in 0..MaxJobs /\ scheduled' > 0
          /\ job'[scheduled'].phase = "launched" /\ job'[scheduled'].snapshot = findings
          /\ LastInv'
      BY <1>a, <1>b, <3>1, ScheduleFacts
    <3>3. TypeOK'
      BY <1>b, <2>1, <2>3, <3>2 DEF TypeOK, JobRecord
    <3>4. TrackInv' /\ MarkInv'
      BY <1>b, <2>1, <2>3, <2>4, <3>2 DEF TrackInv, MarkInv
    <3> QED BY <1>p, <2>1, <2>2, <3>2, <3>3, <3>4 DEF WInv
  <2>5. CASE ~(startup \in {"created", "done"} /\ ~disposed)
    <3>1. UNCHANGED <<job, scheduled>>
      BY <1>11, <2>5 DEF FileOpened, highlighterVars
    <3>2. TypeOK'
      BY <1>b, <2>1, <2>3, <3>1 DEF TypeOK
    <3>3. TrackInv' /\ MarkInv'
      BY <1>b, <2>1, <2>3, <2>5, <3>1 DEF TrackInv, MarkInv, Pending
    <3> QED BY <1>p, <1>l, <2>1, <2>2, <3>1, <3>2, <3>3 DEF WInv
  <2> QED BY <2>4, <2>5
<1>12. ASSUME NEW ed \in Editor, CloseEditor(ed) PROVE WInv'
  <2>1. /\ editors[ed] = "open" /\ editors' = [editors EXCEPT ![ed] = "closed"]
        /\ marks' = [marks EXCEPT ![ed] = 0]
        /\ UNCHANGED <<state, refresh, asked, startup, findings, tracked, job, scheduled,
                       disposed, panel>>
    BY <1>12 DEF CloseEditor
  <2>2. TypeOK'
    BY <1>b, <2>1 DEF TypeOK
  <2>3. NoStrayMark'
    BY <1>a, <1>b, <2>1 DEF NoStrayMark, InAllEditors
  <2>4. TrackInv'
    BY <1>a, <1>b, <2>1 DEF TrackInv, Pending
  <2>5. MarkInv'
    BY <1>a, <1>b, <2>1 DEF MarkInv, Marked
  <2> QED BY <1>p, <1>l, <2>1, <2>2, <2>3, <2>4, <2>5 DEF WInv
<1>13. CASE UNCHANGED vars
  <2>1. UNCHANGED <<state, refresh, asked, startup, editors, marks, findings, tracked, job,
                    scheduled, disposed, panel>>
    BY <1>13 DEF vars, highlighterVars
  <2>2. TypeOK' /\ NoStrayMark' /\ TrackInv'
    BY <1>b, <2>1 DEF TypeOK, NoStrayMark, TrackInv, InAllEditors, Pending
  <2> QED BY <1>p, <1>l, <1>m, <2>1, <2>2 DEF WInv
<1> QED BY <1>1, <1>2, <1>3, <1>4, <1>5, <1>6, <1>7, <1>8, <1>9, <1>10, <1>11, <1>12, <1>13
        DEF Next, Startup, Refreshing, JobStep

LEMMA WatchersInvariant == Spec => []WInv
BY InitWInv, NextWInv, PTL DEF Spec

\* Every variable of the highlighter and the panel keeps its type, for any files and editors.
THEOREM TypeCorrect == Spec => []TypeOK
<1>1. WInv => TypeOK
  BY DEF WInv
<1> QED BY <1>1, WatchersInvariant, PTL

\* FindingHighlighter can remove every mark it has set, and sets none after the project is
\* closed, for any editors, jobs and publications.
THEOREM MarksStayTracked == Spec => []NoStrayMark
<1>1. WInv => NoStrayMark
  BY DEF WInv
<1> QED BY <1>1, WatchersInvariant, PTL

\* At rest the marks are those of the findings on show, and the panel never details a finding
\* the service has dropped: no publication before the highlighter listened, cancelled job or
\* editor opened meanwhile is missed.
THEOREM ViewsAlwaysMatch == Spec => []ViewsMatchFindings
<1>1. WInv => ViewsMatchFindings
  <2> SUFFICES ASSUME WInv PROVE ViewsMatchFindings
    OBVIOUS
  <2>a. TypeOK /\ NoStrayMark /\ LastInv /\ MarkInv /\ PanelInv
    BY DEF WInv
  <2>1. ASSUME Quiet, NEW ed \in Editor, editors[ed] = "open"
        PROVE  marks[ed] = 1 <=> FileOf[ed] \in state.findings \cap OnDisk
    <3>1. findings = state.findings /\ scheduled \in Job
      BY <2>a, <2>1 DEF Quiet, MarkInv, TypeOK, Job
    <3>2. job[scheduled].phase = "over"
      BY <2>a, <2>1, <3>1 DEF Quiet, LastInv, Job
    <3>3. ed \in tracked <=> FileOf[ed] \in findings \cap OnDisk
      BY <2>a, <2>1, <3>2 DEF Quiet, MarkInv, Marked
    <3> QED BY <2>a, <2>1, <3>1, <3>3 DEF NoStrayMark, InAllEditors
  <2>2. panel.shown /\ panel.details \in File =>
          panel.details = panel.selected /\ panel.selected \in state.findings
    BY <2>a, TextAssumption DEF PanelInv
  <2> QED BY <2>1, <2>2 DEF ViewsMatchFindings
<1> QED BY <1>1, WatchersInvariant, PTL

-----------------------------------------------------------------------------
(* Where a finding leads to                                                *)

NavPhase == {"find", "read", "ask", "anchor", "guess", "found", "over", "aborted"}

NavRecord == [phase : NavPhase, rest : SUBSET Language, hits : SUBSET (Language \X Place),
              failed : SUBSET ({"ask", "guess"} \X Language),
              target : Place \cup {"line", Nowhere}]

Classes == project.entities \cup project.repositories

LineThere == finding.path # "none" /\ project.file = "fits"

Heard(l) == l \in ide /\ <<"ask", l>> \notin nav.failed

\* While the project holds still: the hits are the answers of those asked so far, and what was
\* found, or not found, is what is wanted.
StillInv ==
  edits = 0 /\ shifts = 0 =>
    /\ nav.phase \in {"ask", "anchor", "guess"} => ~LineThere
    /\ nav.phase \in {"ask", "anchor"} => \A l \in Language, x \in Place :
         <<l, x>> \in nav.hits <=> l \notin nav.rest /\ Heard(l) /\ x \in Answer(l)
    /\ nav.phase = "guess" =>
         /\ \A l \in Language : Heard(l) => Answer(l) = {}
         /\ \A l \in Language, x \in Place :
              <<l, x>> \in nav.hits <=> /\ l = "java" /\ l \in ide \ nav.rest
                                        /\ <<"guess", l>> \notin nav.failed /\ x \in Guess
    /\ nav.phase = "found" => CanNavigate /\ Wanted = {nav.target} /\ nav.target # Nowhere
    /\ nav.phase = "over" => (IF opened = Nowhere THEN {} ELSE {opened}) = Wanted

\* While nobody edits, whatever the index does: a class is found by a guess only, and nobody
\* guesses while Java has a method of that name.
GuessInv ==
  edits = 0 =>
    /\ project \in Project
    /\ nav.phase \in {"ask", "anchor"} => \A h \in nav.hits : h[2] \in Declared(h[1])
    /\ nav.phase = "guess" /\ nav.hits # {} => Declared("java") = {}
    /\ nav.phase = "found" /\ nav.target \in Classes => Declared("java") = {}
    /\ nav.phase = "over" /\ opened \in Classes => Declared("java") = {}

\* Nobody has failed a pass who is still to be asked in it.
FailInv ==
  /\ nav.phase \in {"find", "read"} => nav.failed = {}
  /\ nav.phase \in {"ask", "anchor"} => \A l \in Language :
       <<"guess", l>> \notin nav.failed /\ (l \in nav.rest => <<"ask", l>> \notin nav.failed)
  /\ nav.phase = "guess" => \A l \in nav.rest : <<"guess", l>> \notin nav.failed

NavInv ==
  /\ NavTypeOK /\ nav \in NavRecord
  /\ nav.phase = "read" => finding.path # "none"
  /\ nav.phase = "anchor" => "csharp" \in ide \ nav.rest
  /\ nav.phase # "over" => opened = Nowhere
  /\ FailInv /\ StillInv /\ GuessInv

LEMMA SingleFacts ==
  ASSUME NEW S, IsFiniteSet(S)
  PROVE  /\ SingleOrNull(S) \subseteq S
         /\ \A x, y \in SingleOrNull(S) : x = y
         /\ \A x : S = {x} => SingleOrNull(S) = {x}
         /\ \A x, y \in S : x # y => SingleOrNull(S) = {}
BY FS_Singleton DEF SingleOrNull

\* What a project holds, as far as the answers need it.
LEMMA ContentFacts ==
  ASSUME NavTypeOK
  PROVE  /\ ide \subseteq Language
         /\ \A l \in Language : project.declared[l] \in SUBSET Place
         /\ project.inherited \in SUBSET Place
         /\ project.entities \in SUBSET Place /\ project.repositories \in SUBSET Place
<1>1. ide \subseteq Language
  BY NavigationAssumption DEF NavTypeOK
<1>2. project \in Content
  BY DEF NavTypeOK
<1>3. project.declared \in [Language -> SUBSET Place]
  BY <1>2 DEF Content
<1> QED BY <1>1, <1>2, <1>3 DEF Content

LEMMA PlaceFinite == \A S \in SUBSET Place : IsFiniteSet(S)
BY PlaceAssumption, FS_Subset

\* The property's reading of the project is the resolvers'.
LEMMA DeclaredFacts ==
  ASSUME NavTypeOK, NEW l \in Language
  PROVE  /\ Candidates(l) = Declared(l)
         /\ Declared(l) \in SUBSET Place
         /\ Answer(l) = IF Sees(l) THEN SingleOrNull(Declared(l)) ELSE {}
         /\ Answer(l) \in SUBSET Declared(l)
<1>1. Candidates(l) = Declared(l)
  BY DEF Candidates, MethodCandidates, OwnersMethods, Declared
<1>2. Declared(l) \in SUBSET Place
  BY ContentFacts DEF Declared
<1>3. Answer(l) = IF Sees(l) THEN SingleOrNull(Declared(l)) ELSE {}
  BY <1>1 DEF Answer
<1>4. Answer(l) \in SUBSET Declared(l)
  BY <1>3 DEF SingleOrNull
<1> QED BY <1>1, <1>2, <1>3, <1>4

LEMMA TableFacts ==
  ASSUME NavTypeOK
  PROVE  /\ TableAnchor \in SUBSET Classes /\ Classes \in SUBSET Place
         /\ \A x, y \in TableAnchor : x = y
<1>1. Classes \in SUBSET Place
  BY ContentFacts DEF Classes
<1>2. IsFiniteSet(project.entities) /\ IsFiniteSet(project.repositories)
  BY ContentFacts, PlaceFinite
<1>3. \/ TableAnchor = {} \/ TableAnchor = SingleOrNull(project.entities)
      \/ TableAnchor = SingleOrNull(project.repositories)
  BY DEF TableAnchor
<1> QED BY <1>1, <1>2, <1>3, SingleFacts DEF Classes

LEMMA GuessFacts ==
  ASSUME NavTypeOK
  PROVE  /\ Guess \in SUBSET Place /\ \A x, y \in Guess : x = y
         /\ Guess # {} => Declared("java") = {}
         /\ Guess = IF smart /\ Declared("java") = {} THEN TableAnchor ELSE {}
<1>1. MethodCandidates = Declared("java")
  BY DEF MethodCandidates, OwnersMethods, Declared
<1>2. Guess = IF smart /\ Declared("java") = {} THEN TableAnchor ELSE {}
  BY <1>1 DEF Guess
<1> QED BY <1>2, TableFacts

\* The answers are those of the world the navigation finds, not of how far it has come.
LEMMA SameWorld ==
  ASSUME UNCHANGED navWorld
  PROVE  /\ \A l : Declared(l)' = Declared(l) /\ Answer(l)' = Answer(l)
         /\ Guess' = Guess /\ TableAnchor' = TableAnchor /\ Classes' = Classes
         /\ LineThere' = LineThere
<1> USE DEF navWorld
<1>1. \A l : Declared(l)' = Declared(l)
  BY DEF Declared, Named
<1>2. \A l : Answer(l)' = Answer(l)
  BY DEF Answer, Sees, Candidates, Named, MethodCandidates, OwnersMethods
<1>3. TableAnchor' = TableAnchor
  BY DEF TableAnchor, JavaProvenance
<1>4. Guess' = Guess
  BY <1>3 DEF Guess, MethodCandidates, Named, OwnersMethods
<1> QED BY <1>1, <1>2, <1>3, <1>4 DEF Classes, LineThere

\* What is wanted does not change while no resolver fails and the world is the same.
LEMMA SameWanted ==
  ASSUME UNCHANGED navWorld, nav'.failed = nav.failed
  PROVE  Wanted' = Wanted /\ \A l : Heard(l)' = Heard(l)
<1> USE DEF navWorld
<1>1. \A l : Declared(l)' = Declared(l) /\ Sees(l)' = Sees(l)
  BY SameWorld DEF Sees
<1>2. Proposed' = Proposed
  BY <1>1 DEF Proposed
<1> QED BY <1>1, <1>2, SameWorld DEF Wanted, Heard

\* A method is no class.
LEMMA NoClass ==
  ASSUME NavTypeOK, project \in Project, NEW l \in Language
  PROVE  Declared(l) \cap Classes = {}
<1>1. project.declared[l] \cap Classes = {} /\ project.inherited \cap Classes = {}
  BY PlaceAssumption DEF Classes
<1>2. \/ Declared(l) = {} \/ Declared(l) = project.declared[l]
      \/ l = "java" /\ Declared(l) = project.inherited
  BY DEF Declared
<1> QED BY <1>1, <1>2

\* Two languages never put the same element forward.
LEMMA OneLanguage ==
  ASSUME NavTypeOK, project \in Project, NEW l \in Language, NEW m \in Language, l # m
  PROVE  Declared(l) \cap Declared(m) = {}
<1>1. /\ project.declared[l] \cap project.declared[m] = {}
      /\ l # "java" => project.inherited \cap project.declared[l] = {}
      /\ m # "java" => project.inherited \cap project.declared[m] = {}
  BY PlaceAssumption
<1>2. \A k \in {l, m} :
        \/ Declared(k) = {} \/ Declared(k) = project.declared[k]
        \/ k = "java" /\ Declared(k) = project.inherited
  BY DEF Declared
<1> QED BY <1>1, <1>2

LEMMA ProposedFacts ==
  ASSUME NavTypeOK
  PROVE  \A x : x \in Proposed <=> \E l \in Language : Heard(l) /\ x \in Answer(l)
<1>1. ide \subseteq Language
  BY ContentFacts
<1>2. \A l \in Language : Answer(l) = IF Sees(l) THEN SingleOrNull(Declared(l)) ELSE {}
  BY DeclaredFacts
<1> QED BY <1>1, <1>2 DEF Proposed, Heard

LEMMA HitsFinite == nav \in NavRecord => IsFiniteSet(nav.hits)
<1>1. IsFiniteSet(Language \X Place)
  BY PlaceAssumption, FS_Product
<1>2. nav \in NavRecord => nav.hits \in SUBSET (Language \X Place)
  BY DEF NavRecord
<1> QED BY <1>1, <1>2, FS_Subset

\* singleOrNull of the hits: the place of the one hit, or the end.
LEMMA FoundOnlyFacts ==
  ASSUME nav \in NavRecord
  PROVE  \/ /\ FoundOnly = Goto("over")
            /\ nav.hits = {} \/ \E g, h \in nav.hits : g # h
         \/ \E l \in Language, x \in Place : nav.hits = {<<l, x>>} /\ FoundOnly = Found(x)
<1>1. IsFiniteSet(nav.hits) /\ nav.hits \in SUBSET (Language \X Place)
  BY HitsFinite DEF NavRecord
<1>2. CASE Cardinality(nav.hits) = 1
  <2>1. PICK h : nav.hits = {h}
    BY <1>1, <1>2, FS_Singleton
  <2>2. PICK l \in Language, x \in Place : h = <<l, x>>
    BY <1>1, <2>1
  <2>3. (CHOOSE g \in nav.hits : TRUE)[2] = x
    <3>1. (CHOOSE g \in nav.hits : TRUE) = <<l, x>>
      BY <2>1, <2>2
    <3>2. <<l, x>>[2] = x
      OBVIOUS
    <3> QED BY <3>1, <3>2
  <2>4. FoundOnly = Found(x)
    BY <1>2, <2>3 DEF FoundOnly
  <2> QED BY <2>1, <2>2, <2>4
<1>3. CASE Cardinality(nav.hits) # 1
  <2>1. ~\E h : nav.hits = {h}
    BY <1>3, FS_Singleton
  <2> QED BY <1>3, <2>1 DEF FoundOnly
<1> QED BY <1>2, <1>3

\* Every resolver asked: the one declaration put forward is what is wanted, of several none.
LEMMA AskedWanted ==
  ASSUME NavInv, edits = 0, shifts = 0, nav.phase = "ask", nav.rest = {}, nav.hits # {}
  PROVE  /\ \A l \in Language, x \in Place : nav.hits = {<<l, x>>} => Wanted = {x}
         /\ (\E g, h \in nav.hits : g # h) => Wanted = {}
<1>a. NavTypeOK /\ nav \in NavRecord /\ project \in Project /\ ~LineThere
  BY DEF NavInv, StillInv, GuessInv
<1>1. \A l \in Language, x \in Place : <<l, x>> \in nav.hits <=> Heard(l) /\ x \in Answer(l)
  BY DEF NavInv, StillInv
<1>2. nav.hits \in SUBSET (Language \X Place)
  BY <1>a DEF NavRecord
<1>3. \A l \in Language : Answer(l) \in SUBSET Declared(l) /\ Declared(l) \in SUBSET Place
  BY <1>a, DeclaredFacts
<1>4. \A x : x \in Proposed <=> \E l \in Language : <<l, x>> \in nav.hits
  BY <1>a, <1>1, <1>2, <1>3, ProposedFacts
<1>5. Proposed \in SUBSET Place /\ Proposed # {}
  <2>1. ASSUME NEW x \in Proposed PROVE x \in Place
    <3>1. PICK l \in Language : <<l, x>> \in nav.hits
      BY <1>4, <2>1
    <3>2. <<l, x>> \in Language \X Place
      BY <1>2, <3>1
    <3> QED BY <3>2
  <2>2. PICK l \in Language, x \in Place : <<l, x>> \in nav.hits
    BY <1>2
  <2>3. x \in Proposed
    BY <1>4, <2>2
  <2> QED BY <2>1, <2>3
<1>6. Wanted = SingleOrNull(Proposed)
  BY <1>a, <1>5 DEF Wanted, LineThere
<1>7. IsFiniteSet(Proposed)
  BY <1>5, PlaceFinite
<1>8. ASSUME NEW l \in Language, NEW x \in Place, nav.hits = {<<l, x>>} PROVE Wanted = {x}
  <2>1. Proposed = {x}
    BY <1>4, <1>8
  <2> QED BY <1>6, <1>7, <2>1, SingleFacts
<1>9. ASSUME NEW g \in nav.hits, NEW h \in nav.hits, g # h PROVE Wanted = {}
  <2>1. PICK l \in Language, x \in Place, m \in Language, y \in Place :
          g = <<l, x>> /\ h = <<m, y>>
    BY <1>2
  <2>2. x \in Declared(l) /\ y \in Declared(m)
    BY <1>1, <1>3, <1>9, <2>1
  <2>3. x # y
    <3>1. CASE l = m
      <4>1. x = y => <<l, x>> = <<m, y>>
        BY <3>1
      <4> QED BY <1>9, <2>1, <4>1
    <3>2. CASE l # m
      BY <1>a, <2>2, <3>2, OneLanguage
    <3> QED BY <3>1, <3>2
  <2>4. x \in Proposed /\ y \in Proposed
    BY <1>4, <1>9, <2>1
  <2> QED BY <1>6, <1>7, <2>3, <2>4, SingleFacts
<1> QED BY <1>8, <1>9

\* Nothing was put forward: the guessed class is what is wanted.
LEMMA GuessedWanted ==
  ASSUME NavInv, edits = 0, shifts = 0, nav.phase = "guess", nav.rest = {}
  PROVE  /\ \A l \in Language, x \in Place : nav.hits = {<<l, x>>} => Wanted = {x}
         /\ nav.hits = {} => Wanted = {}
         /\ \A g, h \in nav.hits : g = h
<1>a. NavTypeOK /\ nav \in NavRecord /\ ~LineThere /\ ide \subseteq Language
  BY ContentFacts DEF NavInv, StillInv
<1>1. /\ \A l \in Language : Heard(l) => Answer(l) = {}
      /\ \A l \in Language, x \in Place :
           <<l, x>> \in nav.hits <=> /\ l = "java" /\ l \in ide
                                     /\ <<"guess", l>> \notin nav.failed /\ x \in Guess
  BY DEF NavInv, StillInv
<1>2. nav.hits \in SUBSET (Language \X Place)
  BY <1>a DEF NavRecord
<1>3. Proposed = {}
  BY <1>a, <1>1, ProposedFacts
<1>4. Guess = IF smart /\ Declared("java") = {} THEN TableAnchor ELSE {}
  BY <1>a, GuessFacts
<1>5. Wanted = IF "java" \in ide /\ <<"guess", "java">> \notin nav.failed THEN Guess ELSE {}
  <2>1. Wanted = IF /\ "java" \in ide /\ smart /\ <<"guess", "java">> \notin nav.failed
                    /\ Declared("java") = {} THEN TableAnchor ELSE {}
    BY <1>a, <1>3 DEF Wanted, LineThere
  <2> QED BY <1>4, <2>1
<1>6. Guess \in SUBSET Place /\ \A x, y \in Guess : x = y
  BY <1>a, GuessFacts
<1>7. \A x : x \in Wanted <=> x \in Place /\ "java" \in Language /\ <<"java", x>> \in nav.hits
  BY <1>a, <1>1, <1>5, <1>6
<1>8. ASSUME NEW l \in Language, NEW x \in Place, nav.hits = {<<l, x>>} PROVE Wanted = {x}
  <2>1. l = "java" /\ x \in Wanted
    BY <1>1, <1>7, <1>8
  <2>2. \A y \in Wanted : y = x
    BY <1>7, <1>8
  <2> QED BY <2>1, <2>2
<1>9. nav.hits = {} => Wanted = {}
  BY <1>7
<1>10. ASSUME NEW g \in nav.hits, NEW h \in nav.hits PROVE g = h
  <2>1. PICK l \in Language, x \in Place, m \in Language, y \in Place :
          g = <<l, x>> /\ h = <<m, y>>
    BY <1>2
  <2>2. l = "java" /\ m = "java" /\ x \in Guess /\ y \in Guess
    BY <1>1, <1>10, <2>1
  <2> QED BY <1>6, <2>1, <2>2
<1> QED BY <1>8, <1>9, <1>10

LEMMA InitNavInv == NavInit => NavInv
<1> SUFFICES ASSUME NavInit PROVE NavInv
  OBVIOUS
<1>1. nav = [phase |-> "find", rest |-> {}, hits |-> {}, failed |-> {}, target |-> Nowhere]
      /\ opened = Nowhere /\ edits = 0 /\ shifts = 0 /\ project \in Project
      /\ ide \in Installed /\ finding \in Reported /\ smart \in BOOLEAN
  BY DEF NavInit
<1>2. nav \in NavRecord /\ nav.phase = "find" /\ nav.rest = {} /\ nav.hits = {}
      /\ nav.failed = {} /\ nav.target = Nowhere
  BY <1>1 DEF NavRecord, NavPhase
<1>3. project \in Content
  BY <1>1, NavigationAssumption
<1>4. edits \in 0..MaxEdits /\ shifts \in 0..MaxShifts
  BY <1>1, NavigationAssumption
<1>5. NavTypeOK
  BY <1>1, <1>2, <1>3, <1>4 DEF NavTypeOK
<1>6. FailInv /\ StillInv /\ GuessInv
  BY <1>1, <1>2 DEF FailInv, StillInv, GuessInv
<1> QED BY <1>1, <1>2, <1>5, <1>6 DEF NavInv

\* The coroutine goes on in a world that is the same: what is left to show of the step.
LEMMA NavStep ==
  ASSUME NavInv, UNCHANGED <<navWorld, opened>>, NEW r \in NavRecord, nav' = r,
         r.rest \subseteq ide, r.hits \in SUBSET (ide \X Place),
         r.failed \in SUBSET ({"ask", "guess"} \X ide),
         r.phase = "read" => finding.path # "none",
         r.phase = "anchor" => "csharp" \in ide \ r.rest, nav.phase # "over",
         FailInv', StillInv', GuessInv'
  PROVE  NavInv'
<1>1. opened = Nowhere
  BY DEF NavInv
<1>2. NavTypeOK'
  BY <1>1 DEF NavInv, NavTypeOK, navWorld, NavRecord, NavPhase
<1> QED BY <1>1, <1>2 DEF NavInv, navWorld

LEMMA GotoFacts ==
  ASSUME nav \in NavRecord, NEW phase \in NavPhase
  PROVE  /\ Goto(phase) \in NavRecord /\ Goto(phase).phase = phase
         /\ Goto(phase).rest = nav.rest /\ Goto(phase).hits = nav.hits
         /\ Goto(phase).failed = nav.failed /\ Goto(phase).target = nav.target
BY DEF Goto, NavRecord

LEMMA FoundFacts ==
  ASSUME nav \in NavRecord, NEW target \in Place \cup {"line"}
  PROVE  /\ Found(target) \in NavRecord /\ Found(target).phase = "found"
         /\ Found(target).rest = nav.rest /\ Found(target).hits = nav.hits
         /\ Found(target).failed = nav.failed /\ Found(target).target = target
BY DEF Found, NavRecord, NavPhase

LEMMA AskAllFacts ==
  ASSUME nav \in NavRecord, ide \subseteq Language, NEW phase \in {"ask", "guess"}
  PROVE  /\ AskAll(phase) \in NavRecord /\ AskAll(phase).phase = phase
         /\ AskAll(phase).rest = ide /\ AskAll(phase).hits = {}
         /\ AskAll(phase).failed = nav.failed
<1>1. AskAll(phase) \in NavRecord
  BY DEF AskAll, NavRecord, NavPhase
<1> QED BY <1>1 DEF AskAll, NavRecord

LEMMA AskedFacts ==
  ASSUME nav \in NavRecord, NEW l \in Language, NEW places \in SUBSET Place
  PROVE  /\ Asked(l, places) \in NavRecord /\ Asked(l, places).phase = nav.phase
         /\ Asked(l, places).rest = nav.rest \ {l}
         /\ Asked(l, places).failed = nav.failed
         /\ \A m, x : <<m, x>> \in Asked(l, places).hits
                        <=> <<m, x>> \in nav.hits \/ (m = l /\ x \in places)
         /\ Asked(l, places).hits \subseteq nav.hits \cup ({l} \X places)
<1> DEFINE new == {<<l, x>> : x \in places}
<1>1. new \in SUBSET (Language \X Place) /\ new \in SUBSET ({l} \X places)
  OBVIOUS
<1>2. \A m, x : <<m, x>> \in new <=> m = l /\ x \in places
  OBVIOUS
<1>3. Asked(l, places) = [nav EXCEPT !.rest = nav.rest \ {l}, !.hits = nav.hits \cup new]
  BY DEF Asked, NavRecord
<1> HIDE DEF new
<1>4. nav.rest \ {l} \in SUBSET Language /\ nav.hits \cup new \in SUBSET (Language \X Place)
  BY <1>1 DEF NavRecord
<1>5. Asked(l, places) \in NavRecord
  BY <1>3, <1>4 DEF NavRecord
<1>6. /\ Asked(l, places).phase = nav.phase /\ Asked(l, places).rest = nav.rest \ {l}
      /\ Asked(l, places).failed = nav.failed /\ Asked(l, places).hits = nav.hits \cup new
  BY <1>3 DEF NavRecord
<1> QED BY <1>1, <1>2, <1>5, <1>6

LEMMA NavFacts ==
  ASSUME NavInv
  PROVE  /\ NavTypeOK /\ nav \in NavRecord /\ FailInv /\ StillInv /\ GuessInv
         /\ nav.rest \subseteq ide /\ nav.hits \in SUBSET (ide \X Place)
         /\ nav.failed \in SUBSET ({"ask", "guess"} \X ide) /\ ide \subseteq Language
BY ContentFacts DEF NavInv, NavTypeOK

\* Into the first pass, without a line to go to.
LEMMA EntersAsk ==
  ASSUME NavInv, NEW phase \in {"find", "read"}, Step(phase, AskAll("ask")), ~LineThere
  PROVE  NavInv'
<1>a. /\ NavTypeOK /\ nav \in NavRecord /\ FailInv /\ GuessInv /\ ide \subseteq Language
      /\ nav.failed \in SUBSET ({"ask", "guess"} \X ide) /\ nav.failed = {}
  BY NavFacts DEF FailInv, Step
<1>1. /\ nav' \in NavRecord /\ nav'.phase = "ask" /\ nav'.rest = ide /\ nav'.hits = {}
      /\ nav'.failed = nav.failed /\ UNCHANGED <<navWorld, opened>> /\ nav.phase # "over"
  BY <1>a, AskAllFacts DEF Step
<1>2. UNCHANGED <<ide, project, edits, shifts>> /\ LineThere' = LineThere
  BY <1>1, SameWorld DEF navWorld
<1>3. FailInv'
  BY <1>a, <1>1 DEF FailInv
<1>4. StillInv'
  BY <1>1, <1>2 DEF StillInv, Heard
<1>5. GuessInv'
  BY <1>a, <1>1, <1>2 DEF GuessInv
<1> QED BY <1>a, <1>1, <1>3, <1>4, <1>5, NavStep

LEMMA LooksForFile == ASSUME NavInv, FindFile \/ ReadLine PROVE NavInv'
<1>a. /\ NavTypeOK /\ nav \in NavRecord /\ FailInv /\ StillInv /\ GuessInv
      /\ nav.rest \subseteq ide /\ nav.hits \in SUBSET (ide \X Place)
      /\ nav.failed \in SUBSET ({"ask", "guess"} \X ide) /\ ide \subseteq Language
  BY NavFacts
<1>1. CASE FindFile /\ finding.path # "none" /\ project.file # "absent"
  <2>1. nav.phase = "find" /\ nav' = Goto("read") /\ UNCHANGED <<navWorld, opened>>
    BY <1>1 DEF FindFile, Step
  <2>2. /\ nav' \in NavRecord /\ nav'.phase = "read" /\ nav'.rest = nav.rest
        /\ nav'.hits = nav.hits /\ nav'.failed = nav.failed
    BY <1>a, <2>1, GotoFacts DEF NavPhase
  <2>3. FailInv' /\ StillInv' /\ GuessInv'
    BY <1>a, <2>1, <2>2 DEF FailInv, StillInv, GuessInv, navWorld
  <2> QED BY <1>a, <1>1, <2>1, <2>2, <2>3, NavStep
<1>2. CASE FindFile /\ ~(finding.path # "none" /\ project.file # "absent")
  <2>1. Step("find", AskAll("ask")) /\ ~LineThere
    BY <1>2 DEF FindFile, LineThere
  <2> QED BY <2>1, EntersAsk
<1>3. CASE ReadLine /\ project.file = "fits"
  <2>1. nav.phase = "read" /\ nav' = Found("line") /\ UNCHANGED <<navWorld, opened>>
    BY <1>3 DEF ReadLine, Step
  <2>2. /\ nav' \in NavRecord /\ nav'.phase = "found" /\ nav'.rest = nav.rest
        /\ nav'.hits = nav.hits /\ nav'.failed = nav.failed /\ nav'.target = "line"
    BY <1>a, <2>1, FoundFacts
  <2>3. Wanted' = {"line"}
    <3>1. finding.path # "none"
      BY <2>1 DEF NavInv
    <3>2. Wanted = {"line"}
      BY <1>3, <3>1 DEF Wanted
    <3> QED BY <2>1, <2>2, <3>2, SameWanted
  <2>4. CanNavigate'
    BY <1>3, <2>1, <2>2 DEF CanNavigate, navWorld
  <2>5. "line" \notin Classes' /\ "line" # Nowhere
    BY <1>a, <2>1, SameWorld, TableFacts, NavigationAssumption
  <2>6. FailInv' /\ StillInv' /\ GuessInv'
    BY <1>a, <2>1, <2>2, <2>3, <2>4, <2>5 DEF FailInv, StillInv, GuessInv, navWorld
  <2> QED BY <1>a, <2>1, <2>2, <2>6, NavStep
<1>4. CASE ReadLine /\ project.file # "fits"
  <2>1. Step("read", AskAll("ask")) /\ ~LineThere
    BY <1>4 DEF ReadLine, LineThere
  <2> QED BY <2>1, EntersAsk
<1> QED BY <1>1, <1>2, <1>3, <1>4

\* A resolver answers; C#'s may need its anchor looked for.
LEMMA Answers ==
  ASSUME NavInv, NEW l \in nav.rest, nav.phase = "ask",
         \/ nav' = Asked(l, Answer(l))
         \/ l = "csharp" /\ nav' = [Asked(l, Answer(l)) EXCEPT !.phase = "anchor"],
         UNCHANGED <<navWorld, opened>>
  PROVE  NavInv'
<1>a. /\ NavTypeOK /\ nav \in NavRecord /\ FailInv /\ StillInv /\ GuessInv
      /\ nav.rest \subseteq ide /\ nav.hits \in SUBSET (ide \X Place)
      /\ nav.failed \in SUBSET ({"ask", "guess"} \X ide) /\ ide \subseteq Language
      /\ l \in Language /\ l \in ide
  BY NavFacts
<1>b. Answer(l) \in SUBSET Place /\ Answer(l) \in SUBSET Declared(l)
  BY <1>a, DeclaredFacts
<1> DEFINE r == Asked(l, Answer(l))
<1>1. /\ r \in NavRecord /\ r.phase = "ask" /\ r.rest = nav.rest \ {l} /\ r.failed = nav.failed
      /\ \A m, x : <<m, x>> \in r.hits <=> <<m, x>> \in nav.hits \/ (m = l /\ x \in Answer(l))
      /\ r.hits \subseteq nav.hits \cup ({l} \X Answer(l))
  BY <1>a, <1>b, AskedFacts
<1>2. nav' = r \/ (l = "csharp" /\ nav' = [r EXCEPT !.phase = "anchor"])
  OBVIOUS
<1> HIDE DEF r
<1>3. /\ nav' \in NavRecord /\ nav'.phase \in {"ask", "anchor"}
      /\ nav'.phase = "anchor" => l = "csharp"
      /\ nav'.rest = nav.rest \ {l} /\ nav'.failed = nav.failed /\ nav'.hits = r.hits
  BY <1>1, <1>2 DEF NavRecord, NavPhase
<1>4. UNCHANGED <<ide, project, edits, shifts>>
  BY DEF navWorld
<1>5. /\ \A m : Declared(m)' = Declared(m) /\ Answer(m)' = Answer(m) /\ Heard(m)' = Heard(m)
      /\ LineThere' = LineThere
  BY <1>3, SameWorld, SameWanted
<1>6. FailInv'
  BY <1>a, <1>3 DEF FailInv
<1>7. StillInv'
  <2> SUFFICES ASSUME edits = 0, shifts = 0
      PROVE  /\ ~LineThere
             /\ \A m \in Language, x \in Place :
                  <<m, x>> \in nav'.hits <=> m \notin nav'.rest /\ Heard(m)' /\ x \in Answer(m)'
    BY <1>3, <1>4, <1>5 DEF StillInv
  <2>1. /\ ~LineThere
        /\ \A m \in Language, x \in Place :
             <<m, x>> \in nav.hits <=> m \notin nav.rest /\ Heard(m) /\ x \in Answer(m)
    BY <1>a DEF StillInv
  <2>2. Heard(l)
    BY <1>a DEF Heard, FailInv
  <2> QED BY <1>a, <1>1, <1>3, <1>5, <2>1, <2>2
<1>8. GuessInv'
  <2>1. ASSUME edits = 0, NEW h \in r.hits PROVE h[2] \in Declared(h[1])
    <3>1. CASE h \in nav.hits
      BY <1>a, <2>1, <3>1 DEF GuessInv
    <3>2. CASE h \in {l} \X Answer(l)
      BY <1>b, <3>2
    <3> QED BY <1>1, <2>1, <3>1, <3>2
  <2> QED BY <1>a, <1>3, <1>4, <1>5, <2>1 DEF GuessInv
<1>9. nav'.hits \in SUBSET (ide \X Place)
  BY <1>a, <1>b, <1>1, <1>3
<1> QED BY <1>a, <1>3, <1>6, <1>7, <1>8, <1>9, NavStep

\* C#'s anchor is there, or its resolver has failed after all and its answer goes.
LEMMA AnchorLookedFor == ASSUME NavInv, FindAnchor PROVE NavInv'
<1>a. /\ NavTypeOK /\ nav \in NavRecord /\ FailInv /\ StillInv /\ GuessInv
      /\ nav.rest \subseteq ide /\ nav.hits \in SUBSET (ide \X Place)
      /\ nav.failed \in SUBSET ({"ask", "guess"} \X ide) /\ ide \subseteq Language
  BY NavFacts
<1>b. nav.phase = "anchor" /\ UNCHANGED <<navWorld, opened>> /\ "csharp" \in ide \ nav.rest
  BY DEF FindAnchor, Step, NavInv
<1>c. UNCHANGED <<ide, project, edits, shifts>>
      /\ \A m : Declared(m)' = Declared(m) /\ Answer(m)' = Answer(m)
      /\ LineThere' = LineThere
  BY <1>b, SameWorld DEF navWorld
<1>1. CASE nav' = Goto("ask")
  <2>1. /\ nav' \in NavRecord /\ nav'.phase = "ask" /\ nav'.rest = nav.rest
        /\ nav'.hits = nav.hits /\ nav'.failed = nav.failed
    BY <1>a, <1>1, GotoFacts DEF NavPhase
  <2>2. \A m : Heard(m)' = Heard(m)
    BY <1>b, <2>1, SameWanted
  <2>3. FailInv' /\ StillInv' /\ GuessInv'
    BY <1>a, <1>b, <1>c, <2>1, <2>2 DEF FailInv, StillInv, GuessInv
  <2> QED BY <1>a, <1>b, <2>1, <2>3, NavStep
<1>2. CASE nav' # Goto("ask")
  <2> DEFINE kept == {h \in nav.hits : h[1] # "csharp"}
             failed == nav.failed \cup {<<"ask", "csharp">>}
  <2>1. nav' = [nav EXCEPT !.phase = "ask", !.hits = kept, !.failed = failed]
    BY <1>2, <1>a DEF FindAnchor, Step, NavRecord
  <2>2. kept \in SUBSET nav.hits /\ failed \in SUBSET ({"ask", "guess"} \X ide)
    BY <1>a, <1>b
  <2>3. /\ \A m, x : <<m, x>> \in kept <=> <<m, x>> \in nav.hits /\ m # "csharp"
        /\ \A p, m : <<p, m>> \in failed
                       <=> <<p, m>> \in nav.failed \/ (p = "ask" /\ m = "csharp")
    OBVIOUS
  <2> HIDE DEF kept, failed
  <2>4. failed \in SUBSET ({"ask", "guess"} \X Language) /\ kept \in SUBSET (Language \X Place)
    BY <1>a, <2>2
  <2>5. /\ nav' \in NavRecord /\ nav'.phase = "ask" /\ nav'.rest = nav.rest
        /\ nav'.hits = kept /\ nav'.failed = failed
    BY <1>a, <2>1, <2>4 DEF NavRecord, NavPhase
  <2>6. \A m : Heard(m)' <=> Heard(m) /\ m # "csharp"
    BY <1>c, <2>3, <2>5 DEF Heard
  <2>7. FailInv'
    BY <1>a, <1>b, <2>3, <2>5 DEF FailInv
  <2>8. StillInv'
    <3> SUFFICES ASSUME edits = 0, shifts = 0
        PROVE  /\ ~LineThere
               /\ \A m \in Language, x \in Place :
                    <<m, x>> \in kept <=> m \notin nav.rest /\ Heard(m)' /\ x \in Answer(m)
      BY <1>c, <2>5 DEF StillInv
    <3>1. /\ ~LineThere
          /\ \A m \in Language, x \in Place :
               <<m, x>> \in nav.hits <=> m \notin nav.rest /\ Heard(m) /\ x \in Answer(m)
      BY <1>a, <1>b DEF StillInv
    <3> QED BY <2>3, <2>6, <3>1
  <2>9. GuessInv'
    BY <1>a, <1>b, <1>c, <2>2, <2>5 DEF GuessInv
  <2> QED BY <1>a, <1>b, <2>2, <2>5, <2>7, <2>8, <2>9, NavStep
<1> QED BY <1>1, <1>2

\* A resolver throws an exception, in either pass.
LEMMA Fails == ASSUME NavInv, NEW l \in Language, Fail(l) PROVE NavInv'
<1>a. /\ NavTypeOK /\ nav \in NavRecord /\ FailInv /\ StillInv /\ GuessInv
      /\ nav.rest \subseteq ide /\ nav.hits \in SUBSET (ide \X Place)
      /\ nav.failed \in SUBSET ({"ask", "guess"} \X ide) /\ ide \subseteq Language
  BY NavFacts
<1>b. PICK phase \in {"ask", "guess"} :
        Step(phase, [nav EXCEPT !.rest = @ \ {l}, !.failed = @ \cup {<<phase, l>>}])
  BY DEF Fail
<1>c. l \in nav.rest /\ nav.phase = phase /\ UNCHANGED <<navWorld, opened>>
  BY <1>b DEF Fail, Step
<1>d. UNCHANGED <<ide, project, edits, shifts>>
      /\ \A m : Declared(m)' = Declared(m) /\ Answer(m)' = Answer(m)
      /\ LineThere' = LineThere /\ Guess' = Guess
  BY <1>c, SameWorld DEF navWorld
<1> DEFINE rest == nav.rest \ {l}
           failed == nav.failed \cup {<<phase, l>>}
<1>1. nav' = [nav EXCEPT !.rest = rest, !.failed = failed]
  BY <1>a, <1>b DEF Step, NavRecord
<1>2. /\ rest \in SUBSET nav.rest /\ \A m : m \in rest <=> m \in nav.rest /\ m # l
      /\ \A p, m : <<p, m>> \in failed <=> <<p, m>> \in nav.failed \/ (p = phase /\ m = l)
  OBVIOUS
<1>3. failed \in SUBSET ({"ask", "guess"} \X ide)
  BY <1>a, <1>c
<1> HIDE DEF rest, failed
<1>4. /\ nav' \in NavRecord /\ nav'.phase = phase /\ nav'.rest = rest
      /\ nav'.hits = nav.hits /\ nav'.failed = failed
  <2>1. failed \in SUBSET ({"ask", "guess"} \X Language) /\ rest \in SUBSET Language
    BY <1>a, <1>2, <1>3
  <2> QED BY <1>a, <1>c, <1>1, <2>1 DEF NavRecord
<1>5. \A m : Heard(m)' <=> Heard(m) /\ ~(phase = "ask" /\ m = l)
  BY <1>d, <1>2, <1>4 DEF Heard
<1>6. FailInv'
  BY <1>a, <1>c, <1>2, <1>4 DEF FailInv
<1>7. StillInv'
  <2>1. CASE phase = "ask"
    BY <1>a, <1>c, <1>d, <1>2, <1>4, <1>5, <2>1 DEF StillInv
  <2>2. CASE phase = "guess"
    <3> SUFFICES ASSUME edits = 0, shifts = 0
        PROVE  /\ ~LineThere /\ \A m \in Language : Heard(m)' => Answer(m) = {}
               /\ \A m \in Language, x \in Place :
                    <<m, x>> \in nav.hits <=> /\ m = "java" /\ m \in ide \ rest
                                              /\ <<"guess", m>> \notin failed /\ x \in Guess
      BY <1>d, <1>4, <2>2 DEF StillInv
    <3>1. /\ ~LineThere /\ \A m \in Language : Heard(m) => Answer(m) = {}
          /\ \A m \in Language, x \in Place :
               <<m, x>> \in nav.hits <=> /\ m = "java" /\ m \in ide \ nav.rest
                                         /\ <<"guess", m>> \notin nav.failed /\ x \in Guess
      BY <1>a, <1>c, <2>2 DEF StillInv
    <3> QED BY <1>c, <1>2, <1>5, <2>2, <3>1
  <2> QED BY <2>1, <2>2
<1>8. GuessInv'
  BY <1>a, <1>c, <1>d, <1>4 DEF GuessInv
<1> QED BY <1>a, <1>c, <1>2, <1>3, <1>4, <1>6, <1>7, <1>8, NavStep

\* The one hit of a pass is found.
LEMMA OneFound ==
  ASSUME NavInv, nav' = FoundOnly, nav.phase \in {"ask", "guess"}, UNCHANGED <<navWorld, opened>>,
         edits = 0 /\ shifts = 0 =>
           /\ \A l \in Language, x \in Place : nav.hits = {<<l, x>>} => Wanted = {x}
           /\ (nav.hits = {} \/ \E g, h \in nav.hits : g # h) => Wanted = {},
         edits = 0 => \A l \in Language, x \in Place : nav.hits = {<<l, x>>} =>
                        /\ x \in Classes => Declared("java") = {}
                        /\ shifts = 0 => x \in Answer(l) \cup TableAnchor
  PROVE  NavInv'
<1>a. /\ NavTypeOK /\ nav \in NavRecord /\ FailInv /\ StillInv /\ GuessInv
      /\ nav.rest \subseteq ide /\ nav.hits \in SUBSET (ide \X Place)
      /\ nav.failed \in SUBSET ({"ask", "guess"} \X ide) /\ ide \subseteq Language
      /\ opened = Nowhere /\ nav.phase # "over"
  BY NavFacts DEF NavInv
<1>b. UNCHANGED <<ide, project, edits, shifts>> /\ Classes' = Classes
      /\ \A m : Declared(m)' = Declared(m)
  BY SameWorld DEF navWorld
<1>1. CASE FoundOnly = Goto("over") /\ (nav.hits = {} \/ \E g, h \in nav.hits : g # h)
  <2>1. /\ nav' \in NavRecord /\ nav'.phase = "over" /\ nav'.rest = nav.rest
        /\ nav'.hits = nav.hits /\ nav'.failed = nav.failed
    BY <1>a, <1>1, GotoFacts DEF NavPhase
  <2>2. edits = 0 /\ shifts = 0 => Wanted' = {}
    BY <1>1, <2>1, SameWanted
  <2>3. Nowhere \notin Classes
    BY <1>a, TableFacts, NavigationAssumption
  <2>4. FailInv' /\ StillInv' /\ GuessInv'
    BY <1>a, <1>b, <2>1, <2>2, <2>3 DEF FailInv, StillInv, GuessInv
  <2> QED BY <1>a, <2>1, <2>4, NavStep
<1>2. ASSUME NEW l \in Language, NEW x \in Place, nav.hits = {<<l, x>>}, FoundOnly = Found(x)
      PROVE  NavInv'
  <2>1. /\ nav' \in NavRecord /\ nav'.phase = "found" /\ nav'.rest = nav.rest
        /\ nav'.hits = nav.hits /\ nav'.failed = nav.failed /\ nav'.target = x
    BY <1>a, <1>2, FoundFacts
  <2>2. edits = 0 /\ shifts = 0 => Wanted' = {x}
    BY <1>2, <2>1, SameWanted
  <2>3. edits = 0 /\ shifts = 0 => CanNavigate'
    <3> SUFFICES ASSUME edits = 0, shifts = 0 PROVE CanNavigate'
      OBVIOUS
    <3>1. x \in Declared(l) \cup Classes
      BY <1>a, <1>2, DeclaredFacts, TableFacts
    <3>2. \/ x \in project.entities \cup project.repositories \cup project.inherited
          \/ x \in project.declared[l]
      BY <3>1 DEF Declared, Classes
    <3>3. x # "line"
      BY NavigationAssumption
    <3> QED BY <1>b, <2>1, <3>2, <3>3 DEF CanNavigate
  <2>4. x # Nowhere
    BY NavigationAssumption
  <2>5. FailInv' /\ StillInv' /\ GuessInv'
    BY <1>a, <1>b, <1>2, <2>1, <2>2, <2>3, <2>4 DEF FailInv, StillInv, GuessInv
  <2> QED BY <1>a, <2>1, <2>5, NavStep
<1> QED BY <1>a, <1>1, <1>2, FoundOnlyFacts

\* Every resolver of the first pass has been asked or has failed.
LEMMA EndsAsk == ASSUME NavInv, EndAsk PROVE NavInv'
<1>a. /\ NavTypeOK /\ nav \in NavRecord /\ FailInv /\ StillInv /\ GuessInv
      /\ nav.rest \subseteq ide /\ nav.hits \in SUBSET (ide \X Place)
      /\ nav.failed \in SUBSET ({"ask", "guess"} \X ide) /\ ide \subseteq Language
  BY NavFacts
<1>b. nav.phase = "ask" /\ nav.rest = {} /\ UNCHANGED <<navWorld, opened>>
  BY DEF EndAsk, Step
<1>1. CASE nav.hits = {}
  <2>1. /\ nav' \in NavRecord /\ nav'.phase = "guess" /\ nav'.rest = ide /\ nav'.hits = {}
        /\ nav'.failed = nav.failed
    <3>1. nav' = AskAll("guess")
      BY <1>1 DEF EndAsk, Step
    <3> QED BY <1>a, <3>1, AskAllFacts
  <2>2. UNCHANGED <<ide, project, edits, shifts>> /\ LineThere' = LineThere
        /\ \A m : Answer(m)' = Answer(m) /\ Heard(m)' = Heard(m)
    BY <1>b, <2>1, SameWorld, SameWanted DEF navWorld
  <2>3. FailInv'
    BY <1>a, <1>b, <2>1 DEF FailInv
  <2>4. StillInv'
    <3> SUFFICES ASSUME edits = 0, shifts = 0
        PROVE  ~LineThere /\ \A m \in Language : Heard(m) => Answer(m) = {}
      BY <2>1, <2>2 DEF StillInv
    <3>1. /\ ~LineThere
          /\ \A m \in Language, x \in Place :
               <<m, x>> \in nav.hits <=> m \notin nav.rest /\ Heard(m) /\ x \in Answer(m)
      BY <1>a, <1>b DEF StillInv
    <3>2. \A m \in Language : Answer(m) \in SUBSET Place
      BY <1>a, DeclaredFacts
    <3> QED BY <1>1, <1>b, <3>1, <3>2
  <2>5. GuessInv'
    BY <1>a, <2>1, <2>2 DEF GuessInv
  <2> QED BY <1>a, <1>b, <2>1, <2>3, <2>4, <2>5, NavStep
<1>2. CASE nav.hits # {}
  <2>1. nav' = FoundOnly
    BY <1>2 DEF EndAsk, Step
  <2>2. edits = 0 /\ shifts = 0 =>
          /\ \A l \in Language, x \in Place : nav.hits = {<<l, x>>} => Wanted = {x}
          /\ (nav.hits = {} \/ \E g, h \in nav.hits : g # h) => Wanted = {}
    BY <1>b, <1>2, AskedWanted
  <2>3. ASSUME edits = 0, NEW l \in Language, NEW x \in Place, nav.hits = {<<l, x>>}
        PROVE  x \notin Classes /\ (shifts = 0 => x \in Answer(l) \cup TableAnchor)
    <3>1. <<l, x>>[1] = l /\ <<l, x>>[2] = x /\ <<l, x>> \in nav.hits
      BY <2>3
    <3>2. x \in Declared(l) /\ project \in Project
      BY <1>a, <1>b, <2>3, <3>1 DEF GuessInv
    <3>3. shifts = 0 => x \in Answer(l)
      BY <1>a, <1>b, <2>3, <3>1 DEF StillInv
    <3> QED BY <1>a, <3>2, <3>3, NoClass
  <2> QED BY <1>b, <2>1, <2>2, <2>3, OneFound
<1> QED BY <1>1, <1>2

\* A fallback answers: Java's guess, or nothing.
LEMMA AsksFallback == ASSUME NavInv, NEW l \in Language, AskFallback(l) PROVE NavInv'
<1>a. /\ NavTypeOK /\ nav \in NavRecord /\ FailInv /\ StillInv /\ GuessInv
      /\ nav.rest \subseteq ide /\ nav.hits \in SUBSET (ide \X Place)
      /\ nav.failed \in SUBSET ({"ask", "guess"} \X ide) /\ ide \subseteq Language
  BY NavFacts
<1> DEFINE guessed == IF l = "java" THEN Guess ELSE {}
           r == Asked(l, guessed)
<1>b. /\ nav.phase = "guess" /\ l \in nav.rest /\ l \in ide /\ nav' = r
      /\ UNCHANGED <<navWorld, opened>>
  BY <1>a DEF AskFallback, Step
<1>c. /\ guessed \in SUBSET Place
      /\ guessed # {} => Declared("java") = {}
      /\ \A x : x \in guessed <=> l = "java" /\ x \in Guess
  BY <1>a, GuessFacts
<1> HIDE DEF guessed
<1>1. /\ r \in NavRecord /\ r.phase = "guess" /\ r.rest = nav.rest \ {l} /\ r.failed = nav.failed
      /\ \A m, x : <<m, x>> \in r.hits <=> <<m, x>> \in nav.hits \/ (m = l /\ x \in guessed)
      /\ r.hits \subseteq nav.hits \cup ({l} \X guessed)
  BY <1>a, <1>b, <1>c, AskedFacts
<1> HIDE DEF r
<1>2. UNCHANGED <<ide, project, edits, shifts>> /\ LineThere' = LineThere /\ Guess' = Guess
      /\ \A m : Declared(m)' = Declared(m) /\ Answer(m)' = Answer(m) /\ Heard(m)' = Heard(m)
  BY <1>b, <1>1, SameWorld, SameWanted DEF navWorld
<1>3. FailInv'
  BY <1>a, <1>b, <1>1 DEF FailInv
<1>4. StillInv'
  <2> SUFFICES ASSUME edits = 0, shifts = 0
      PROVE  /\ ~LineThere /\ \A m \in Language : Heard(m) => Answer(m) = {}
             /\ \A m \in Language, x \in Place :
                  <<m, x>> \in r.hits <=> /\ m = "java" /\ m \in ide \ r.rest
                                          /\ <<"guess", m>> \notin nav.failed /\ x \in Guess
    BY <1>b, <1>1, <1>2 DEF StillInv
  <2>1. /\ ~LineThere /\ \A m \in Language : Heard(m) => Answer(m) = {}
        /\ \A m \in Language, x \in Place :
             <<m, x>> \in nav.hits <=> /\ m = "java" /\ m \in ide \ nav.rest
                                       /\ <<"guess", m>> \notin nav.failed /\ x \in Guess
    BY <1>a, <1>b DEF StillInv
  <2>2. <<"guess", l>> \notin nav.failed
    BY <1>a, <1>b DEF FailInv
  <2> QED BY <1>b, <1>c, <1>1, <2>1, <2>2
<1>5. GuessInv'
  <2>1. edits = 0 /\ r.hits # {} => Declared("java") = {}
    <3>1. r.hits # {} => nav.hits # {} \/ guessed # {}
      BY <1>1
    <3> QED BY <1>a, <1>b, <1>c, <3>1 DEF GuessInv
  <2> QED BY <1>a, <1>b, <1>1, <1>2, <2>1 DEF GuessInv
<1>6. r.hits \in SUBSET (ide \X Place)
  BY <1>a, <1>b, <1>c, <1>1
<1>7. r.rest \subseteq ide
  BY <1>a, <1>1
<1> QED BY <1>a, <1>b, <1>1, <1>3, <1>4, <1>5, <1>6, <1>7, NavStep

LEMMA EndsGuess == ASSUME NavInv, EndGuess PROVE NavInv'
<1>a. /\ NavTypeOK /\ nav \in NavRecord /\ FailInv /\ StillInv /\ GuessInv
      /\ ide \subseteq Language
  BY NavFacts
<1>b. /\ nav.phase = "guess" /\ nav.rest = {} /\ nav' = FoundOnly
      /\ UNCHANGED <<navWorld, opened>>
  BY DEF EndGuess, Step
<1>1. edits = 0 /\ shifts = 0 =>
        /\ \A l \in Language, x \in Place : nav.hits = {<<l, x>>} => Wanted = {x}
        /\ (nav.hits = {} \/ \E g, h \in nav.hits : g # h) => Wanted = {}
  BY <1>b, GuessedWanted
<1>2. ASSUME edits = 0, NEW l \in Language, NEW x \in Place, nav.hits = {<<l, x>>}
      PROVE  Declared("java") = {} /\ (shifts = 0 => x \in Answer(l) \cup TableAnchor)
  <2>1. Declared("java") = {}
    BY <1>a, <1>b, <1>2 DEF GuessInv
  <2>2. <<l, x>> \in nav.hits
    BY <1>2
  <2>3. shifts = 0 => x \in Guess
    BY <1>a, <1>b, <1>2, <2>2 DEF StillInv
  <2>4. Guess \subseteq TableAnchor
    BY <1>a, GuessFacts
  <2> QED BY <2>1, <2>3, <2>4
<1> QED BY <1>b, <1>1, <1>2, OneFound

\* The navigation ends without a result.
LEMMA Aborts ==
  ASSUME NavInv, nav' = Goto("aborted"), UnderWay, UNCHANGED <<navWorld, opened>>
  PROVE  NavInv'
<1>a. /\ NavTypeOK /\ nav \in NavRecord /\ FailInv /\ StillInv /\ GuessInv
      /\ nav.rest \subseteq ide /\ nav.hits \in SUBSET (ide \X Place)
      /\ nav.failed \in SUBSET ({"ask", "guess"} \X ide) /\ nav.phase # "over"
  BY NavFacts DEF UnderWay
<1>1. /\ nav' \in NavRecord /\ nav'.phase = "aborted" /\ nav'.rest = nav.rest
      /\ nav'.hits = nav.hits /\ nav'.failed = nav.failed
  BY <1>a, GotoFacts DEF NavPhase
<1>2. FailInv' /\ StillInv' /\ GuessInv'
  BY <1>a, <1>1 DEF FailInv, StillInv, GuessInv, navWorld
<1> QED BY <1>a, <1>1, <1>2, NavStep

LEMMA Opens == ASSUME NavInv, Open PROVE NavInv'
<1>a. /\ NavTypeOK /\ nav \in NavRecord /\ FailInv /\ StillInv /\ GuessInv
      /\ nav.phase = "found" /\ opened = Nowhere
      /\ opened' = IF CanNavigate THEN nav.target ELSE opened
  BY NavFacts DEF Open, NavInv
<1>1. /\ nav' \in NavRecord /\ nav'.phase = "over" /\ nav'.rest = nav.rest
      /\ nav'.hits = nav.hits /\ nav'.failed = nav.failed /\ nav'.target = nav.target
      /\ UNCHANGED navWorld
  BY <1>a, GotoFacts DEF Open, NavPhase
<1>2. UNCHANGED <<ide, project, finding, smart, edits, shifts>>
  BY <1>1 DEF navWorld
<1>3. Wanted' = Wanted /\ Classes' = Classes /\ \A m : Declared(m)' = Declared(m)
  BY <1>1, SameWorld, SameWanted
<1>4. NavTypeOK'
  BY <1>a, <1>1, <1>2 DEF NavTypeOK, NavRecord, NavPhase
<1>5. Nowhere \notin Classes
  BY <1>a, TableFacts, NavigationAssumption
<1>6. FailInv' /\ StillInv' /\ GuessInv'
  BY <1>a, <1>1, <1>2, <1>3, <1>5 DEF FailInv, StillInv, GuessInv
<1> QED BY <1>1, <1>4, <1>6 DEF NavInv

LEMMA Edits == ASSUME NavInv, Edit PROVE NavInv'
<1>a. NavTypeOK /\ nav \in NavRecord /\ FailInv
  BY NavFacts
<1>b. UNCHANGED <<ide, finding, smart, nav, opened, shifts>> /\ edits' = edits + 1
      /\ edits < MaxEdits
  BY DEF Edit
<1>1. project' \in Content
  <2>1. project \in Content
    BY <1>a DEF NavTypeOK
  <2>2. CASE \E file \in {"absent", "short", "fits"} : project' = [project EXCEPT !.file = file]
    BY <2>1, <2>2 DEF Content
  <2>3. CASE \E l \in ide, s \in Place :
               project' = [project EXCEPT !.declared[l] = IF s \in @ THEN @ \ {s} ELSE @ \cup {s}]
    <3>1. PICK l \in ide, s \in Place :
            project' = [project EXCEPT !.declared[l] = IF s \in @ THEN @ \ {s} ELSE @ \cup {s}]
      BY <2>3
    <3> DEFINE now == IF s \in project.declared[l] THEN project.declared[l] \ {s}
                      ELSE project.declared[l] \cup {s}
               all == [project.declared EXCEPT ![l] = now]
    <3>2. project.declared \in [Language -> SUBSET Place]
      BY <2>1 DEF Content
    <3>3. l \in Language
      BY <1>a, ContentFacts
    <3>4. now \in SUBSET Place
      BY <3>2, <3>3
    <3>5. project' = [project EXCEPT !.declared = all]
      BY <3>1
    <3> HIDE DEF now
    <3>6. all \in [Language -> SUBSET Place]
      BY <3>2, <3>4
    <3> HIDE DEF all
    <3> QED BY <2>1, <3>5, <3>6 DEF Content
  <2> QED BY <2>2, <2>3 DEF Edit
<1>2. edits' \in 0..MaxEdits /\ edits' # 0
  BY <1>a, <1>b, NavigationAssumption DEF NavTypeOK
<1>3. NavTypeOK'
  BY <1>a, <1>b, <1>1, <1>2 DEF NavTypeOK
<1>4. FailInv' /\ StillInv' /\ GuessInv'
  BY <1>a, <1>b, <1>2 DEF FailInv, StillInv, GuessInv
<1> QED BY <1>a, <1>b, <1>3, <1>4 DEF NavInv

LEMMA Shifts == ASSUME NavInv, Shift PROVE NavInv'
<1>a. NavTypeOK /\ nav \in NavRecord /\ FailInv /\ GuessInv
  BY NavFacts
<1>b. UNCHANGED <<ide, project, finding, nav, opened, edits>> /\ shifts' = shifts + 1
      /\ shifts < MaxShifts /\ smart' = ~smart
  BY DEF Shift
<1>1. shifts' \in 0..MaxShifts /\ shifts' # 0 /\ smart' \in BOOLEAN
  BY <1>a, <1>b, NavigationAssumption DEF NavTypeOK
<1>2. NavTypeOK'
  BY <1>a, <1>b, <1>1 DEF NavTypeOK
<1>3. \A l : Declared(l)' = Declared(l)
  BY <1>b DEF Declared, Named
<1>4. FailInv' /\ StillInv' /\ GuessInv'
  BY <1>a, <1>b, <1>1, <1>3 DEF FailInv, StillInv, GuessInv, Classes
<1> QED BY <1>a, <1>b, <1>2, <1>4 DEF NavInv

LEMMA NextNavInv == NavInv /\ [NavNext]_navVars => NavInv'
<1> SUFFICES ASSUME NavInv, [NavNext]_navVars PROVE NavInv'
  OBVIOUS
<1>1. CASE FindFile \/ ReadLine
  BY <1>1, LooksForFile
<1>2. CASE AskBackend
  <2>1. CASE Answer("csharp") = {}
    <3>1. nav' = Asked("csharp", Answer("csharp"))
      <4>1. Asked("csharp", Answer("csharp")).phase = "ask"
        BY <1>2, NavFacts, DeclaredFacts, AskedFacts DEF AskBackend, Step
      <4>2. Asked("csharp", Answer("csharp")) \in NavRecord
        BY <1>2, NavFacts, DeclaredFacts, AskedFacts DEF AskBackend, Step
      <4> DEFINE r == Asked("csharp", Answer("csharp"))
      <4>3. nav' = [r EXCEPT !.phase = "ask"]
        BY <1>2, <2>1 DEF AskBackend, Step
      <4> HIDE DEF r
      <4>4. r = [r EXCEPT !.phase = "ask"]
        BY <4>1, <4>2 DEF r, NavRecord
      <4> QED BY <4>3, <4>4 DEF r
    <3> QED BY <1>2, <3>1, Answers DEF AskBackend, Step
  <2>2. CASE Answer("csharp") # {}
    BY <1>2, <2>2, Answers DEF AskBackend, Step
  <2> QED BY <2>1, <2>2
<1>3. CASE InterruptBackend \/ Abort \/ Close
  <2>1. nav' = Goto("aborted") /\ UnderWay /\ UNCHANGED <<navWorld, opened>>
    BY <1>3 DEF InterruptBackend, Abort, Close, UnderWay, Step
  <2> QED BY <2>1, Aborts
<1>4. CASE FindAnchor
  BY <1>4, AnchorLookedFor
<1>5. CASE EndAsk
  BY <1>5, EndsAsk
<1>6. CASE EndGuess
  BY <1>6, EndsGuess
<1>7. CASE Open
  BY <1>7, Opens
<1>8. CASE Edit
  BY <1>8, Edits
<1>9. CASE Shift
  BY <1>9, Shifts
<1>10. ASSUME NEW l \in Language, Ask(l) PROVE NavInv'
  BY <1>10, Answers DEF Ask, Step
<1>11. ASSUME NEW l \in Language, Fail(l) PROVE NavInv'
  BY <1>11, Fails
<1>12. ASSUME NEW l \in Language, AskFallback(l) PROVE NavInv'
  BY <1>12, AsksFallback
<1>13. CASE UNCHANGED navVars
  <2>1. UNCHANGED <<ide, project, finding, smart, nav, opened, edits, shifts>>
    BY <1>13 DEF navVars
  <2>2. UNCHANGED navWorld
    BY <2>1 DEF navWorld
  <2>3. /\ \A l : Declared(l)' = Declared(l) /\ Answer(l)' = Answer(l) /\ Heard(l)' = Heard(l)
        /\ Guess' = Guess /\ Classes' = Classes /\ LineThere' = LineThere /\ Wanted' = Wanted
    BY <2>1, <2>2, SameWorld, SameWanted
  <2>4. NavTypeOK' /\ FailInv'
    BY <2>1, NavFacts DEF NavTypeOK, FailInv
  <2>5. CanNavigate' = CanNavigate
    BY <2>1 DEF CanNavigate
  <2>6. StillInv' /\ GuessInv'
    BY <2>1, <2>3, <2>5, NavFacts DEF StillInv, GuessInv
  <2> QED BY <2>1, <2>4, <2>6 DEF NavInv
<1> QED BY <1>1, <1>2, <1>3, <1>4, <1>5, <1>6, <1>7, <1>8, <1>9, <1>10, <1>11, <1>12, <1>13
        DEF NavNext

\* The inductive invariant of the navigation.
LEMMA NavInvariant == NavSpec => []NavInv
BY InitNavInv, NextNavInv, PTL DEF NavSpec

\* Every variable of the navigation keeps its type, for any languages, projects and findings.
THEOREM NavTypeCorrect == NavSpec => []NavTypeOK
<1>1. NavInv => NavTypeOK
  BY DEF NavInv
<1> QED BY <1>1, NavInvariant, PTL

\* DirectAnchorResolver.kt:44: whatever resolvers there are, in whatever order they are asked and
\* whichever of them fail, a navigation the project holds still for opens the line, or the only
\* declaration put forward, or the table's class, and nothing where there are two; and while
\* only the index comes and goes it guesses no class where Java has a method of that name.
THEOREM OnlyTargetOpened == NavSpec => []OpensTheOnly
<1>1. NavInv => OpensTheOnly
  BY DEF NavInv, StillInv, GuessInv, OpensTheOnly, Classes
<1> QED BY <1>1, NavInvariant, PTL
=============================================================================
