------------------------------ MODULE Watchers ------------------------------
(***************************************************************************)
(* Who listens to FINDINGS_TOPIC: the highlighter of the open editors and  *)
(* the panel of the tool window, together with the startup activity that   *)
(* creates the one and the user who opens the other.                       *)
(*                                                                         *)
(* Each action marked EDT is one event of the event dispatch thread, with  *)
(* every listener it calls.  The startup activity and the file lookup of a *)
(* highlight job run on other threads.  A refresh is what RefreshService   *)
(* guarantees of it: once asked for, it announces itself and then ends     *)
(* with a result, unless it is asked for again before.                     *)
(***************************************************************************)
EXTENDS Naturals

CONSTANTS File,      \* files findings point at
          OnDisk,    \* those that exist in the project
          Editor,    \* text editors, each opened once
          FileOf,    \* the file of an editor
          None,      \* no row selected, empty details
          Error,     \* the endpoints' errors, shown instead of findings
          MaxJobs,   \* bound: highlight jobs scheduled
          MaxRefreshes  \* bound: refreshes asked for by the user

ASSUME FileAssumption == OnDisk \subseteq File /\ FileOf \in [Editor -> File]
ASSUME TextAssumption == None \notin File /\ Error \notin File /\ None # Error
ASSUME BoundAssumption == MaxJobs \in Nat /\ MaxRefreshes \in Nat

VARIABLES state,      \* of the service: [findings, failed]
          refresh,    \* "none", "asked", "announced"
          asked,      \* refreshes asked for by the user
          startup,    \* "begun", "listening", "created", "done"
          editors,    \* "unopened", "opening" (fileOpened to come), "open", "closed"
          marks,      \* range highlighters an editor carries
          findings,   \* FindingHighlighter.findings
          tracked,    \* the keys of FindingHighlighter.highlighters
          job,        \* the highlight jobs, in the order they were scheduled
          scheduled,  \* how many: highlightJob is the last one
          disposed,   \* the project's services are disposed of
          panel       \* [shown, rows, selected, details]

highlighterVars == <<marks, findings, tracked, job, scheduled>>
vars == <<state, refresh, asked, startup, editors, highlighterVars, disposed, panel>>

Job == 1..MaxJobs

Init ==
  /\ state = [findings |-> {}, failed |-> FALSE]
  /\ refresh = "none" /\ asked = 0 /\ startup = "begun"
  /\ editors = [ed \in Editor |-> "unopened"]
  /\ marks = [ed \in Editor |-> 0]
  /\ findings = {} /\ tracked = {} /\ scheduled = 0
  /\ job = [j \in Job |-> [phase |-> "unborn", snapshot |-> {}]]
  /\ disposed = FALSE
  /\ panel = [shown |-> FALSE, rows |-> {}, selected |-> None, details |-> None]

InAllEditors(ed) == editors[ed] \in {"opening", "open"}
-----------------------------------------------------------------------------
(* The highlighter *)

\* Mutant: the previous job is not cancelled.
ScheduleBeside(now) ==
  /\ scheduled < MaxJobs
  /\ scheduled' = scheduled + 1
  /\ job' = [job EXCEPT ![scheduled'] = [phase |-> "launched", snapshot |-> now]]

\* scheduleHighlights: cancels the last job and launches one with the findings of now.  A
\* cancelled job does nothing more that shows: it is over here.
Schedule(now) ==
  /\ scheduled < MaxJobs
  /\ scheduled' = scheduled + 1
  /\ job' = [j \in Job |-> IF j = scheduled' THEN [phase |-> "launched", snapshot |-> now]
                           ELSE [job[j] EXCEPT !.phase = IF @ = "unborn" THEN @ ELSE "over"]]

\* withContext(Dispatchers.IO): the findings whose file is found.
Resolve(j) ==
  /\ job[j].phase = "launched"
  /\ job' = [job EXCEPT ![j].phase = "resolved", ![j].snapshot = @ \cap OnDisk]
  /\ UNCHANGED <<state, refresh, asked, startup, editors, marks, findings, tracked,
                 scheduled, disposed, panel>>

\* clearHighlights, for the editors that are not disposed of.
Cleared == [ed \in Editor |-> IF ed \in tracked /\ InAllEditors(ed) THEN 0 ELSE marks[ed]]

\* EDT: clears, then marks the open editors of the resolved files.
ApplyHighlights(j) ==
  LET hit == {ed \in Editor : InAllEditors(ed) /\ FileOf[ed] \in job[j].snapshot}
  IN /\ job[j].phase = "resolved"
     /\ marks' = [ed \in Editor |-> IF ed \in hit THEN Cleared[ed] + 1 ELSE Cleared[ed]]
     /\ tracked' = hit
     /\ job' = [job EXCEPT ![j].phase = "over"]
     /\ UNCHANGED <<state, refresh, asked, startup, editors, findings, scheduled, disposed,
                    panel>>

\* Mutant: a job at work is not cancelled.
DisposeBesideJob ==
  /\ ~disposed
  /\ disposed' = TRUE
  /\ marks' = Cleared /\ tracked' = {}
  /\ panel' = [panel EXCEPT !.shown = FALSE]
  /\ UNCHANGED <<state, refresh, asked, startup, editors, findings, job, scheduled>>

\* EDT: the project closes; its services are disposed of.
CloseProject ==
  /\ ~disposed
  /\ disposed' = TRUE
  /\ job' = [j \in Job |-> [job[j] EXCEPT !.phase = IF @ = "unborn" THEN @ ELSE "over"]]
  /\ marks' = Cleared /\ tracked' = {}
  /\ panel' = [panel EXCEPT !.shown = FALSE]
  /\ UNCHANGED <<state, refresh, asked, startup, editors, findings, scheduled>>
-----------------------------------------------------------------------------
(* The panel *)

\* Setting model.rows clears the selection, whose listener empties the details if there was
\* one; without rows the details show the errors.
Rendered(new) ==
  [panel EXCEPT !.rows = new.findings, !.selected = None,
                !.details = IF new.findings = {} THEN IF new.failed THEN Error ELSE None
                            ELSE IF panel.selected = None THEN @ ELSE None]

\* EDT: the user opens the tool window; the panel renders the service's state.
ShowPanel ==
  /\ ~panel.shown /\ ~disposed
  /\ panel' = [Rendered(state) EXCEPT !.shown = TRUE]
  /\ UNCHANGED <<state, refresh, asked, startup, editors, highlighterVars, disposed>>

\* EDT: a row is selected, showSelectedDetails.
Select ==
  /\ panel.shown
  /\ \E row \in panel.rows :
       panel' = [panel EXCEPT !.selected = row, !.details = row]
  /\ UNCHANGED <<state, refresh, asked, startup, editors, highlighterVars, disposed>>
-----------------------------------------------------------------------------
(* The service *)

\* EDT: publish stores the state and calls the listeners there are.
Publish(new) ==
  /\ ~disposed
  /\ state' = new
  /\ IF startup = "begun" THEN UNCHANGED highlighterVars
     ELSE findings' = new.findings /\ Schedule(new.findings) /\ UNCHANGED <<marks, tracked>>
  /\ panel' = IF panel.shown THEN Rendered(new) ELSE panel
  /\ UNCHANGED <<asked, startup, editors, disposed>>

\* An announcing refresh carries findings and errors over, but not those of an endpoint that
\* left the settings, nor those of another service.
Announce ==
  /\ refresh = "asked" /\ refresh' = "announced"
  /\ \E kept \in SUBSET state.findings, failed \in {state.failed, FALSE} :
       Publish([findings |-> kept, failed |-> failed])

PublishResult ==
  /\ refresh = "announced" /\ refresh' = "none"
  /\ \E found \in SUBSET File, failed \in BOOLEAN :
       Publish([findings |-> found, failed |-> failed])

\* The Refresh button, in a panel the user has opened.
ClickRefresh ==
  /\ panel.shown /\ asked < MaxRefreshes
  /\ asked' = asked + 1 /\ refresh' = "asked"
  /\ UNCHANGED <<state, startup, editors, highlighterVars, disposed, panel>>
-----------------------------------------------------------------------------
(* PerfSentinelStartupActivity, on its own thread *)

\* project.service<FindingHighlighter>(): its init subscribes to the topic ...
SubscribeFindings ==
  /\ startup = "begun" /\ ~disposed
  /\ startup' = "listening"
  /\ UNCHANGED <<state, refresh, asked, editors, highlighterVars, disposed, panel>>

\* ... and then to the editors.
SubscribeEditors ==
  /\ startup = "listening" /\ ~disposed
  /\ startup' = "created"
  /\ UNCHANGED <<state, refresh, asked, editors, highlighterVars, disposed, panel>>

FirstRefresh ==
  /\ startup = "created" /\ ~disposed
  /\ startup' = "done" /\ refresh' = "asked"
  /\ UNCHANGED <<state, asked, editors, highlighterVars, disposed, panel>>
-----------------------------------------------------------------------------
(* The editors *)

\* EDT: an editor is there before its fileOpened event.
OpenEditor(ed) ==
  /\ editors[ed] = "unopened" /\ ~disposed
  /\ editors' = [editors EXCEPT ![ed] = "opening"]
  /\ UNCHANGED <<state, refresh, asked, startup, highlighterVars, disposed, panel>>

\* Mutant: the highlighter only looks at editors when findings change.
IgnoreOpened(ed) ==
  /\ editors[ed] = "opening"
  /\ editors' = [editors EXCEPT ![ed] = "open"]
  /\ UNCHANGED <<state, refresh, asked, startup, highlighterVars, disposed, panel>>

\* EDT: fileOpened.
FileOpened(ed) ==
  /\ editors[ed] = "opening"
  /\ editors' = [editors EXCEPT ![ed] = "open"]
  /\ IF startup \in {"created", "done"} /\ ~disposed
       THEN Schedule(findings) /\ UNCHANGED <<marks, findings, tracked>>
       ELSE UNCHANGED highlighterVars
  /\ UNCHANGED <<state, refresh, asked, startup, disposed, panel>>

\* EDT: the editor goes with its marks; the highlighter is not told.
CloseEditor(ed) ==
  /\ editors[ed] = "open"
  /\ editors' = [editors EXCEPT ![ed] = "closed"]
  /\ marks' = [marks EXCEPT ![ed] = 0]
  /\ UNCHANGED <<state, refresh, asked, startup, findings, tracked, job, scheduled, disposed,
                 panel>>

Startup == SubscribeFindings \/ SubscribeEditors \/ FirstRefresh
Refreshing == Announce \/ PublishResult
JobStep(j) == Resolve(j) \/ ApplyHighlights(j)

Next == \/ Startup \/ Refreshing \/ ClickRefresh \/ ShowPanel \/ Select \/ CloseProject
        \/ \E j \in Job : JobStep(j)
        \/ \E ed \in Editor : OpenEditor(ed) \/ FileOpened(ed) \/ CloseEditor(ed)

Spec == Init /\ [][Next]_vars

\* The startup activity and a highlight job go on, a refresh ends, an event is delivered.
Fairness == /\ WF_vars(Startup) /\ WF_vars(Refreshing)
            /\ \A j \in Job : WF_vars(JobStep(j))
            /\ \A ed \in Editor : WF_vars(FileOpened(ed))

FairSpec == Spec /\ Fairness
-----------------------------------------------------------------------------
TypeOK ==
  /\ state \in [findings : SUBSET File, failed : BOOLEAN]
  /\ refresh \in {"none", "asked", "announced"} /\ asked \in 0..MaxRefreshes
  /\ startup \in {"begun", "listening", "created", "done"}
  /\ editors \in [Editor -> {"unopened", "opening", "open", "closed"}]
  /\ marks \in [Editor -> 0..1]
  /\ findings \subseteq File /\ tracked \subseteq Editor
  /\ job \in [Job -> [phase : {"unborn", "launched", "resolved", "over"},
                      snapshot : SUBSET File]]
  /\ scheduled \in 0..MaxJobs
  /\ disposed \in BOOLEAN
  /\ panel \in [shown : BOOLEAN, rows : SUBSET File, selected : File \cup {None},
                details : File \cup {None, Error}]

Quiet == /\ startup = "done" /\ refresh = "none" /\ ~disposed
         /\ \A j \in Job : job[j].phase \in {"unborn", "over"}
         /\ \A ed \in Editor : editors[ed] # "opening"

\* When nothing is under way, exactly the open editors of files with findings are marked,
\* whatever was opened, published or cancelled meanwhile, the events before the highlighter
\* listened included.  The details, at any time, are about the selected row, a finding the
\* service still shows.
ViewsMatchFindings ==
  /\ Quiet => \A ed \in Editor : editors[ed] = "open" =>
                (marks[ed] = 1 <=> FileOf[ed] \in state.findings \cap OnDisk)
  /\ panel.shown /\ panel.details \in File =>
       panel.details = panel.selected /\ panel.selected \in state.findings

\* The highlighter can remove every mark it has set, none is left behind or set twice, and
\* after the project is closed no late highlight job marks an editor again.
NoStrayMark ==
  \A ed \in Editor :
    /\ marks[ed] = IF ed \in tracked /\ InAllEditors(ed) THEN 1 ELSE 0
    /\ disposed => marks[ed] = 0

\* A finding in an open editor is marked in the end, unless it goes or the editor does.
FindingGetsMarked ==
  \A ed \in Editor :
    (/\ startup = "done" /\ refresh = "none" /\ editors[ed] = "open"
     /\ FileOf[ed] \in state.findings \cap OnDisk)
    ~> (\/ marks[ed] = 1 \/ editors[ed] = "closed" \/ disposed
        \/ FileOf[ed] \notin state.findings)
=============================================================================
