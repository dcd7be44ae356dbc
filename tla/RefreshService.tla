--------------------------- MODULE RefreshService ---------------------------
(***************************************************************************)
(* PerfSentinelProjectService.refresh() and what it shares.                *)
(*                                                                         *)
(* Threads.  The EDT runs one task at a time: a click on Refresh (refresh  *)
(* called by Edt), the settings dialog's apply, or the block of a job's    *)
(* publish.  The startup activity calls refresh once from a background     *)
(* thread.  Every call launches a coroutine, here a job, on a worker       *)
(* thread.  refreshJob is a plain field read and written by the callers    *)
(* without a lock; state is volatile and written on the EDT only.          *)
(*                                                                         *)
(* A cancelled job runs on to its next suspension point and there stops;   *)
(* what it does before that touches nothing shared, so here it only stops. *)
(* A publish block the EDT has started is not interrupted.                 *)
(***************************************************************************)
EXTENDS Snapshots

CONSTANTS Caller,        \* threads that call refresh()
          Edt,           \* the one that may call it again and again
          MaxRefreshes,  \* bound: calls of refresh() in a behaviour
          MaxChanges     \* bound: settings dialogs applied in a behaviour

ASSUME CallerAssumption == Edt \in Caller
ASSUME BoundAssumption == MaxRefreshes \in Nat /\ MaxChanges \in Nat

VARIABLES settings,    \* [endpoints, service]: PerfSentinelSettings, service name resolved
          applying,    \* the service update() has still to store, NoService outside update()
          state,       \* [refreshing, endpoints]: the volatile RefreshState
          refreshJob,  \* the field: a job, 0 for null
          pc, held,    \* per caller: where it is in refresh(), the job of its latest call
          job,         \* the coroutines, by order of the calls
          requested,   \* calls so far
          edtJob,      \* the job whose publish block the EDT runs, 0 for none
          clock,       \* System.currentTimeMillis()
          closed,      \* the project's coroutine scope is cancelled
          changes,     \* settings dialogs applied
          unrequested  \* history: settings changed since refresh() was last called

vars == <<settings, applying, state, refreshJob, pc, held, job, requested, edtJob,
          clock, closed, changes, unrequested>>

Job == 1..MaxRefreshes

Phase == {"unborn", "launched", "hasEndpoints", "hasSettings", "announcing",
          "fetching", "fetched", "done"}

JobRecord == [phase : Phase, cancelled : BOOLEAN,
              endpoints : SUBSET Endpoint, service : Service \cup {NoService},
              current : Boards, succeeded : SUBSET Endpoint, failed : SUBSET Endpoint,
              now : Nat]

Blank(phase, cancelled) ==
  [phase |-> phase, cancelled |-> cancelled, endpoints |-> {}, service |-> NoService,
   current |-> NoBoard, succeeded |-> {}, failed |-> {}, now |-> 0]

Live(j) == job[j].phase \notin {"unborn", "done"} /\ ~job[j].cancelled

EdtFree == edtJob = 0 /\ pc[Edt] = "idle" /\ applying = NoService

Init ==
  /\ settings \in [endpoints : SUBSET Endpoint \ {{}}, service : Service]
  /\ applying = NoService
  /\ state = [refreshing |-> FALSE, endpoints |-> NoBoard]
  /\ refreshJob = 0
  /\ pc = [c \in Caller |-> "idle"]
  /\ held = [c \in Caller |-> 0]
  /\ job = [j \in Job |-> Blank("unborn", FALSE)]
  /\ requested = 0
  /\ edtJob = 0
  /\ clock = 0
  /\ closed = FALSE
  /\ changes = 0
  /\ unrequested = FALSE
-----------------------------------------------------------------------------
(* refresh(), on the caller's thread *)

Cancelled(jobs, j) == IF j = 0 THEN jobs ELSE [jobs EXCEPT ![j].cancelled = TRUE]

\* refreshJob?.cancel().  The field is not volatile: the caller sees what it holds, or
\* still what it stored there itself.
CancelPrevious(c) ==
  /\ pc[c] = "idle"
  /\ c = Edt => EdtFree
  /\ requested < MaxRefreshes
  /\ \E previous \in {refreshJob, held[c]} : job' = Cancelled(job, previous)
  /\ requested' = requested + 1
  /\ held' = [held EXCEPT ![c] = requested']
  /\ pc' = [pc EXCEPT ![c] = "cancelled"]
  /\ unrequested' = FALSE
  /\ UNCHANGED <<settings, applying, state, refreshJob, edtJob, clock, closed, changes>>

\* coroutineScope.launch: the job may run before the field names it.
Launch(c) ==
  /\ pc[c] = "cancelled"
  /\ job' = [job EXCEPT ![held[c]] = Blank("launched", closed)]
  /\ pc' = [pc EXCEPT ![c] = "launched"]
  /\ UNCHANGED <<settings, applying, state, refreshJob, held, requested, edtJob, clock,
                 closed, changes, unrequested>>

\* refreshJob = the new job, and refresh() returns; the startup activity never calls again.
Assign(c) ==
  /\ pc[c] = "launched"
  /\ refreshJob' = held[c]
  /\ pc' = [pc EXCEPT ![c] = IF c = Edt THEN "idle" ELSE "returned"]
  /\ UNCHANGED <<settings, applying, state, held, job, requested, edtJob, clock, closed,
                 changes, unrequested>>
-----------------------------------------------------------------------------
(* The coroutine of one refresh *)

\* settings.snapshot() reads the two fields one after the other.
ReadEndpoints(j) ==
  /\ job[j].phase = "launched" /\ Live(j)
  /\ job' = [job EXCEPT ![j].phase = "hasEndpoints", ![j].endpoints = settings.endpoints]
  /\ UNCHANGED <<settings, applying, state, refreshJob, pc, held, requested, edtJob, clock,
                 closed, changes, unrequested>>

ReadService(j) ==
  /\ job[j].phase = "hasEndpoints" /\ Live(j)
  /\ job' = [job EXCEPT ![j].phase = "hasSettings", ![j].service = settings.service]
  /\ UNCHANGED <<settings, applying, state, refreshJob, pc, held, requested, edtJob, clock,
                 closed, changes, unrequested>>

\* Mutant: a refresh forgets the state before it.
ForgetPrevious(j) ==
  /\ job[j].phase = "hasSettings" /\ Live(j)
  /\ job' = [job EXCEPT ![j].phase = "announcing",
                        ![j].current = Carried(NoBoard, job[j].endpoints, job[j].service)]
  /\ UNCHANGED <<settings, applying, state, refreshJob, pc, held, requested, edtJob, clock,
                 closed, changes, unrequested>>

\* previous and current: the volatile read this whole refresh is computed from.
ReadState(j) ==
  /\ job[j].phase = "hasSettings" /\ Live(j)
  /\ job' = [job EXCEPT ![j].phase = "announcing",
                        ![j].current = Carried(state.endpoints, job[j].endpoints,
                                               job[j].service)]
  /\ UNCHANGED <<settings, applying, state, refreshJob, pc, held, requested, edtJob, clock,
                 closed, changes, unrequested>>

\* One endpoint's async ends with a Result; the fetches end in any order.
FetchEnds(j) ==
  /\ job[j].phase = "fetching" /\ Live(j)
  /\ \E e \in job[j].endpoints \ (job[j].succeeded \cup job[j].failed) :
       \/ job' = [job EXCEPT ![j].succeeded = @ \cup {e}]
       \/ job' = [job EXCEPT ![j].failed = @ \cup {e}]
  /\ UNCHANGED <<settings, applying, state, refreshJob, pc, held, requested, edtJob, clock,
                 closed, changes, unrequested>>

\* Mutant: the refresh waits for every endpoint to answer with findings.
AwaitSuccesses(j) ==
  /\ job[j].phase = "fetching" /\ Live(j)
  /\ job[j].endpoints = job[j].succeeded
  /\ clock' = clock + 1
  /\ job' = [job EXCEPT ![j].phase = "fetched", ![j].now = clock']
  /\ UNCHANGED <<settings, applying, state, refreshJob, pc, held, requested, edtJob, closed,
                 changes, unrequested>>

\* awaitAll() returns and now is read.
AwaitAll(j) ==
  /\ job[j].phase = "fetching" /\ Live(j)
  /\ job[j].endpoints = job[j].succeeded \cup job[j].failed
  /\ clock' = clock + 1
  /\ job' = [job EXCEPT ![j].phase = "fetched", ![j].now = clock']
  /\ UNCHANGED <<settings, applying, state, refreshJob, pc, held, requested, edtJob, closed,
                 changes, unrequested>>

Result(r) ==
  [e \in Endpoint |->
     IF e \notin r.endpoints THEN Absent
     ELSE IF e \in r.succeeded THEN UpdatedOnSuccess(r.current[e], r.service, r.now)
     ELSE UpdatedOnFailure(r.current[e])]

\* Mutant: the EDT runs the block of a cancelled job too.
StartAnyPublish(j) ==
  /\ job[j].phase \in {"announcing", "fetched"}
  /\ EdtFree
  /\ edtJob' = j
  /\ UNCHANGED <<settings, applying, state, refreshJob, pc, held, job, requested, clock,
                 closed, changes, unrequested>>

\* The EDT takes a publish block from its queue: not the block of a cancelled job.
StartPublish(j) ==
  /\ job[j].phase \in {"announcing", "fetched"} /\ Live(j)
  /\ EdtFree
  /\ edtJob' = j
  /\ UNCHANGED <<settings, applying, state, refreshJob, pc, held, job, requested, clock,
                 closed, changes, unrequested>>

\* The block stores the new state and notifies the topic's listeners, cancelled or not.
Announce(j) ==
  /\ edtJob = j /\ job[j].phase = "announcing"
  /\ state' = [refreshing |-> TRUE, endpoints |-> job[j].current]
  /\ job' = [job EXCEPT ![j].phase = "fetching"]
  /\ edtJob' = 0
  /\ UNCHANGED <<settings, applying, refreshJob, pc, held, requested, clock, closed,
                 changes, unrequested>>

\* The state of a finished refresh, whose refreshing is false by default; mutant: true.
StillRefreshing(board) == [refreshing |-> TRUE, endpoints |-> board]

Finished(board) == [refreshing |-> FALSE, endpoints |-> board]

PublishResult(j) ==
  /\ edtJob = j /\ job[j].phase = "fetched"
  /\ state' = Finished(Result(job[j]))
  /\ job' = [job EXCEPT ![j] = Blank("done", FALSE)]
  /\ edtJob' = 0
  /\ UNCHANGED <<settings, applying, refreshJob, pc, held, requested, clock, closed,
                 changes, unrequested>>

\* A cancelled job ends at a suspension point: before it starts, waiting for the EDT,
\* coming back from it, or in its fetches.
Stop(j) ==
  /\ job[j].phase \notin {"unborn", "done"} /\ job[j].cancelled /\ edtJob # j
  /\ job' = [job EXCEPT ![j] = Blank("done", FALSE)]
  /\ UNCHANGED <<settings, applying, state, refreshJob, pc, held, requested, edtJob, clock,
                 closed, changes, unrequested>>
-----------------------------------------------------------------------------
(* The rest of the project *)

\* PerfSentinelSettings.update from the dialog's apply(), one field after the other.
UpdateEndpoints ==
  /\ EdtFree /\ changes < MaxChanges
  /\ \E endpoints \in SUBSET Endpoint \ {{}} :
       settings' = [settings EXCEPT !.endpoints = endpoints]
  /\ applying' \in Service
  /\ changes' = changes + 1
  /\ unrequested' = TRUE
  /\ UNCHANGED <<state, refreshJob, pc, held, job, requested, edtJob, clock, closed>>

UpdateService ==
  /\ applying # NoService
  /\ settings' = [settings EXCEPT !.service = applying]
  /\ applying' = NoService
  /\ UNCHANGED <<state, refreshJob, pc, held, job, requested, edtJob, clock, closed,
                 changes, unrequested>>

\* The project closes: its scope is cancelled, and every job with it.
CloseProject ==
  /\ ~closed
  /\ closed' = TRUE
  /\ job' = [j \in Job |-> IF Live(j) THEN [job[j] EXCEPT !.cancelled = TRUE] ELSE job[j]]
  /\ UNCHANGED <<settings, applying, state, refreshJob, pc, held, requested, edtJob, clock,
                 changes, unrequested>>

CallerStep(c) == CancelPrevious(c) \/ Launch(c) \/ Assign(c)

JobStep(j) == \/ ReadEndpoints(j) \/ ReadService(j) \/ ReadState(j) \/ FetchEnds(j)
              \/ AwaitAll(j) \/ StartPublish(j) \/ Announce(j) \/ PublishResult(j)
              \/ Stop(j)

Next == \/ \E c \in Caller : CallerStep(c)
        \/ \E j \in Job : JobStep(j)
        \/ UpdateEndpoints \/ UpdateService \/ CloseProject

Spec == Init /\ [][Next]_vars

\* Scheduling: a call that has begun returns, update() goes on, a job that can take a step
\* takes one (DaemonClient ends every fetch), and the EDT empties its queue.  Nothing makes
\* a user click, edit settings or close the project.
Fairness == /\ \A c \in Caller : WF_vars(Launch(c) \/ Assign(c))
            /\ WF_vars(UpdateService)
            /\ \A j \in Job : WF_vars(JobStep(j))

FairSpec == Spec /\ Fairness
-----------------------------------------------------------------------------
(* Properties of every schedule *)

TypeOK ==
  /\ settings \in [endpoints : SUBSET Endpoint, service : Service]
  /\ applying \in Service \cup {NoService}
  /\ state \in [refreshing : BOOLEAN, endpoints : Boards]
  /\ refreshJob \in 0..MaxRefreshes
  /\ pc \in [Caller -> {"idle", "cancelled", "launched", "returned"}]
  /\ held \in [Caller -> 0..MaxRefreshes]
  /\ job \in [Job -> JobRecord]
  /\ requested \in 0..MaxRefreshes
  /\ edtJob \in 0..MaxRefreshes
  /\ clock \in Nat
  /\ closed \in BOOLEAN
  /\ changes \in 0..MaxChanges
  /\ unrequested \in BOOLEAN

\* Findings on show under a service were fetched for that service, whatever settings
\* changes and cancelled refreshes came between the fetch and the display.
FindingsMatchService ==
  \A e \in Listed(state.endpoints) :
    LET s == state.endpoints[e] IN
      /\ s.last # 0 => s.findings = s.service
      /\ s.last = 0 => s.findings = NoService

\* The spinner is never left turning: while it turns, some live refresh will stop it, or a
\* caller between its cancel and its launch is about to start one.
SpinnerHasOwner ==
  state.refreshing =>
    \/ closed
    \/ \E j \in Job : Live(j)
    \/ \E c \in Caller : pc[c] = "cancelled"

\* Every refresh comes to rest: once launched, a time comes when the spinner is off and
\* nothing is under way, unless the project closes, and if reading the password safe and the
\* token file returns, which the client's timeout does not cover.
RefreshSettles ==
  \A j \in Job : job[j].phase = "launched" ~>
    (closed \/ (~state.refreshing /\ \A k \in Job : ~Live(k)))

(* Properties of refreshes asked for from the EDT alone *)

\* refresh() leaves one refresh at work at most.
OneLiveRefresh == \A j, k \in Job : Live(j) /\ Live(k) => j = k

\* Only the newest refresh writes the board: an older one is never heard of again.
NewestPublishes == [][state' # state => edtJob = requested]_vars

\* An endpoint that stays on the board for the same service never goes back to older
\* findings, nor to none.
NoRegress ==
  [][\A e \in Listed(state.endpoints) \cap Listed(state'.endpoints) :
       state.endpoints[e].service = state'.endpoints[e].service
         => state'.endpoints[e].last >= state.endpoints[e].last]_vars

\* When the last refresh is over, the board is about exactly the saved endpoints and the
\* saved service, provided it was asked for after they were last changed.
BoardMatchesSettings ==
  (/\ requested > 0 /\ ~unrequested /\ ~closed
   /\ \A c \in Caller : pc[c] \notin {"cancelled", "launched"}
   /\ \A j \in Job : ~Live(j))
  => /\ Listed(state.endpoints) = settings.endpoints
     /\ \A e \in settings.endpoints : state.endpoints[e].service = settings.service
     /\ ~state.refreshing

\* The board alone behaves as FindingsBoard says.
Board == INSTANCE FindingsBoard
           WITH board <- state.endpoints, refreshing <- state.refreshing
ImplementsBoard == Board!BoardSpec
=============================================================================
