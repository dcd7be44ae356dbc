------------------------ MODULE RefreshServiceProofs ------------------------
(***************************************************************************)
(* Theorems about RefreshService, for any number of callers, refreshes,    *)
(* endpoints and services; and about the case in which every refresh is    *)
(* asked for on the EDT.                                                   *)
(***************************************************************************)
EXTENDS RefreshService, TLAPS

\* A snapshot whose findings, if it has any, are its own service's.
Matched(s) == /\ s.last # 0 => s.findings = s.service
              /\ s.last = 0 => s.findings = NoService

Sound(board) == \A e \in Endpoint : board[e] # Absent => Matched(board[e])

\* The board lists the endpoints and no other, each for the service.
Fits(board, endpoints, service) ==
  /\ \A e \in endpoints : /\ board[e] # Absent
                          /\ board[e].service = service
                          /\ Matched(board[e])
  /\ \A e \in Endpoint \ endpoints : board[e] = Absent

Carries(r) == r.service \in Service /\ Fits(r.current, r.endpoints, r.service)

JobInv(r) ==
  /\ r.phase = "hasSettings" => r.service \in Service
  /\ r.phase \in {"announcing", "fetching", "fetched"} => Carries(r)
  /\ r.phase = "fetched" => r.now > 0

BoardInv == Sound(state.endpoints)

IInv == /\ TypeOK
        /\ \A j \in Job : JobInv(job[j])
        /\ BoardInv

LEMMA NewSnapshotFacts ==
  ASSUME NEW service \in Service
  PROVE  /\ NewSnapshot(service) \in Snapshot
         /\ NewSnapshot(service).service = service
         /\ Matched(NewSnapshot(service))
BY DEF NewSnapshot, Snapshot, Matched

\* Carrying a board over to a refresh gives every endpoint of it a snapshot for its
\* service, and no other endpoint one.
LEMMA CarriedFacts ==
  ASSUME NEW board \in Boards, NEW endpoints \in SUBSET Endpoint, NEW service \in Service,
         Sound(board)
  PROVE  /\ Carried(board, endpoints, service) \in Boards
         /\ Fits(Carried(board, endpoints, service), endpoints, service)
<1> DEFINE Entry(e) == Carried(board, endpoints, service)[e]
<1>1. ASSUME NEW e \in endpoints
      PROVE  Entry(e) \in Snapshot /\ Entry(e).service = service /\ Matched(Entry(e))
  <2>1. CASE board[e] = Absent
    <3>1. Entry(e) = NewSnapshot(service)
      BY <1>1, <2>1 DEF Carried
    <3> QED BY <3>1, NewSnapshotFacts
  <2>2. CASE board[e] # Absent
    <3>1. Entry(e) = ForService(board[e], service)
      BY <1>1, <2>2 DEF Carried
    <3>2. board[e] \in Snapshot /\ Matched(board[e])
      BY <1>1, <2>2 DEF Boards, Sound
    <3> HIDE DEF Entry
    <3>3. CASE board[e].service = service
      BY <3>1, <3>2, <3>3 DEF ForService
    <3>4. CASE board[e].service # service
      <4>1. Entry(e) = NewSnapshot(service)
        BY <3>1, <3>4 DEF ForService
      <4> QED BY <4>1, NewSnapshotFacts
    <3> QED BY <3>3, <3>4
  <2> QED BY <2>1, <2>2
<1>2. \A e \in Endpoint \ endpoints : Entry(e) = Absent
  BY DEF Carried
<1>3. \A e \in Endpoint : Entry(e) \in Snapshot \cup {Absent}
  BY <1>1, <1>2
<1>4. Carried(board, endpoints, service) \in Boards
  BY <1>3 DEF Carried, Boards
<1>5. \A e \in endpoints : Entry(e) # Absent
  BY <1>1, NullAssumption
<1> QED BY <1>1, <1>2, <1>4, <1>5 DEF Fits

LEMMA UpdatedFacts ==
  ASSUME NEW s \in Snapshot, NEW now \in Nat, now > 0, Matched(s)
  PROVE  /\ UpdatedOnSuccess(s, s.service, now) \in Snapshot
         /\ Matched(UpdatedOnSuccess(s, s.service, now))
         /\ UpdatedOnFailure(s) \in Snapshot
         /\ Matched(UpdatedOnFailure(s))
<1> DEFINE ok == UpdatedOnSuccess(s, s.service, now)
           ko == UpdatedOnFailure(s)
<1>1. ok \in Snapshot /\ ko \in Snapshot
  BY DEF Snapshot, UpdatedOnSuccess, UpdatedOnFailure
<1>2. ok.service = s.service /\ ok.findings = s.service /\ ok.last = now
  BY DEF Snapshot, UpdatedOnSuccess
<1>3. ko.service = s.service /\ ko.findings = s.findings /\ ko.last = s.last
  BY DEF Snapshot, UpdatedOnFailure
<1> HIDE DEF ok, ko
<1>4. Matched(ok) /\ Matched(ko)
  BY <1>2, <1>3 DEF Matched
<1> QED BY <1>1, <1>4 DEF ok, ko

\* What a refresh publishes is a board, and its findings match its services.
LEMMA ResultFacts ==
  ASSUME NEW r \in JobRecord, Carries(r), r.now > 0
  PROVE  Result(r) \in Boards /\ Sound(Result(r))
<1>1. ASSUME NEW e \in Endpoint
      PROVE  /\ Result(r)[e] \in Snapshot \cup {Absent}
             /\ Result(r)[e] # Absent => Matched(Result(r)[e])
  <2>1. CASE e \notin r.endpoints
    BY <1>1, <2>1 DEF Result
  <2>2. CASE e \in r.endpoints
    <3>1. r.current[e] \in Snapshot /\ Matched(r.current[e]) /\ r.current[e].service = r.service
      BY <1>1, <2>2 DEF Carries, Fits, JobRecord, Boards
    <3>2. r.now \in Nat
      BY DEF JobRecord
    <3>3. \/ Result(r)[e] = UpdatedOnSuccess(r.current[e], r.current[e].service, r.now)
          \/ Result(r)[e] = UpdatedOnFailure(r.current[e])
      BY <1>1, <2>2, <3>1 DEF Result
    <3> QED BY <3>1, <3>2, <3>3, UpdatedFacts
  <2> QED BY <2>1, <2>2
<1> QED BY <1>1 DEF Result, Boards, Sound

LEMMA BlankFacts ==
  ASSUME NEW phase \in Phase, NEW cancelled \in BOOLEAN
  PROVE  Blank(phase, cancelled) \in JobRecord
<1>1. NoBoard \in Boards
  BY DEF NoBoard, Boards
<1> QED BY <1>1 DEF Blank, JobRecord

LEMMA InitIInv == Init => IInv
<1> SUFFICES ASSUME Init PROVE IInv
  OBVIOUS
<1>1. NoBoard \in Boards
  BY DEF NoBoard, Boards
<1>2. TypeOK
  <2>1. Blank("unborn", FALSE) \in JobRecord
    BY BlankFacts DEF Phase
  <2>2. /\ state \in [refreshing : BOOLEAN, endpoints : Boards]
        /\ job \in [Job -> JobRecord]
        /\ settings \in [endpoints : SUBSET Endpoint, service : Service]
    BY <1>1, <2>1 DEF Init
  <2>3. /\ pc \in [Caller -> {"idle", "cancelled", "launched", "returned"}]
        /\ held \in [Caller -> 0..MaxRefreshes]
    BY BoundAssumption DEF Init
  <2>4. /\ refreshJob \in 0..MaxRefreshes /\ requested \in 0..MaxRefreshes
        /\ edtJob \in 0..MaxRefreshes /\ changes \in 0..MaxChanges /\ clock \in Nat
    BY BoundAssumption DEF Init
  <2>5. applying \in Service \cup {NoService} /\ closed \in BOOLEAN /\ unrequested \in BOOLEAN
    BY DEF Init
  <2> QED BY <2>2, <2>3, <2>4, <2>5 DEF TypeOK
<1>3. \A j \in Job : JobInv(job[j])
  BY DEF Init, Blank, JobInv
<1>4. BoardInv
  BY DEF Init, NoBoard, BoardInv, Sound
<1> QED BY <1>2, <1>3, <1>4 DEF IInv

\* A step that rewrites one job and no board keeps the invariant if the record is sound.
LEMMA JobWrite ==
  ASSUME IInv, NEW j \in Job, NEW r \in JobRecord, JobInv(r), job' = [job EXCEPT ![j] = r]
  PROVE  job' \in [Job -> JobRecord] /\ \A k \in Job : JobInv(job'[k])
BY DEF IInv, TypeOK

LEMMA NextIInv == IInv /\ [Next]_vars => IInv'
<1> SUFFICES ASSUME IInv, [Next]_vars PROVE IInv'
  OBVIOUS
<1> USE DEF IInv
<1>0. /\ \A j \in Job : job[j] \in JobRecord /\ JobInv(job[j])
      /\ state.endpoints \in Boards
      /\ settings.endpoints \in SUBSET Endpoint /\ settings.service \in Service
      /\ clock \in Nat
  BY DEF TypeOK
<1>1. ASSUME NEW c \in Caller, CancelPrevious(c) PROVE IInv'
  <2>1. PICK previous \in {refreshJob, held[c]} : job' = Cancelled(job, previous)
    BY <1>1 DEF CancelPrevious
  <2>2. previous \in 0..MaxRefreshes
    BY <1>1, <2>1 DEF TypeOK
  <2>3. job' \in [Job -> JobRecord] /\ \A k \in Job : JobInv(job'[k])
    <3>1. CASE previous = 0
      BY <2>1, <3>1 DEF Cancelled, TypeOK
    <3>2. CASE previous # 0
      <4> DEFINE r == [job[previous] EXCEPT !.cancelled = TRUE]
      <4>1. previous \in Job
        BY <2>2, <3>2, BoundAssumption DEF Job
      <4>2. r \in JobRecord
        BY <4>1, <1>0 DEF JobRecord
      <4>3. /\ r.phase = job[previous].phase /\ r.service = job[previous].service
            /\ r.endpoints = job[previous].endpoints /\ r.current = job[previous].current
            /\ r.now = job[previous].now
        BY <4>1 DEF TypeOK, JobRecord
      <4>4. JobInv(r)
        <5>1. JobInv(job[previous])
          BY <4>1
        <5> HIDE DEF r
        <5> QED BY <4>3, <5>1 DEF JobInv, Carries
      <4>5. job' = [job EXCEPT ![previous] = r]
        BY <2>1, <3>2 DEF Cancelled
      <4> HIDE DEF r
      <4> QED BY <4>1, <4>2, <4>4, <4>5, JobWrite
    <3> QED BY <3>1, <3>2
  <2>4. requested' \in 0..MaxRefreshes
    BY <1>1, BoundAssumption DEF CancelPrevious, TypeOK
  <2>5. TypeOK'
    BY <1>1, <2>3, <2>4 DEF CancelPrevious, TypeOK
  <2>6. BoardInv'
    BY <1>1 DEF CancelPrevious, BoardInv
  <2> QED BY <2>3, <2>5, <2>6
<1>2. ASSUME NEW c \in Caller, Launch(c) PROVE IInv'
  <2> DEFINE r == Blank("launched", closed)
  <2>1. r \in JobRecord
    BY BlankFacts DEF TypeOK, Phase
  <2>2. JobInv(r)
    BY DEF JobInv, Blank
  <2>3. job' \in [Job -> JobRecord] /\ \A k \in Job : JobInv(job'[k])
    <3> HIDE DEF r
    <3>1. job' = [job EXCEPT ![held[c]] = r]
      BY <1>2 DEF Launch, r
    <3> QED BY <2>1, <2>2, <3>1 DEF TypeOK
  <2>4. TypeOK'
    BY <1>2, <2>3 DEF Launch, TypeOK
  <2>5. BoardInv'
    BY <1>2 DEF Launch, BoardInv
  <2> QED BY <2>3, <2>4, <2>5
<1>3. ASSUME NEW c \in Caller, Assign(c) PROVE IInv'
  <2>1. TypeOK'
    BY <1>3 DEF Assign, TypeOK
  <2>2. BoardInv' /\ \A k \in Job : JobInv(job'[k])
    BY <1>3 DEF Assign, BoardInv
  <2> QED BY <2>1, <2>2
<1>4. ASSUME NEW j \in Job, NEW r \in JobRecord, JobInv(r), job' = [job EXCEPT ![j] = r],
             UNCHANGED <<settings, applying, state, refreshJob, pc, held, requested, edtJob,
                         closed, changes, unrequested>>,
             clock' \in Nat
      PROVE  IInv'
  <2>1. job' \in [Job -> JobRecord] /\ \A k \in Job : JobInv(job'[k])
    BY <1>4, JobWrite
  <2>2. TypeOK'
    BY <1>4, <2>1 DEF TypeOK
  <2>3. BoardInv'
    BY <1>4 DEF BoardInv
  <2> QED BY <2>1, <2>2, <2>3
<1>5. ASSUME NEW j \in Job, ReadEndpoints(j) PROVE IInv'
  <2> DEFINE r == [job[j] EXCEPT !.phase = "hasEndpoints", !.endpoints = settings.endpoints]
  <2>1. r \in JobRecord
    BY <1>0 DEF JobRecord, Phase
  <2>2. JobInv(r)
    BY <1>0 DEF JobRecord, JobInv
  <2>3. job' = [job EXCEPT ![j] = r]
    BY <1>5 DEF ReadEndpoints
  <2> HIDE DEF r
  <2> QED BY <1>4, <1>5, <2>1, <2>2, <2>3 DEF ReadEndpoints, TypeOK
<1>6. ASSUME NEW j \in Job, ReadService(j) PROVE IInv'
  <2> DEFINE r == [job[j] EXCEPT !.phase = "hasSettings", !.service = settings.service]
  <2>1. r \in JobRecord
    BY <1>0 DEF JobRecord, Phase
  <2>2. JobInv(r)
    BY <1>0 DEF JobRecord, JobInv
  <2>3. job' = [job EXCEPT ![j] = r]
    BY <1>6 DEF ReadService
  <2> HIDE DEF r
  <2> QED BY <1>4, <1>6, <2>1, <2>2, <2>3 DEF ReadService, TypeOK
<1>7. ASSUME NEW j \in Job, ReadState(j) PROVE IInv'
  <2> DEFINE b == Carried(state.endpoints, job[j].endpoints, job[j].service)
             r == [job[j] EXCEPT !.phase = "announcing", !.current = b]
  <2>1. job[j].service \in Service /\ job[j].endpoints \in SUBSET Endpoint
    BY <1>7 DEF ReadState, JobInv, TypeOK, JobRecord
  <2>2. b \in Boards /\ Fits(b, job[j].endpoints, job[j].service)
    BY <1>0, <2>1, CarriedFacts DEF BoardInv
  <2>3. job' = [job EXCEPT ![j] = r]
    BY <1>7 DEF ReadState
  <2> HIDE DEF b
  <2>4. r \in JobRecord
    BY <1>0, <2>2 DEF JobRecord, Phase
  <2>5. /\ r.phase = "announcing" /\ r.service = job[j].service
        /\ r.endpoints = job[j].endpoints /\ r.current = b
    BY <1>0 DEF JobRecord
  <2> HIDE DEF r
  <2>6. JobInv(r)
    BY <2>1, <2>2, <2>5 DEF JobInv, Carries
  <2> QED BY <1>4, <1>7, <2>3, <2>4, <2>6 DEF ReadState, TypeOK
<1>8. ASSUME NEW j \in Job, NEW r \in JobRecord, job' = [job EXCEPT ![j] = r],
             job[j].phase \in {"announcing", "fetching", "fetched"},
             r.phase \in {"fetching", "fetched"}, r.phase = "fetched" => r.now > 0,
             r.service = job[j].service, r.endpoints = job[j].endpoints,
             r.current = job[j].current
      PROVE  JobInv(r)
  BY <1>8 DEF JobInv, Carries
<1>9. ASSUME NEW j \in Job, FetchEnds(j) PROVE IInv'
  <2>1. PICK e \in job[j].endpoints :
          \/ job' = [job EXCEPT ![j].succeeded = @ \cup {e}]
          \/ job' = [job EXCEPT ![j].failed = @ \cup {e}]
    BY <1>9 DEF FetchEnds
  <2>2. PICK ok, ko \in SUBSET Endpoint :
          job' = [job EXCEPT ![j] = [job[j] EXCEPT !.succeeded = ok, !.failed = ko]]
    <3>1. job[j].endpoints \subseteq Endpoint
      BY <1>0 DEF JobRecord
    <3>2. CASE job' = [job EXCEPT ![j].succeeded = @ \cup {e}]
      <4>1. job' = [job EXCEPT ![j] = [job[j] EXCEPT !.succeeded = job[j].succeeded \cup {e},
                                                     !.failed = job[j].failed]]
        BY <3>2 DEF TypeOK, JobRecord
      <4>2. job[j].succeeded \cup {e} \in SUBSET Endpoint /\ job[j].failed \in SUBSET Endpoint
        BY <1>0, <2>1, <3>1 DEF JobRecord
      <4> QED BY <4>1, <4>2
    <3>3. CASE job' = [job EXCEPT ![j].failed = @ \cup {e}]
      <4>1. job' = [job EXCEPT ![j] = [job[j] EXCEPT !.succeeded = job[j].succeeded,
                                                     !.failed = job[j].failed \cup {e}]]
        BY <3>3 DEF TypeOK, JobRecord
      <4>2. job[j].succeeded \in SUBSET Endpoint /\ job[j].failed \cup {e} \in SUBSET Endpoint
        BY <1>0, <2>1, <3>1 DEF JobRecord
      <4> QED BY <4>1, <4>2
    <3> QED BY <2>1, <3>2, <3>3
  <2> DEFINE r == [job[j] EXCEPT !.succeeded = ok, !.failed = ko]
  <2>3. r \in JobRecord
    BY <1>0 DEF JobRecord
  <2>4. /\ r.phase = "fetching" /\ r.service = job[j].service
        /\ r.endpoints = job[j].endpoints /\ r.current = job[j].current
        /\ job[j].phase = "fetching"
    BY <1>9 DEF TypeOK, JobRecord, FetchEnds
  <2> HIDE DEF r
  <2>5. job' = [job EXCEPT ![j] = r]
    BY <2>2 DEF r
  <2>6. JobInv(r)
    BY <1>8, <2>3, <2>4, <2>5
  <2> QED BY <1>4, <1>9, <2>3, <2>5, <2>6 DEF FetchEnds, TypeOK
<1>10. ASSUME NEW j \in Job, AwaitAll(j) PROVE IInv'
  <2> DEFINE r == [job[j] EXCEPT !.phase = "fetched", !.now = clock + 1]
  <2>0. clock + 1 \in Nat /\ clock' = clock + 1
    BY <1>0, <1>10 DEF AwaitAll
  <2>1. r \in JobRecord
    BY <1>0, <2>0 DEF JobRecord, Phase
  <2>2. /\ r.phase = "fetched" /\ r.service = job[j].service /\ r.now = clock + 1
        /\ r.endpoints = job[j].endpoints /\ r.current = job[j].current
        /\ job[j].phase = "fetching" /\ clock + 1 > 0
    BY <1>0, <1>10 DEF JobRecord, AwaitAll
  <2>3. job' = [job EXCEPT ![j] = r]
    BY <1>10, <2>0 DEF AwaitAll
  <2> HIDE DEF r
  <2>4. JobInv(r)
    BY <1>8, <2>1, <2>2, <2>3
  <2> QED BY <1>4, <1>10, <2>0, <2>1, <2>3, <2>4 DEF AwaitAll
<1>11. ASSUME NEW j \in Job, StartPublish(j) PROVE IInv'
  <2>1. TypeOK'
    BY <1>11 DEF StartPublish, TypeOK, Job
  <2>2. BoardInv' /\ \A k \in Job : JobInv(job'[k])
    BY <1>11 DEF StartPublish, BoardInv
  <2> QED BY <2>1, <2>2
<1>12. ASSUME NEW j \in Job, Announce(j) PROVE IInv'
  <2> DEFINE r == [job[j] EXCEPT !.phase = "fetching"]
  <2>1. r \in JobRecord
    BY <1>0 DEF JobRecord, Phase
  <2>2. /\ r.phase = "fetching" /\ r.service = job[j].service
        /\ r.endpoints = job[j].endpoints /\ r.current = job[j].current
        /\ job[j].phase = "announcing"
    BY <1>12 DEF TypeOK, JobRecord, Announce
  <2>3. job' = [job EXCEPT ![j] = r]
    BY <1>12 DEF Announce
  <2> HIDE DEF r
  <2>4. JobInv(r)
    BY <1>8, <2>1, <2>2, <2>3
  <2>5. job' \in [Job -> JobRecord] /\ \A k \in Job : JobInv(job'[k])
    BY <2>1, <2>3, <2>4, JobWrite
  <2>6. job[j].current \in Boards /\ Carries(job[j])
    BY <2>2 DEF TypeOK, JobRecord, JobInv
  <2>7. state' = [refreshing |-> TRUE, endpoints |-> job[j].current]
    BY <1>12 DEF Announce
  <2>8. BoardInv'
    <3>1. Sound(job[j].current)
      BY <2>6 DEF Carries, Fits, Sound
    <3> QED BY <2>7, <3>1 DEF BoardInv
  <2>9. TypeOK'
    <3>1. state' \in [refreshing : BOOLEAN, endpoints : Boards]
      BY <2>6, <2>7
    <3> QED BY <1>12, <2>5, <3>1, BoundAssumption DEF Announce, TypeOK
  <2> QED BY <2>5, <2>8, <2>9
<1>13. ASSUME NEW j \in Job, PublishResult(j) PROVE IInv'
  <2> DEFINE r == Blank("done", FALSE)
             b == Result(job[j])
  <2>1. r \in JobRecord
    BY BlankFacts DEF Phase
  <2>2. JobInv(r)
    BY DEF JobInv, Blank
  <2>3. job' = [job EXCEPT ![j] = r]
    BY <1>13 DEF PublishResult
  <2>4. state' = [refreshing |-> FALSE, endpoints |-> b]
    BY <1>13 DEF PublishResult, Finished
  <2>5. job[j] \in JobRecord /\ Carries(job[j]) /\ job[j].now > 0
    BY <1>13 DEF PublishResult, TypeOK, JobInv
  <2>6. b \in Boards /\ Sound(b)
    BY <2>5, ResultFacts
  <2> HIDE DEF r, b
  <2>7. job' \in [Job -> JobRecord] /\ \A k \in Job : JobInv(job'[k])
    BY <2>1, <2>2, <2>3, JobWrite
  <2>8. TypeOK'
    <3>1. state' \in [refreshing : BOOLEAN, endpoints : Boards]
      BY <2>4, <2>6
    <3>2. /\ edtJob' = 0
          /\ UNCHANGED <<settings, applying, refreshJob, pc, held, requested, clock, closed,
                         changes, unrequested>>
      BY <1>13 DEF PublishResult
    <3> QED BY <2>7, <3>1, <3>2, BoundAssumption DEF TypeOK
  <2>9. BoardInv'
    BY <2>4, <2>6 DEF BoardInv
  <2> QED BY <2>7, <2>8, <2>9
<1>14. ASSUME NEW j \in Job, Stop(j) PROVE IInv'
  <2> DEFINE r == Blank("done", FALSE)
  <2>1. r \in JobRecord
    BY BlankFacts DEF Phase
  <2>2. JobInv(r)
    BY DEF JobInv, Blank
  <2>3. job' = [job EXCEPT ![j] = r]
    BY <1>14 DEF Stop
  <2> HIDE DEF r
  <2> QED BY <1>4, <1>14, <2>1, <2>2, <2>3 DEF Stop, TypeOK
<1>15. CASE UpdateEndpoints
  <2>1. TypeOK'
    BY <1>15, BoundAssumption DEF UpdateEndpoints, TypeOK
  <2>2. BoardInv' /\ \A k \in Job : JobInv(job'[k])
    BY <1>15 DEF UpdateEndpoints, BoardInv
  <2> QED BY <2>1, <2>2
<1>16. CASE UpdateService
  <2>1. TypeOK'
    BY <1>16 DEF UpdateService, TypeOK
  <2>2. BoardInv' /\ \A k \in Job : JobInv(job'[k])
    BY <1>16 DEF UpdateService, BoardInv
  <2> QED BY <2>1, <2>2
<1>17. CASE CloseProject
  <2>1. ASSUME NEW k \in Job PROVE job'[k] \in JobRecord /\ JobInv(job'[k])
    <3>1. job[k] \in JobRecord /\ JobInv(job[k])
      BY DEF TypeOK
    <3>2. job'[k] = job[k] \/ job'[k] = [job[k] EXCEPT !.cancelled = TRUE]
      BY <1>17 DEF CloseProject
    <3> DEFINE r == [job[k] EXCEPT !.cancelled = TRUE]
    <3>3. r \in JobRecord
      BY <3>1 DEF JobRecord
    <3>4. /\ r.phase = job[k].phase /\ r.service = job[k].service
          /\ r.endpoints = job[k].endpoints /\ r.current = job[k].current
          /\ r.now = job[k].now
      BY <3>1 DEF JobRecord
    <3>5. JobInv(r)
      <4> HIDE DEF r
      <4> QED BY <3>1, <3>4 DEF JobInv, Carries
    <3> HIDE DEF r
    <3>6. job'[k] = job[k] \/ job'[k] = r
      BY <3>2 DEF r
    <3> QED BY <3>1, <3>3, <3>5, <3>6
  <2>2. job' \in [Job -> JobRecord]
    BY <1>17, <2>1 DEF CloseProject
  <2>3. TypeOK'
    BY <1>17, <2>2 DEF CloseProject, TypeOK
  <2>4. BoardInv'
    BY <1>17 DEF CloseProject, BoardInv
  <2> QED BY <2>1, <2>3, <2>4
<1>18. CASE UNCHANGED vars
  BY <1>18 DEF vars, TypeOK, BoardInv
<1> QED
  <2>1. CASE \E c \in Caller : CallerStep(c)
    BY <1>1, <1>2, <1>3, <2>1 DEF CallerStep
  <2>2. CASE \E j \in Job : JobStep(j)
    BY <1>5, <1>6, <1>7, <1>9, <1>10, <1>11, <1>12, <1>13, <1>14, <2>2 DEF JobStep
  <2> HIDE DEF IInv
  <2> QED BY <1>15, <1>16, <1>17, <1>18, <2>1, <2>2 DEF Next

LEMMA Invariant == Spec => []IInv
BY InitIInv, NextIInv, PTL DEF Spec

\* Every variable keeps its type, for any number of callers and refreshes.
THEOREM TypeCorrect == Spec => []TypeOK
<1>1. IInv => TypeOK
  BY DEF IInv
<1> QED BY <1>1, Invariant, PTL

\* Findings on the board are those of the service the board names, however refreshes,
\* cancellations and settings changes interleave: RefreshState.kt's forService and updated,
\* as refresh() uses them.
THEOREM FindingsAlwaysMatch == Spec => []FindingsMatchService
<1>1. IInv => FindingsMatchService
  BY DEF IInv, BoardInv, Sound, Matched, FindingsMatchService, Listed
<1> QED BY <1>1, Invariant, PTL

-----------------------------------------------------------------------------
(* Who stops the spinner                                                   *)

Owned == \/ closed
         \/ \E j \in Job : Live(j)
         \/ \E c \in Caller : pc[c] = "cancelled"

\* A caller that has cancelled the previous job knows the one it is about to launch.
CallerInv == \A c \in Caller : pc[c] = "cancelled" => held[c] \in Job

\* Not only a turning spinner has an owner: so has a publish block the EDT is in, or the
\* announcement of a job cancelled meanwhile would start the spinner for nobody.
OwnerInv == state.refreshing \/ edtJob # 0 => Owned

SpinnerInv == CallerInv /\ OwnerInv

LEMMA InitSpinnerInv == Init => SpinnerInv
BY DEF Init, SpinnerInv, CallerInv, OwnerInv

\* A job that moves on keeps its project's spinner owned.
LEMMA MovesOn ==
  ASSUME IInv, Owned, NEW j \in Job, NEW r, job' = [job EXCEPT ![j] = r],
         r.phase \notin {"unborn", "done"}, r.cancelled = job[j].cancelled,
         UNCHANGED <<closed, pc>>
  PROVE  Owned'
<1>1. job'[j] = r /\ \A k \in Job : k # j => job'[k] = job[k]
  BY DEF IInv, TypeOK
<1>2. \A k \in Job : Live(k) => Live(k)'
  BY <1>1 DEF Live
<1> QED BY <1>2 DEF Owned

LEMMA NextSpinnerInv == IInv /\ SpinnerInv /\ [Next]_vars => SpinnerInv'
<1> SUFFICES ASSUME IInv, SpinnerInv, [Next]_vars PROVE SpinnerInv'
  OBVIOUS
<1>0. /\ job \in [Job -> JobRecord] /\ requested \in 0..MaxRefreshes
      /\ pc \in [Caller -> {"idle", "cancelled", "launched", "returned"}]
      /\ held \in [Caller -> 0..MaxRefreshes]
      /\ CallerInv /\ OwnerInv
  BY DEF IInv, TypeOK, SpinnerInv
<1>1. ASSUME NEW c \in Caller, CancelPrevious(c) PROVE SpinnerInv'
  <2>1. /\ requested' = requested + 1 /\ requested < MaxRefreshes
        /\ held' = [held EXCEPT ![c] = requested + 1]
        /\ pc' = [pc EXCEPT ![c] = "cancelled"]
    BY <1>1 DEF CancelPrevious
  <2>2. requested + 1 \in Job
    BY <1>0, <2>1, BoundAssumption DEF Job
  <2>3. CallerInv'
    BY <1>0, <2>1, <2>2 DEF CallerInv, Job
  <2>4. OwnerInv'
    BY <1>0, <2>1 DEF OwnerInv, Owned
  <2> QED BY <2>3, <2>4 DEF SpinnerInv
<1>2. ASSUME NEW c \in Caller, Launch(c) PROVE SpinnerInv'
  <2>1. /\ held[c] \in Job /\ held' = held /\ closed' = closed
        /\ job' = [job EXCEPT ![held[c]] = Blank("launched", closed)]
        /\ pc' = [pc EXCEPT ![c] = "launched"]
    BY <1>0, <1>2 DEF Launch, CallerInv
  <2>2. CallerInv'
    BY <1>0, <2>1 DEF CallerInv, Job
  <2>3. closed' \/ Live(held[c])'
    <3>1. job'[held[c]] = Blank("launched", closed)
      BY <1>0, <2>1
    <3>2. closed' = FALSE => ~job'[held[c]].cancelled /\ job'[held[c]].phase = "launched"
      BY <2>1, <3>1 DEF Blank
    <3>3. Live(held[c])' <=> (job'[held[c]].phase \notin {"unborn", "done"}
                               /\ ~job'[held[c]].cancelled)
      BY <2>1 DEF Live
    <3>4. closed' \in BOOLEAN
      BY <2>1 DEF IInv, TypeOK
    <3> QED BY <3>2, <3>3, <3>4
  <2>4. Owned'
    BY <2>1, <2>3 DEF Owned, Live
  <2> QED BY <2>2, <2>4 DEF SpinnerInv, OwnerInv
<1>3. ASSUME NEW c \in Caller, Assign(c) PROVE SpinnerInv'
  <2>1. /\ pc[c] = "launched" /\ pc'[c] \in {"idle", "returned"}
        /\ \A d \in Caller : d # c => pc'[d] = pc[d]
        /\ UNCHANGED <<state, held, job, edtJob, closed>>
    BY <1>0, <1>3 DEF Assign
  <2>2. CallerInv'
    BY <1>0, <2>1 DEF CallerInv
  <2>3. Owned => Owned'
    BY <2>1 DEF Owned, Live
  <2> QED BY <1>0, <2>1, <2>2, <2>3 DEF SpinnerInv, OwnerInv
<1>4. ASSUME UNCHANGED <<pc, held>>, state'.refreshing \/ edtJob' # 0 => Owned'
      PROVE  SpinnerInv'
  BY <1>0, <1>4 DEF SpinnerInv, CallerInv, OwnerInv
<1>5. ASSUME NEW j \in Job, NEW r, job' = [job EXCEPT ![j] = r],
             r.phase \notin {"unborn", "done"}, r.cancelled = job[j].cancelled,
             UNCHANGED <<pc, held, closed>>,
             state'.refreshing \/ edtJob' # 0 => state.refreshing \/ edtJob # 0
      PROVE  SpinnerInv'
  BY <1>0, <1>4, <1>5, MovesOn DEF OwnerInv
<1>6. ASSUME NEW j \in Job, ReadEndpoints(j) PROVE SpinnerInv'
  <2> DEFINE r == [job[j] EXCEPT !.phase = "hasEndpoints", !.endpoints = settings.endpoints]
  <2>1. job' = [job EXCEPT ![j] = r]
    BY <1>6 DEF ReadEndpoints
  <2>2. r.phase = "hasEndpoints" /\ r.cancelled = job[j].cancelled
    BY <1>0 DEF JobRecord
  <2> HIDE DEF r
  <2> QED BY <1>5, <1>6, <2>1, <2>2 DEF ReadEndpoints
<1>7. ASSUME NEW j \in Job, ReadService(j) PROVE SpinnerInv'
  <2> DEFINE r == [job[j] EXCEPT !.phase = "hasSettings", !.service = settings.service]
  <2>1. job' = [job EXCEPT ![j] = r]
    BY <1>7 DEF ReadService
  <2>2. r.phase = "hasSettings" /\ r.cancelled = job[j].cancelled
    BY <1>0 DEF JobRecord
  <2> HIDE DEF r
  <2> QED BY <1>5, <1>7, <2>1, <2>2 DEF ReadService
<1>8. ASSUME NEW j \in Job, ReadState(j) PROVE SpinnerInv'
  <2> DEFINE b == Carried(state.endpoints, job[j].endpoints, job[j].service)
             r == [job[j] EXCEPT !.phase = "announcing", !.current = b]
  <2>1. job' = [job EXCEPT ![j] = r]
    BY <1>8 DEF ReadState
  <2> HIDE DEF b
  <2>2. r.phase = "announcing" /\ r.cancelled = job[j].cancelled
    BY <1>0 DEF JobRecord
  <2> HIDE DEF r
  <2> QED BY <1>5, <1>8, <2>1, <2>2 DEF ReadState
<1>9. ASSUME NEW j \in Job, FetchEnds(j) PROVE SpinnerInv'
  <2> DEFINE r == job'[j]
  <2>1. PICK e \in job[j].endpoints :
          \/ job' = [job EXCEPT ![j].succeeded = @ \cup {e}]
          \/ job' = [job EXCEPT ![j].failed = @ \cup {e}]
    BY <1>9 DEF FetchEnds
  <2>2. job[j].phase = "fetching"
    BY <1>9 DEF FetchEnds
  <2>3. r.phase = "fetching" /\ r.cancelled = job[j].cancelled
    BY <1>0, <2>1, <2>2 DEF JobRecord
  <2>4. job' = [job EXCEPT ![j] = r]
    BY <1>0, <2>1
  <2> HIDE DEF r
  <2> QED BY <1>5, <1>9, <2>3, <2>4 DEF FetchEnds
<1>10. ASSUME NEW j \in Job, AwaitAll(j) PROVE SpinnerInv'
  <2> DEFINE r == [job[j] EXCEPT !.phase = "fetched", !.now = clock']
  <2>1. job' = [job EXCEPT ![j] = r]
    BY <1>10 DEF AwaitAll
  <2>2. r.phase = "fetched" /\ r.cancelled = job[j].cancelled
    BY <1>0 DEF JobRecord
  <2> HIDE DEF r
  <2> QED BY <1>5, <1>10, <2>1, <2>2 DEF AwaitAll
<1>11. ASSUME NEW j \in Job, StartPublish(j) PROVE SpinnerInv'
  <2>1. Live(j) /\ UNCHANGED <<pc, held, job, closed>>
    BY <1>11 DEF StartPublish
  <2>2. Owned'
    BY <2>1 DEF Owned, Live
  <2> QED BY <1>4, <2>1, <2>2
<1>12. ASSUME NEW j \in Job, Announce(j) PROVE SpinnerInv'
  <2> DEFINE r == [job[j] EXCEPT !.phase = "fetching"]
  <2>1. job' = [job EXCEPT ![j] = r] /\ edtJob = j /\ UNCHANGED <<pc, held, closed>>
    BY <1>12 DEF Announce
  <2>2. r.phase = "fetching" /\ r.cancelled = job[j].cancelled
    BY <1>0 DEF JobRecord
  <2>3. edtJob # 0
    BY <2>1 DEF Job
  <2> HIDE DEF r
  <2> QED BY <1>5, <2>1, <2>2, <2>3
<1>13. ASSUME NEW j \in Job, PublishResult(j) PROVE SpinnerInv'
  <2>1. state'.refreshing = FALSE /\ edtJob' = 0 /\ UNCHANGED <<pc, held>>
    BY <1>13 DEF PublishResult, Finished
  <2> QED BY <1>4, <2>1
<1>14. ASSUME NEW j \in Job, Stop(j) PROVE SpinnerInv'
  <2>1. /\ ~Live(j) /\ job' = [job EXCEPT ![j] = Blank("done", FALSE)]
        /\ UNCHANGED <<state, edtJob, pc, held, closed>>
    BY <1>14 DEF Stop, Live
  <2>2. \A k \in Job : Live(k) => Live(k)'
    BY <1>0, <2>1 DEF Live
  <2>3. Owned => Owned'
    BY <2>1, <2>2 DEF Owned
  <2> QED BY <1>0, <1>4, <2>1, <2>3 DEF OwnerInv
<1>15. CASE CloseProject
  <2>1. closed' /\ UNCHANGED <<pc, held>>
    BY <1>15 DEF CloseProject
  <2> QED BY <1>4, <2>1 DEF Owned
<1>16. CASE UpdateEndpoints \/ UpdateService \/ UNCHANGED vars
  <2>1. UNCHANGED <<state, pc, held, job, edtJob, closed>>
    BY <1>16 DEF UpdateEndpoints, UpdateService, vars
  <2>2. Owned => Owned'
    BY <2>1 DEF Owned, Live
  <2> QED BY <1>0, <1>4, <2>1, <2>2 DEF OwnerInv
<1> QED
  <2>1. CASE \E c \in Caller : CallerStep(c)
    BY <1>1, <1>2, <1>3, <2>1 DEF CallerStep
  <2>2. CASE \E j \in Job : JobStep(j)
    BY <1>6, <1>7, <1>8, <1>9, <1>10, <1>11, <1>12, <1>13, <1>14, <2>2 DEF JobStep
  <2> QED BY <1>15, <1>16, <2>1, <2>2 DEF Next

\* The spinner of refresh() never turns for nobody, however many threads call it without a
\* lock: while it turns, a refresh that will stop it lives, or a caller is about to launch one.
THEOREM SpinnerAlwaysOwned == Spec => []SpinnerHasOwner
<1>1. SpinnerInv => SpinnerHasOwner
  BY DEF SpinnerInv, OwnerInv, Owned, SpinnerHasOwner
<1> QED BY <1>1, InitSpinnerInv, NextSpinnerInv, Invariant, PTL DEF Spec

(***************************************************************************)
(* Every refresh is asked for on the EDT: the calls are then serialised    *)
(* with each other and with the publish blocks, and the board implements   *)
(* FindingsBoard.                                                          *)
(***************************************************************************)


\* A job that may still write the board.
Active(j) == Live(j) \/ edtJob = j

\* Between calls the field names the newest job; once the call has cancelled it, no job lives.
CallInv ==
  /\ held[Edt] = requested
  /\ pc[Edt] = "idle" => refreshJob = requested
  /\ pc[Edt] = "cancelled" => \A j \in Job : ~Live(j)
  /\ \A j \in Job : Live(j) => j = requested

\* The EDT does one thing at a time.
EdtInv == edtJob # 0 => /\ edtJob = requested
                        /\ pc[Edt] = "idle"
                        /\ job[edtJob].phase \in {"announcing", "fetched"}

\* Nobody wrote the board since the newest job read it, but itself.
AgreeInv ==
  \A j \in Job : Active(j) =>
    /\ job[j].phase = "announcing"
         => job[j].current = Carried(state.endpoints, job[j].endpoints, job[j].service)
    /\ job[j].phase \in {"fetching", "fetched"}
         => state.refreshing /\ state.endpoints = job[j].current
    /\ job[j].phase = "fetched" => job[j].now <= clock

Before(board, now) == \A e \in Endpoint : board[e] # Absent => board[e].last < now

\* No snapshot is younger than the clock, nor as young as the result on its way.
ClockInv ==
  /\ Before(state.endpoints, clock + 1)
  /\ \A j \in Job : Active(j) /\ job[j].phase = "fetched"
                      => Before(job[j].current, job[j].now)

EInv == IInv /\ CallInv /\ EdtInv /\ AgreeInv /\ ClockInv

\* What AgreeInv and ClockInv say of one active job, given the board and the clock.
Agrees(r, board, turning, time) ==
  /\ r.phase = "announcing" => r.current = Carried(board, r.endpoints, r.service)
  /\ r.phase \in {"fetching", "fetched"} => turning /\ board = r.current
  /\ r.phase = "fetched" => r.now <= time /\ Before(r.current, r.now)

LEMMA InitEInv == ASSUME Caller = {Edt} PROVE Init => EInv
<1> SUFFICES ASSUME Init PROVE EInv
  OBVIOUS
<1>1. \A j \in Job : ~Live(j) /\ ~Active(j)
  BY DEF Init, Live, Active, Blank, Job
<1>2. CallInv /\ EdtInv /\ AgreeInv
  BY <1>1 DEF Init, CallInv, EdtInv, AgreeInv
<1>3. ClockInv
  BY <1>1 DEF Init, ClockInv, Before, NoBoard
<1> QED BY <1>2, <1>3, InitIInv DEF EInv

\* A live job that moves on by itself, the EDT elsewhere.
LEMMA LiveMoves ==
  ASSUME Caller = {Edt}, EInv, IInv', NEW j \in Job, NEW r \in JobRecord, Live(j),
         edtJob # j, job' = [job EXCEPT ![j] = r], ~r.cancelled,
         r.phase \notin {"unborn", "done"}, Agrees(r, state.endpoints, state.refreshing, clock'),
         clock' \in Nat, clock' >= clock,
         UNCHANGED <<state, refreshJob, pc, held, requested, edtJob>>
  PROVE  EInv'
<1>1. j = requested /\ edtJob \in 0..MaxRefreshes /\ job \in [Job -> JobRecord] /\ clock \in Nat
  BY DEF EInv, CallInv, IInv, TypeOK
<1>2. edtJob = 0
  BY <1>1 DEF EInv, EdtInv
<1>3. \A k \in Job : k # j => job'[k] = job[k] /\ ~Live(k) /\ ~Live(k)' /\ ~Active(k)'
  BY <1>1, <1>2 DEF EInv, CallInv, Live, Active, Job
<1>4. job'[j] = r
  BY <1>1
<1>5. CallInv'
  BY <1>1, <1>3 DEF EInv, CallInv
<1>6. EdtInv'
  BY <1>2 DEF EdtInv
<1>7. AgreeInv'
  BY <1>3, <1>4 DEF AgreeInv, Agrees
<1>8. ClockInv'
  <2>1. Before(state.endpoints, clock' + 1)
    <3>1. state.endpoints \in Boards
      BY DEF EInv, IInv, TypeOK
    <3>2. \A e \in Endpoint : state.endpoints[e] # Absent => state.endpoints[e].last \in Nat
      BY <3>1 DEF Boards, Snapshot
    <3> QED BY <1>1, <3>2 DEF EInv, ClockInv, Before
  <2> QED BY <1>3, <1>4, <2>1 DEF ClockInv, Agrees
<1> QED BY <1>5, <1>6, <1>7, <1>8 DEF EInv

LEMMA NextEInv == ASSUME Caller = {Edt} PROVE EInv /\ [Next]_vars => EInv'
<1> SUFFICES ASSUME EInv, [Next]_vars PROVE EInv'
  OBVIOUS
<1>0. IInv /\ IInv'
  BY NextIInv DEF EInv
<1>a. /\ job \in [Job -> JobRecord] /\ clock \in Nat /\ requested \in 0..MaxRefreshes
      /\ edtJob \in 0..MaxRefreshes /\ pc \in [Caller -> {"idle", "cancelled", "launched", "returned"}]
      /\ held \in [Caller -> 0..MaxRefreshes] /\ Edt \in Caller
      /\ state.endpoints \in Boards
  BY <1>0, CallerAssumption DEF IInv, TypeOK
<1>b. CallInv /\ EdtInv /\ AgreeInv /\ ClockInv
  BY DEF EInv
<1>1. ASSUME NEW c \in Caller, CancelPrevious(c) PROVE EInv'
  <2>1. c = Edt /\ edtJob = 0 /\ edtJob' = 0 /\ pc[Edt] = "idle"
    BY <1>1 DEF CancelPrevious, EdtFree
  <2>2. job' = Cancelled(job, requested)
    BY <1>1, <1>b, <2>1 DEF CancelPrevious, CallInv
  <2>3. \A j \in Job : ~Live(j)'
    <3> SUFFICES ASSUME NEW j \in Job, Live(j)' PROVE FALSE
      OBVIOUS
    <3>1. CASE requested = 0
      <4>1. job' = job
        BY <2>2, <3>1 DEF Cancelled
      <4>2. Live(j)
        BY <4>1 DEF Live
      <4> QED BY <1>b, <3>1, <4>2 DEF CallInv, Job
    <3>2. CASE requested # 0
      <4>1. job' = [job EXCEPT ![requested].cancelled = TRUE]
        BY <2>2, <3>2 DEF Cancelled
      <4>2. requested \in Job
        BY <1>a, <3>2, BoundAssumption DEF Job
      <4>3. job'[requested].cancelled = TRUE
        BY <1>a, <4>1, <4>2 DEF JobRecord
      <4>4. j # requested
        BY <4>3 DEF Live
      <4>5. Live(j)
        BY <1>a, <4>1, <4>4 DEF Live
      <4> QED BY <1>b, <4>4, <4>5 DEF CallInv
    <3> QED BY <3>1, <3>2
  <2>4. \A j \in Job : ~Active(j)'
    BY <2>1, <2>3 DEF Active, Job
  <2>5. CallInv'
    BY <1>1, <1>a, <2>1, <2>3 DEF CancelPrevious, CallInv
  <2>6. EdtInv' /\ AgreeInv'
    BY <2>1, <2>4 DEF EdtInv, AgreeInv
  <2>7. ClockInv'
    BY <1>1, <1>b, <2>4 DEF CancelPrevious, ClockInv
  <2> QED BY <1>0, <2>5, <2>6, <2>7 DEF EInv
<1>2. ASSUME NEW c \in Caller, Launch(c) PROVE EInv'
  <2> DEFINE r == Blank("launched", closed)
  <2>1. c = Edt /\ pc[Edt] = "cancelled" /\ edtJob = 0 /\ edtJob' = 0
    BY <1>2, <1>a, <1>b DEF Launch, EdtInv
  <2>2. job' = [job EXCEPT ![requested] = r]
    BY <1>2, <1>b, <2>1 DEF Launch, CallInv
  <2>3. r.phase = "launched"
    BY DEF Blank
  <2> HIDE DEF r
  <2>4. \A j \in Job : Live(j)' => j = requested /\ job'[j] = r
    BY <1>a, <1>b, <2>1, <2>2 DEF CallInv, Live
  <2>5. CallInv'
    BY <1>2, <1>a, <1>b, <2>1, <2>4 DEF Launch, CallInv
  <2>6. \A j \in Job : Active(j)' => job'[j].phase = "launched"
    BY <2>1, <2>3, <2>4 DEF Active, Job
  <2>7. EdtInv' /\ AgreeInv'
    BY <2>1, <2>6 DEF EdtInv, AgreeInv
  <2>8. ClockInv'
    BY <1>2, <1>b, <2>6 DEF Launch, ClockInv
  <2> QED BY <1>0, <2>5, <2>7, <2>8 DEF EInv
<1>3. ASSUME NEW c \in Caller, Assign(c) PROVE EInv'
  <2>1. c = Edt /\ pc[Edt] = "launched" /\ edtJob = 0 /\ edtJob' = 0
    BY <1>3, <1>a, <1>b DEF Assign, EdtInv
  <2>2. /\ pc'[Edt] = "idle" /\ refreshJob' = requested
        /\ UNCHANGED <<state, held, job, requested, edtJob, clock>>
    BY <1>3, <1>a, <1>b, <2>1 DEF Assign, CallInv
  <2>3. CallInv' /\ EdtInv' /\ AgreeInv' /\ ClockInv'
    BY <1>b, <2>1, <2>2 DEF CallInv, EdtInv, AgreeInv, ClockInv, Live, Active
  <2> QED BY <1>0, <2>3 DEF EInv
<1>4. ASSUME NEW j \in Job, ReadEndpoints(j) PROVE EInv'
  <2> DEFINE r == [job[j] EXCEPT !.phase = "hasEndpoints", !.endpoints = settings.endpoints]
  <2>1. /\ r \in JobRecord /\ r.phase = "hasEndpoints" /\ r.cancelled = job[j].cancelled
        /\ job' = [job EXCEPT ![j] = r]
    <3>1. settings.endpoints \in SUBSET Endpoint
      BY <1>0 DEF IInv, TypeOK
    <3>2. job[j] \in JobRecord /\ job' = [job EXCEPT ![j] = r]
      BY <1>4, <1>a DEF ReadEndpoints
    <3> QED BY <3>1, <3>2 DEF JobRecord, Phase
  <2>2. edtJob # j
    BY <1>4, <1>b DEF ReadEndpoints, EdtInv, Job
  <2> HIDE DEF r
  <2>3. Agrees(r, state.endpoints, state.refreshing, clock')
    BY <2>1 DEF Agrees
  <2>6. /\ Live(j) /\ ~r.cancelled /\ r.phase \notin {"unborn", "done"}
        /\ clock' \in Nat /\ clock' >= clock
        /\ UNCHANGED <<state, refreshJob, pc, held, requested, edtJob>>
    BY <1>4, <1>a, <2>1, <2>2 DEF ReadEndpoints, Live
  <2> QED BY <1>0, <2>1, <2>2, <2>3, <2>6, LiveMoves
<1>5. ASSUME NEW j \in Job, ReadService(j) PROVE EInv'
  <2> DEFINE r == [job[j] EXCEPT !.phase = "hasSettings", !.service = settings.service]
  <2>1. /\ r \in JobRecord /\ r.phase = "hasSettings" /\ r.cancelled = job[j].cancelled
        /\ job' = [job EXCEPT ![j] = r]
    <3>1. settings.service \in Service
      BY <1>0 DEF IInv, TypeOK
    <3>2. job[j] \in JobRecord /\ job' = [job EXCEPT ![j] = r]
      BY <1>5, <1>a DEF ReadService
    <3> QED BY <3>1, <3>2 DEF JobRecord, Phase
  <2>2. edtJob # j
    BY <1>5, <1>b DEF ReadService, EdtInv, Job
  <2> HIDE DEF r
  <2>3. Agrees(r, state.endpoints, state.refreshing, clock')
    BY <2>1 DEF Agrees
  <2>6. /\ Live(j) /\ ~r.cancelled /\ r.phase \notin {"unborn", "done"}
        /\ clock' \in Nat /\ clock' >= clock
        /\ UNCHANGED <<state, refreshJob, pc, held, requested, edtJob>>
    BY <1>5, <1>a, <2>1, <2>2 DEF ReadService, Live
  <2> QED BY <1>0, <2>1, <2>2, <2>3, <2>6, LiveMoves
<1>6. ASSUME NEW j \in Job, ReadState(j) PROVE EInv'
  <2> DEFINE b == Carried(state.endpoints, job[j].endpoints, job[j].service)
             r == [job[j] EXCEPT !.phase = "announcing", !.current = b]
  <2>1. job' = [job EXCEPT ![j] = r]
    BY <1>6 DEF ReadState
  <2>2. /\ r.phase = "announcing" /\ r.cancelled = job[j].cancelled /\ r.current = b
        /\ r.endpoints = job[j].endpoints /\ r.service = job[j].service
    BY <1>a DEF JobRecord
  <2>3. edtJob # j
    BY <1>6, <1>b DEF ReadState, EdtInv, Job
  <2> HIDE DEF r
  <2>4. r \in JobRecord
    <3>1. job'[j] \in JobRecord
      BY <1>0 DEF IInv, TypeOK
    <3> QED BY <1>a, <2>1, <3>1
  <2>5. Agrees(r, state.endpoints, state.refreshing, clock')
    BY <2>2 DEF Agrees
  <2>6. /\ Live(j) /\ ~r.cancelled /\ r.phase \notin {"unborn", "done"}
        /\ clock' \in Nat /\ clock' >= clock
        /\ UNCHANGED <<state, refreshJob, pc, held, requested, edtJob>>
    BY <1>6, <1>a, <2>1, <2>2 DEF ReadState, Live
  <2> QED BY <1>0, <2>1, <2>2, <2>3, <2>4, <2>5, <2>6, LiveMoves
<1>7. ASSUME NEW j \in Job, FetchEnds(j) PROVE EInv'
  <2> DEFINE r == job'[j]
  <2>1. PICK e \in job[j].endpoints :
          \/ job' = [job EXCEPT ![j].succeeded = @ \cup {e}]
          \/ job' = [job EXCEPT ![j].failed = @ \cup {e}]
    BY <1>7 DEF FetchEnds
  <2>2. r \in JobRecord /\ job' = [job EXCEPT ![j] = r]
    BY <1>0, <1>a, <2>1 DEF IInv, TypeOK
  <2>3. /\ r.phase = job[j].phase /\ r.cancelled = job[j].cancelled
        /\ r.current = job[j].current
    BY <1>a, <2>1 DEF JobRecord
  <2>4. edtJob # j /\ job[j].phase = "fetching" /\ Live(j)
    BY <1>7, <1>b DEF FetchEnds, EdtInv, Job
  <2>5. Agrees(r, state.endpoints, state.refreshing, clock')
    BY <1>b, <2>3, <2>4 DEF Agrees, AgreeInv, Active
  <2>6. /\ ~r.cancelled /\ r.phase \notin {"unborn", "done"}
        /\ clock' \in Nat /\ clock' >= clock
        /\ UNCHANGED <<state, refreshJob, pc, held, requested, edtJob>>
    BY <1>7, <1>a, <2>3, <2>4 DEF FetchEnds, Live
  <2> HIDE DEF r
  <2> QED BY <1>0, <2>2, <2>4, <2>5, <2>6, LiveMoves
<1>8. ASSUME NEW j \in Job, AwaitAll(j) PROVE EInv'
  <2> DEFINE r == [job[j] EXCEPT !.phase = "fetched", !.now = clock + 1]
  <2>1. job' = [job EXCEPT ![j] = r] /\ clock' = clock + 1
    BY <1>8 DEF AwaitAll
  <2>2. /\ r.phase = "fetched" /\ r.cancelled = job[j].cancelled /\ r.now = clock + 1
        /\ r.current = job[j].current
    BY <1>a DEF JobRecord
  <2>3. edtJob # j /\ job[j].phase = "fetching" /\ Live(j)
    BY <1>8, <1>b DEF AwaitAll, EdtInv, Job
  <2> HIDE DEF r
  <2>4. r \in JobRecord
    <3>1. job'[j] \in JobRecord
      BY <1>0 DEF IInv, TypeOK
    <3> QED BY <1>a, <2>1, <3>1
  <2>5. state.refreshing /\ state.endpoints = job[j].current /\ Before(state.endpoints, clock + 1)
    BY <1>b, <2>3 DEF AgreeInv, ClockInv, Active
  <2>6. Agrees(r, state.endpoints, state.refreshing, clock')
    BY <1>a, <2>1, <2>2, <2>5 DEF Agrees
  <2>7. /\ ~r.cancelled /\ r.phase \notin {"unborn", "done"}
        /\ clock' \in Nat /\ clock' >= clock
        /\ UNCHANGED <<state, refreshJob, pc, held, requested, edtJob>>
    BY <1>8, <1>a, <2>1, <2>2, <2>3 DEF AwaitAll, Live
  <2> QED BY <1>0, <2>1, <2>3, <2>4, <2>6, <2>7, LiveMoves
<1>9. ASSUME NEW j \in Job, StartPublish(j) PROVE EInv'
  <2>1. /\ Live(j) /\ edtJob = 0 /\ edtJob' = j /\ pc[Edt] = "idle"
        /\ job[j].phase \in {"announcing", "fetched"}
        /\ UNCHANGED <<state, refreshJob, pc, held, job, requested, clock>>
    BY <1>9 DEF StartPublish, EdtFree
  <2>2. j = requested
    BY <1>b, <2>1 DEF CallInv
  <2>3. CallInv' /\ EdtInv'
    BY <1>b, <2>1, <2>2 DEF CallInv, EdtInv, Live
  <2>4. \A k \in Job : Active(k)' => Active(k)
    BY <2>1 DEF Active, Live, Job
  <2>5. AgreeInv' /\ ClockInv'
    BY <1>b, <2>1, <2>4 DEF AgreeInv, ClockInv
  <2> QED BY <1>0, <2>3, <2>5 DEF EInv
<1>10. ASSUME NEW j \in Job, Announce(j) PROVE EInv'
  <2> DEFINE r == [job[j] EXCEPT !.phase = "fetching"]
  <2>1. /\ job' = [job EXCEPT ![j] = r] /\ edtJob = j /\ edtJob' = 0
        /\ job[j].phase = "announcing"
        /\ state' = [refreshing |-> TRUE, endpoints |-> job[j].current]
        /\ UNCHANGED <<refreshJob, pc, held, requested, clock>>
    BY <1>10 DEF Announce
  <2>2. /\ r.phase = "fetching" /\ r.cancelled = job[j].cancelled /\ r.current = job[j].current
    BY <1>a DEF JobRecord
  <2> HIDE DEF r
  <2>3. j = requested /\ pc[Edt] = "idle"
    BY <1>b, <2>1 DEF EdtInv, Job
  <2>4. job'[j] = r /\ \A k \in Job : k # j => job'[k] = job[k]
    BY <1>a, <2>1
  <2>5. \A k \in Job : Live(k)' => Live(k) /\ k = j
    BY <1>b, <2>1, <2>2, <2>3, <2>4 DEF CallInv, Live
  <2>6. \A k \in Job : Active(k)' => k = j
    BY <2>1, <2>5 DEF Active, Job
  <2>7. CallInv' /\ EdtInv'
    BY <1>b, <2>1, <2>3, <2>5 DEF CallInv, EdtInv
  <2>8. AgreeInv'
    BY <2>1, <2>2, <2>4, <2>6 DEF AgreeInv
  <2>9. ClockInv'
    <3>1. job[j].current = Carried(state.endpoints, job[j].endpoints, job[j].service)
      BY <1>b, <2>1 DEF AgreeInv, Active
    <3>2. Before(job[j].current, clock + 1)
      BY <1>a, <1>b, <3>1 DEF ClockInv, Before, Carried, ForService, NewSnapshot
    <3> QED BY <2>1, <2>2, <2>4, <2>6, <3>2 DEF ClockInv
  <2> QED BY <1>0, <2>7, <2>8, <2>9 DEF EInv
<1>11. ASSUME NEW j \in Job, PublishResult(j) PROVE EInv'
  <2>1. /\ edtJob = j /\ edtJob' = 0 /\ job[j].phase = "fetched"
        /\ job' = [job EXCEPT ![j] = Blank("done", FALSE)]
        /\ state' = Finished(Result(job[j]))
        /\ UNCHANGED <<refreshJob, pc, held, requested, clock>>
    BY <1>11 DEF PublishResult
  <2>2. j = requested /\ pc[Edt] = "idle"
    BY <1>b, <2>1 DEF EdtInv, Job
  <2>3. \A k \in Job : ~Live(k)'
    <3>1. job'[j].phase = "done" /\ \A k \in Job : k # j => job'[k] = job[k]
      BY <1>a, <2>1 DEF Blank
    <3> QED BY <1>b, <2>2, <3>1 DEF CallInv, Live
  <2>4. \A k \in Job : ~Active(k)'
    BY <2>1, <2>3 DEF Active, Job
  <2>5. CallInv' /\ EdtInv' /\ AgreeInv'
    BY <1>b, <2>1, <2>2, <2>3, <2>4 DEF CallInv, EdtInv, AgreeInv
  <2>6. ClockInv'
    <3>1. job[j].now <= clock /\ Before(job[j].current, job[j].now) /\ job[j].now \in Nat
      BY <1>a, <1>b, <2>1 DEF AgreeInv, ClockInv, Active, JobRecord
    <3>2. Carries(job[j]) /\ job[j].current \in Boards
      BY <1>0, <1>a, <2>1 DEF IInv, JobInv, JobRecord
    <3>3. ASSUME NEW e \in Endpoint, Result(job[j])[e] # Absent
          PROVE  Result(job[j])[e].last < clock + 1
      <4>1. e \in job[j].endpoints /\ job[j].current[e] \in Snapshot
        BY <3>2, <3>3 DEF Result, Carries, Fits, Boards
      <4>2. job[j].current[e].last < job[j].now /\ job[j].current[e].last \in Nat
        BY <3>1, <3>2, <4>1 DEF Before, Carries, Fits, Snapshot
      <4>3. Result(job[j])[e] \in {UpdatedOnFailure(job[j].current[e]),
              UpdatedOnSuccess(job[j].current[e], job[j].service, job[j].now)}
        BY <4>1 DEF Result
      <4>4. Result(job[j])[e].last \in {job[j].current[e].last, job[j].now}
        BY <4>1, <4>3 DEF UpdatedOnFailure, UpdatedOnSuccess, Snapshot
      <4> QED BY <1>a, <3>1, <4>2, <4>4
    <3>4. state'.endpoints = Result(job[j])
      BY <2>1 DEF Finished
    <3>5. Before(state'.endpoints, clock + 1)
      BY <3>3, <3>4 DEF Before
    <3> QED BY <2>1, <2>4, <3>5 DEF ClockInv
  <2> QED BY <1>0, <2>5, <2>6 DEF EInv
<1>12. ASSUME NEW j \in Job, Stop(j) PROVE EInv'
  <2>1. /\ job[j].cancelled /\ edtJob # j
        /\ job' = [job EXCEPT ![j] = Blank("done", FALSE)]
        /\ UNCHANGED <<state, refreshJob, pc, held, requested, edtJob, clock>>
    BY <1>12 DEF Stop
  <2>2. job'[j].phase = "done" /\ \A k \in Job : k # j => job'[k] = job[k]
    BY <1>a, <2>1 DEF Blank
  <2>3. \A k \in Job : (Live(k)' => Live(k)) /\ (Active(k)' => Active(k) /\ k # j)
    BY <2>1, <2>2 DEF Live, Active
  <2>4. CallInv'
    BY <1>b, <2>1, <2>3 DEF CallInv
  <2>5. EdtInv'
    <3> SUFFICES ASSUME edtJob # 0 PROVE edtJob \in Job
      BY <1>b, <2>1, <2>2 DEF EdtInv
    <3> QED BY <1>a, BoundAssumption DEF Job
  <2>6. \A k \in Job : Active(k)' => Active(k) /\ job'[k] = job[k]
    BY <2>2, <2>3
  <2>7. AgreeInv'
    BY <1>b, <2>1, <2>6 DEF AgreeInv
  <2>8. ClockInv'
    BY <1>b, <2>1, <2>6 DEF ClockInv
  <2> QED BY <1>0, <2>4, <2>5, <2>7, <2>8 DEF EInv
<1>13. CASE CloseProject
  <2>1. /\ UNCHANGED <<state, refreshJob, pc, held, requested, edtJob, clock>>
        /\ \A k \in Job : /\ ~Live(k)'
                           /\ job'[k].phase = job[k].phase /\ job'[k].now = job[k].now
                           /\ job'[k].current = job[k].current
                           /\ job'[k].endpoints = job[k].endpoints
                           /\ job'[k].service = job[k].service
    <3>1. ASSUME NEW k \in Job
          PROVE  /\ ~Live(k)'
                 /\ job'[k].phase = job[k].phase /\ job'[k].now = job[k].now
                 /\ job'[k].current = job[k].current
                 /\ job'[k].endpoints = job[k].endpoints
                 /\ job'[k].service = job[k].service
      <4>1. job'[k] = IF Live(k) THEN [job[k] EXCEPT !.cancelled = TRUE] ELSE job[k]
        BY <1>13 DEF CloseProject
      <4>2. job[k] \in JobRecord
        BY <1>a
      <4>3. CASE Live(k)
        BY <4>1, <4>2, <4>3 DEF JobRecord, Live
      <4>4. CASE ~Live(k)
        BY <4>1, <4>4 DEF Live
      <4> QED BY <4>3, <4>4
    <3> QED BY <1>13, <3>1 DEF CloseProject
  <2>2. \A k \in Job : Active(k)' => Active(k)
    BY <2>1 DEF Active
  <2>3. CallInv'
    BY <1>b, <2>1 DEF CallInv
  <2>4. EdtInv'
    <3> SUFFICES ASSUME edtJob # 0 PROVE edtJob \in Job
      BY <1>b, <2>1 DEF EdtInv
    <3> QED BY <1>a, BoundAssumption DEF Job
  <2>5. AgreeInv' /\ ClockInv'
    BY <1>b, <2>1, <2>2 DEF AgreeInv, ClockInv
  <2> QED BY <1>0, <2>3, <2>4, <2>5 DEF EInv
<1>14. ASSUME UNCHANGED <<state, refreshJob, pc, held, job, requested, edtJob, clock>>
       PROVE  EInv'
  <2>1. CallInv' /\ EdtInv' /\ AgreeInv' /\ ClockInv'
    BY <1>b, <1>14 DEF CallInv, EdtInv, AgreeInv, ClockInv, Live, Active
  <2> QED BY <1>0, <2>1 DEF EInv
<1>15. CASE UpdateEndpoints \/ UpdateService \/ UNCHANGED vars
  BY <1>14, <1>15 DEF UpdateEndpoints, UpdateService, vars
<1> HIDE DEF EInv
<1> QED
  <2>1. CASE \E c \in Caller : CallerStep(c)
    BY <1>1, <1>2, <1>3, <2>1 DEF CallerStep
  <2>2. CASE \E j \in Job : JobStep(j)
    BY <1>4, <1>5, <1>6, <1>7, <1>8, <1>9, <1>10, <1>11, <1>12, <2>2 DEF JobStep
  <2> QED BY <1>13, <1>15, <2>1, <2>2 DEF Next

LEMMA EdtInvariant == ASSUME Caller = {Edt} PROVE Spec => []EInv
BY InitEInv, NextEInv, PTL DEF Spec

\* With the EDT as only caller, refresh() leaves one refresh at work at most: its cancel
\* reaches the previous job before the next is launched.
THEOREM SingleFlight == ASSUME Caller = {Edt} PROVE Spec => []OneLiveRefresh
<1>1. EInv => OneLiveRefresh
  BY DEF EInv, CallInv, OneLiveRefresh
<1> QED BY <1>1, EdtInvariant, PTL

\* With the EDT as only caller, only the newest refresh ever writes the board: no publish
\* block of an older one gets past the EDT's check of its job.
THEOREM NewestAlwaysPublishes == ASSUME Caller = {Edt} PROVE Spec => NewestPublishes
<1>1. EInv /\ [Next]_vars => [state' # state => edtJob = requested]_vars
  <2> SUFFICES ASSUME EInv, [Next]_vars, state' # state PROVE edtJob = requested
    OBVIOUS
  <2>1. \E j \in Job : Announce(j) \/ PublishResult(j)
    BY DEF Next, vars, CallerStep, JobStep, CancelPrevious, Launch, Assign, ReadEndpoints,
           ReadService, ReadState, FetchEnds, AwaitAll, StartPublish, Stop,
           UpdateEndpoints, UpdateService, CloseProject
  <2>2. PICK j \in Job : edtJob = j
    BY <2>1 DEF Announce, PublishResult
  <2>3. edtJob # 0
    BY <2>2 DEF Job
  <2> QED BY <2>3 DEF EInv, EdtInv
<1> QED BY <1>1, EdtInvariant, PTL DEF Spec, NewestPublishes

LEMMA InitBoard == Init => Board!BoardInit
BY DEF Init, Board!BoardInit, NoBoard, Board!NoBoard

LEMMA AnnounceBegins ==
  ASSUME EInv, NEW j \in Job, Announce(j) PROVE Board!Begin
<1>1. edtJob = j /\ job[j].phase = "announcing"
      /\ state' = [refreshing |-> TRUE, endpoints |-> job[j].current]
  BY DEF Announce
<1>2. job[j].current = Carried(state.endpoints, job[j].endpoints, job[j].service)
  BY <1>1 DEF EInv, AgreeInv, Active
<1>3. job[j].endpoints \in SUBSET Endpoint /\ job[j].service \in Service
  BY <1>1 DEF EInv, IInv, TypeOK, JobInv, Carries, JobRecord
<1> QED BY <1>1, <1>2, <1>3 DEF Board!Begin, Carried, Board!Carried, ForService,
           Board!ForService, NewSnapshot, Board!NewSnapshot

LEMMA ResultFinishes ==
  ASSUME EInv, NEW j \in Job, PublishResult(j) PROVE Board!Finish
<1> DEFINE r == job[j]
<1>1. /\ edtJob = j /\ r.phase = "fetched" /\ r \in JobRecord
      /\ state'.refreshing = FALSE /\ state'.endpoints = Result(r)
  BY DEF PublishResult, Finished, EInv, IInv, TypeOK
<1>2. /\ state.refreshing /\ state.endpoints = r.current
      /\ Before(r.current, r.now) /\ Carries(r)
  BY <1>1 DEF EInv, AgreeInv, ClockInv, Active, IInv, JobInv
<1>3. \A e \in Endpoint : e \notin r.endpoints => Result(r)[e] = Absent /\ r.current[e] = Absent
  BY <1>2 DEF Result, Carries, Fits
<1>4. ASSUME NEW e \in r.endpoints
      PROVE  /\ e \in Endpoint /\ r.current[e] # Absent /\ Result(r)[e] # Absent
             /\ Board!Settles(r.current[e], Result(r)[e])
  <2>1. e \in Endpoint /\ r.current[e] \in Snapshot /\ r.current[e] # Absent
        /\ r.current[e].service = r.service /\ r.current[e].last < r.now /\ r.now \in Nat
    BY <1>1, <1>2, <1>4 DEF JobRecord, Carries, Fits, Boards, Before
  <2> DEFINE old == r.current[e]
             new == Result(r)[e]
  <2>2. CASE e \in r.succeeded
    <3>1. new = UpdatedOnSuccess(old, old.service, r.now)
      BY <1>4, <2>1, <2>2 DEF Result
    <3>2. UpdatedOnSuccess(old, old.service, r.now).last = r.now
          /\ UpdatedOnSuccess(old, old.service, r.now) \in Snapshot
      BY <2>1 DEF UpdatedOnSuccess, Snapshot
    <3>3. new.last = r.now /\ new \in Snapshot
      BY <3>1, <3>2
    <3>4. new = Board!UpdatedOnSuccess(old, old.service, new.last)
      BY <3>1, <3>3 DEF UpdatedOnSuccess, Board!UpdatedOnSuccess
    <3>5. new.last > old.last
      BY <2>1, <3>3 DEF Snapshot
    <3> QED BY <2>1, <3>3, <3>4, <3>5, NullAssumption DEF Board!Settles
  <2>3. CASE e \notin r.succeeded
    <3>1. new = UpdatedOnFailure(old)
      BY <1>4, <2>1, <2>3 DEF Result
    <3>2. new \in Snapshot
      BY <2>1, <3>1 DEF UpdatedOnFailure, Snapshot
    <3>3. Board!Settles(old, new)
      BY <3>1 DEF Board!Settles, UpdatedOnFailure, Board!UpdatedOnFailure
    <3> QED BY <2>1, <3>2, <3>3, NullAssumption
  <2> QED BY <2>2, <2>3
<1> HIDE DEF r
<1>5. Board!Listed(state'.endpoints) = Board!Listed(state.endpoints)
  BY <1>1, <1>2, <1>3, <1>4 DEF Board!Listed
<1>6. \A e \in Board!Listed(state.endpoints) :
        Board!Settles(state.endpoints[e], state'.endpoints[e])
  BY <1>1, <1>2, <1>3, <1>4 DEF Board!Listed
<1> QED BY <1>1, <1>2, <1>5, <1>6 DEF Board!Finish

LEMMA StepImplementsBoard == EInv /\ [Next]_vars => [Board!BoardNext]_(Board!boardVars)
<1> SUFFICES ASSUME EInv, [Next]_vars PROVE [Board!BoardNext]_(Board!boardVars)
  OBVIOUS
<1>1. CASE \E j \in Job : Announce(j)
  BY <1>1, AnnounceBegins DEF Board!BoardNext
<1>2. CASE \E j \in Job : PublishResult(j)
  BY <1>2, ResultFinishes DEF Board!BoardNext
<1>3. CASE UNCHANGED state
  BY <1>3 DEF Board!boardVars
<1>4. \/ UNCHANGED state
      \/ \E j \in Job : Announce(j) \/ PublishResult(j)
  BY DEF Next, vars, CallerStep, JobStep, CancelPrevious, Launch, Assign, ReadEndpoints,
         ReadService, ReadState, FetchEnds, AwaitAll, StartPublish, Stop,
         UpdateEndpoints, UpdateService, CloseProject
<1> QED BY <1>1, <1>2, <1>3, <1>4

\* With the EDT as only caller, the board of the service is the FindingsBoard: whatever
\* refreshes are cancelled on the way, watchers see refreshes that follow one another, each
\* starting from what the last one left.
THEOREM BoardImplemented == ASSUME Caller = {Edt} PROVE Spec => ImplementsBoard
BY InitBoard, StepImplementsBoard, EdtInvariant, PTL
   DEF Spec, ImplementsBoard, Board!BoardSpec

Forward(old, new) == old.service = new.service => new.last >= old.last

\* With the EDT as only caller, an endpoint that stays listed for the same service never
\* goes back to older findings: what the FindingsBoard steps allow, no more.
THEOREM NeverRegresses == ASSUME Caller = {Edt} PROVE Spec => NoRegress
<1>1. ASSUME EInv, [Next]_vars,
             NEW e \in Listed(state.endpoints) \cap Listed(state'.endpoints)
      PROVE  Forward(state.endpoints[e], state'.endpoints[e])
  <2>1. /\ e \in Endpoint /\ state.endpoints[e] \in Snapshot
        /\ state.endpoints[e] # Absent /\ state'.endpoints[e] # Absent
    BY <1>1 DEF Listed, EInv, IInv, TypeOK, Boards
  <2>2. state.endpoints[e].last \in Nat
    BY <2>1 DEF Snapshot
  <2>3. CASE Board!Begin
    <3>1. PICK endpoints \in SUBSET Endpoint, service \in Service :
            state'.endpoints = Board!Carried(state.endpoints, endpoints, service)
      BY <2>3 DEF Board!Begin
    <3>2. state'.endpoints[e] = Board!ForService(state.endpoints[e], service)
      BY <2>1, <3>1 DEF Board!Carried
    <3>3. CASE state.endpoints[e].service = service
      BY <2>2, <3>2, <3>3 DEF Board!ForService, Forward
    <3>4. CASE state.endpoints[e].service # service
      <4>1. state'.endpoints[e].service = service
        BY <3>2, <3>4 DEF Board!ForService, Board!NewSnapshot
      <4> QED BY <3>4, <4>1 DEF Forward
    <3> QED BY <3>3, <3>4
  <2>4. CASE Board!Finish
    <3>1. Board!Settles(state.endpoints[e], state'.endpoints[e])
      BY <2>1, <2>4 DEF Board!Finish, Board!Listed
    <3>2. CASE state'.endpoints[e].last > state.endpoints[e].last
      <4>1. state'.endpoints \in Boards
        BY <1>1, NextIInv DEF EInv, IInv, TypeOK
      <4>2. state'.endpoints[e].last \in Nat
        BY <2>1, <4>1 DEF Boards, Snapshot
      <4> QED BY <2>2, <3>2, <4>2 DEF Forward
    <3>3. CASE state'.endpoints[e] = Board!UpdatedOnFailure(state.endpoints[e])
      <4>1. state'.endpoints[e].last = state.endpoints[e].last
        BY <2>1, <3>3 DEF Board!UpdatedOnFailure, Snapshot
      <4> QED BY <2>2, <4>1 DEF Forward
    <3> QED BY <3>1, <3>2, <3>3 DEF Board!Settles
  <2>5. CASE UNCHANGED state.endpoints
    BY <2>2, <2>5 DEF Forward
  <2> QED BY <1>1, <2>3, <2>4, <2>5, StepImplementsBoard DEF Board!BoardNext, Board!boardVars
<1>2. EInv /\ [Next]_vars =>
        [\A e \in Listed(state.endpoints) \cap Listed(state'.endpoints) :
           state.endpoints[e].service = state'.endpoints[e].service
             => state'.endpoints[e].last >= state.endpoints[e].last]_vars
  BY <1>1 DEF Forward
<1> QED BY <1>2, EdtInvariant, PTL DEF Spec, NoRegress

-----------------------------------------------------------------------------
(* What the board is about when the refreshes are over                     *)

\* The board is about the saved endpoints and the saved service, and the spinner is off.
BoardFits == /\ Listed(state.endpoints) = settings.endpoints
             /\ \A e \in settings.endpoints : state.endpoints[e].service = settings.service
             /\ ~state.refreshing

\* A job that works, or has worked, from the settings as they are.
Follows(r) ==
  /\ r.phase # "unborn" /\ ~r.cancelled
  /\ r.phase \in {"hasEndpoints", "hasSettings", "announcing", "fetching", "fetched"}
       => r.endpoints = settings.endpoints
  /\ r.phase \in {"hasSettings", "announcing", "fetching", "fetched"}
       => r.service = settings.service
  /\ r.phase = "done" => BoardFits

\* Asked for after the settings were last changed, the newest refresh follows them.
FollowInv ==
  ~unrequested => /\ applying = NoService
                  /\ requested > 0 /\ ~closed /\ pc[Edt] # "cancelled" => Follows(job[requested])

LEMMA InitFollowInv == Init => FollowInv
BY DEF Init, FollowInv

\* A result lists the endpoints of its refresh, each for the service of the refresh.
LEMMA ResultFits ==
  ASSUME NEW r \in JobRecord, Carries(r)
  PROVE  /\ Listed(Result(r)) = r.endpoints
         /\ \A e \in r.endpoints : Result(r)[e].service = r.service
<1>1. ASSUME NEW e \in r.endpoints
      PROVE  /\ e \in Endpoint /\ Result(r)[e] \in Snapshot /\ Result(r)[e].service = r.service
  <2>1. e \in Endpoint /\ r.current[e] \in Snapshot /\ r.current[e].service = r.service
        /\ r.now \in Nat /\ r.service \in Service
    BY <1>1 DEF Carries, Fits, JobRecord, Boards
  <2>2. \/ Result(r)[e] = UpdatedOnSuccess(r.current[e], r.service, r.now)
        \/ Result(r)[e] = UpdatedOnFailure(r.current[e])
    BY <1>1, <2>1 DEF Result
  <2>3. /\ UpdatedOnSuccess(r.current[e], r.service, r.now) \in Snapshot
        /\ UpdatedOnSuccess(r.current[e], r.service, r.now).service = r.service
    BY <2>1 DEF UpdatedOnSuccess, Snapshot
  <2>4. /\ UpdatedOnFailure(r.current[e]) \in Snapshot
        /\ UpdatedOnFailure(r.current[e]).service = r.service
    BY <2>1 DEF UpdatedOnFailure, Snapshot
  <2> QED BY <2>1, <2>2, <2>3, <2>4
<1>2. \A e \in Endpoint \ r.endpoints : Result(r)[e] = Absent
  BY DEF Result
<1> QED BY <1>1, <1>2, NullAssumption DEF Listed

\* The newest job moves on by itself, the settings and the board as they were.
LEMMA FollowsOn ==
  ASSUME EInv, FollowInv, NEW j \in Job, Live(j), NEW r, job' = [job EXCEPT ![j] = r],
         UNCHANGED <<settings, applying, state, pc, requested, closed, unrequested>>,
         Follows(job[j]) => Follows(r)
  PROVE  FollowInv'
<1>1. j = requested /\ job'[j] = r
  BY DEF EInv, CallInv, IInv, TypeOK
<1>2. Follows(job[j]) => Follows(job[j])'
  BY <1>1 DEF Follows, BoardFits
<1> QED BY <1>1, <1>2 DEF FollowInv

LEMMA NextFollowInv == ASSUME Caller = {Edt} PROVE EInv /\ FollowInv /\ [Next]_vars => FollowInv'
<1> SUFFICES ASSUME EInv, FollowInv, [Next]_vars PROVE FollowInv'
  OBVIOUS
<1>a. /\ job \in [Job -> JobRecord] /\ requested \in 0..MaxRefreshes
      /\ pc \in [Caller -> {"idle", "cancelled", "launched", "returned"}] /\ Edt \in Caller
      /\ settings \in [endpoints : SUBSET Endpoint, service : Service]
      /\ closed \in BOOLEAN /\ edtJob \in 0..MaxRefreshes
      /\ unrequested \in BOOLEAN
  BY CallerAssumption DEF EInv, IInv, TypeOK
<1>b. IInv /\ CallInv /\ EdtInv
  BY DEF EInv
<1>c. requested > 0 => requested \in Job
  BY <1>a, BoundAssumption DEF Job
<1>1. ASSUME NEW c \in Caller, CancelPrevious(c) PROVE FollowInv'
  <2>1. c = Edt /\ applying = NoService /\ applying' = applying /\ pc'[Edt] = "cancelled"
    BY <1>1, <1>a DEF CancelPrevious, EdtFree
  <2> QED BY <2>1 DEF FollowInv
<1>2. ASSUME NEW c \in Caller, Launch(c) PROVE FollowInv'
  <2>1. /\ c = Edt /\ held[Edt] = requested
        /\ job' = [job EXCEPT ![requested] = Blank("launched", closed)]
        /\ UNCHANGED <<settings, applying, state, requested, closed, unrequested>>
    BY <1>2, <1>b DEF Launch, CallInv
  <2>2. SUFFICES ASSUME ~unrequested, requested > 0, ~closed PROVE Follows(job[requested])'
    BY <2>1 DEF FollowInv
  <2>3. job'[requested] = Blank("launched", FALSE)
    BY <1>a, <1>c, <2>1, <2>2
  <2>4. job'[requested].phase = "launched" /\ job'[requested].cancelled = FALSE
    BY <2>3 DEF Blank
  <2> QED BY <2>1, <2>4 DEF Follows
<1>3. ASSUME NEW c \in Caller, Assign(c) PROVE FollowInv'
  <2>1. /\ c = Edt /\ pc[Edt] # "cancelled"
        /\ UNCHANGED <<settings, applying, state, job, requested, closed, unrequested>>
    BY <1>3 DEF Assign
  <2> QED BY <2>1 DEF FollowInv, Follows, BoardFits
<1>4. ASSUME NEW j \in Job, ReadEndpoints(j) PROVE FollowInv'
  <2> DEFINE r == [job[j] EXCEPT !.phase = "hasEndpoints", !.endpoints = settings.endpoints]
  <2>1. job' = [job EXCEPT ![j] = r] /\ Live(j)
        /\ UNCHANGED <<settings, applying, state, pc, requested, closed, unrequested>>
    BY <1>4 DEF ReadEndpoints
  <2>2. r.phase = "hasEndpoints" /\ r.cancelled = job[j].cancelled
        /\ r.endpoints = settings.endpoints
    BY <1>a DEF JobRecord
  <2> HIDE DEF r
  <2>3. Follows(job[j]) => Follows(r)
    BY <2>2 DEF Follows
  <2> QED BY <2>1, <2>3, FollowsOn
<1>5. ASSUME NEW j \in Job, ReadService(j) PROVE FollowInv'
  <2> DEFINE r == [job[j] EXCEPT !.phase = "hasSettings", !.service = settings.service]
  <2>1. job' = [job EXCEPT ![j] = r] /\ Live(j) /\ job[j].phase = "hasEndpoints"
        /\ UNCHANGED <<settings, applying, state, pc, requested, closed, unrequested>>
    BY <1>5 DEF ReadService
  <2>2. r.phase = "hasSettings" /\ r.cancelled = job[j].cancelled
        /\ r.endpoints = job[j].endpoints /\ r.service = settings.service
    BY <1>a DEF JobRecord
  <2> HIDE DEF r
  <2>3. Follows(job[j]) => Follows(r)
    BY <2>1, <2>2 DEF Follows
  <2> QED BY <2>1, <2>3, FollowsOn
<1>6. ASSUME NEW j \in Job, Live(j), NEW r, job' = [job EXCEPT ![j] = r],
             UNCHANGED <<settings, applying, state, pc, requested, closed, unrequested>>,
             job[j].phase \in {"hasSettings", "announcing", "fetching", "fetched"},
             r.phase \in {"announcing", "fetching", "fetched"},
             r.cancelled = job[j].cancelled, r.endpoints = job[j].endpoints,
             r.service = job[j].service
      PROVE  FollowInv'
  <2>1. Follows(job[j]) => Follows(r)
    BY <1>6 DEF Follows
  <2> QED BY <1>6, <2>1, FollowsOn
<1>7. ASSUME NEW j \in Job, ReadState(j) PROVE FollowInv'
  <2> DEFINE b == Carried(state.endpoints, job[j].endpoints, job[j].service)
             r == [job[j] EXCEPT !.phase = "announcing", !.current = b]
  <2>1. job' = [job EXCEPT ![j] = r] /\ Live(j) /\ job[j].phase = "hasSettings"
        /\ UNCHANGED <<settings, applying, state, pc, requested, closed, unrequested>>
    BY <1>7 DEF ReadState
  <2> HIDE DEF b
  <2>2. r.phase = "announcing" /\ r.cancelled = job[j].cancelled
        /\ r.endpoints = job[j].endpoints /\ r.service = job[j].service
    BY <1>a DEF JobRecord
  <2> HIDE DEF r
  <2> QED BY <1>6, <2>1, <2>2
<1>8. ASSUME NEW j \in Job, FetchEnds(j) PROVE FollowInv'
  <2> DEFINE r == job'[j]
  <2>1. PICK e \in job[j].endpoints :
          \/ job' = [job EXCEPT ![j].succeeded = @ \cup {e}]
          \/ job' = [job EXCEPT ![j].failed = @ \cup {e}]
    BY <1>8 DEF FetchEnds
  <2>2. Live(j) /\ job[j].phase = "fetching"
        /\ UNCHANGED <<settings, applying, state, pc, requested, closed, unrequested>>
    BY <1>8 DEF FetchEnds
  <2>3. r.phase = "fetching" /\ r.cancelled = job[j].cancelled
        /\ r.endpoints = job[j].endpoints /\ r.service = job[j].service
    BY <1>a, <2>1, <2>2 DEF JobRecord
  <2>4. job' = [job EXCEPT ![j] = r]
    BY <1>a, <2>1
  <2> HIDE DEF r
  <2> QED BY <1>6, <2>2, <2>3, <2>4
<1>9. ASSUME NEW j \in Job, AwaitAll(j) PROVE FollowInv'
  <2> DEFINE r == [job[j] EXCEPT !.phase = "fetched", !.now = clock']
  <2>1. job' = [job EXCEPT ![j] = r] /\ Live(j) /\ job[j].phase = "fetching"
        /\ UNCHANGED <<settings, applying, state, pc, requested, closed, unrequested>>
    BY <1>9 DEF AwaitAll
  <2>2. r.phase = "fetched" /\ r.cancelled = job[j].cancelled
        /\ r.endpoints = job[j].endpoints /\ r.service = job[j].service
    BY <1>a DEF JobRecord
  <2> HIDE DEF r
  <2> QED BY <1>6, <2>1, <2>2
<1>10. ASSUME NEW j \in Job, Announce(j) PROVE FollowInv'
  <2> DEFINE r == [job[j] EXCEPT !.phase = "fetching"]
  <2>1. /\ job' = [job EXCEPT ![j] = r] /\ edtJob = j /\ job[j].phase = "announcing"
        /\ UNCHANGED <<settings, applying, pc, requested, closed, unrequested>>
    BY <1>10 DEF Announce
  <2>2. r.phase = "fetching" /\ r.cancelled = job[j].cancelled
        /\ r.endpoints = job[j].endpoints /\ r.service = job[j].service
    BY <1>a DEF JobRecord
  <2> HIDE DEF r
  <2>3. j = requested /\ job'[j] = r
    BY <1>a, <1>b, <2>1 DEF EdtInv, Job
  <2>4. Follows(job[j]) => Follows(job[j])'
    BY <2>1, <2>2, <2>3 DEF Follows
  <2> QED BY <2>1, <2>3, <2>4 DEF FollowInv
<1>11. ASSUME NEW j \in Job, PublishResult(j) PROVE FollowInv'
  <2>1. /\ job' = [job EXCEPT ![j] = Blank("done", FALSE)] /\ edtJob = j
        /\ job[j].phase = "fetched"
        /\ state'.endpoints = Result(job[j]) /\ ~state'.refreshing
        /\ UNCHANGED <<settings, applying, pc, requested, closed, unrequested>>
    BY <1>11 DEF PublishResult, Finished
  <2>2. j = requested /\ job'[j] = Blank("done", FALSE)
    BY <1>a, <1>b, <2>1 DEF EdtInv, Job
  <2>3. Carries(job[j])
    BY <1>b, <2>1 DEF IInv, JobInv
  <2>4. Follows(job[j]) => BoardFits'
    <3> SUFFICES ASSUME Follows(job[j]) PROVE BoardFits'
      OBVIOUS
    <3>1. job[j].endpoints = settings.endpoints /\ job[j].service = settings.service
      BY <2>1 DEF Follows
    <3>2. /\ Listed(state'.endpoints) = job[j].endpoints
          /\ \A e \in job[j].endpoints : state'.endpoints[e].service = job[j].service
      BY <1>a, <2>1, <2>3, ResultFits
    <3> QED BY <2>1, <3>1, <3>2 DEF BoardFits, Listed
  <2>5. job'[j].phase = "done" /\ ~job'[j].cancelled
    BY <2>2 DEF Blank
  <2>6. Follows(job[j]) => Follows(job[j])'
    BY <2>4, <2>5 DEF Follows
  <2> QED BY <2>1, <2>2, <2>6 DEF FollowInv
<1>12. ASSUME NEW j \in Job, Stop(j) PROVE FollowInv'
  <2>1. /\ job[j].cancelled /\ job' = [job EXCEPT ![j] = Blank("done", FALSE)]
        /\ UNCHANGED <<settings, applying, state, pc, requested, closed, unrequested>>
    BY <1>12 DEF Stop
  <2>2. CASE j = requested
    <3>1. ~Follows(job[requested])
      BY <2>1, <2>2 DEF Follows
    <3> QED BY <2>1, <3>1 DEF FollowInv
  <2>3. CASE j # requested
    <3>1. requested > 0 => job'[requested] = job[requested]
      BY <1>a, <1>c, <2>1, <2>3
    <3>2. Follows(job[requested]) /\ requested > 0 => Follows(job[requested])'
      BY <2>1, <3>1 DEF Follows, BoardFits
    <3> QED BY <2>1, <3>2 DEF FollowInv
  <2> QED BY <2>2, <2>3
<1>13. CASE UpdateEndpoints
  BY <1>13 DEF UpdateEndpoints, FollowInv
<1>14. CASE UpdateService
  <2>1. applying # NoService /\ unrequested' = unrequested
    BY <1>14 DEF UpdateService
  <2> QED BY <2>1 DEF FollowInv
<1>15. CASE CloseProject
  BY <1>15 DEF CloseProject, FollowInv
<1>16. ASSUME UNCHANGED <<settings, applying, state, pc, job, requested, closed, unrequested>>
       PROVE  FollowInv'
  BY <1>16 DEF FollowInv, Follows, BoardFits
<1>17. ASSUME NEW j \in Job, StartPublish(j) PROVE FollowInv'
  BY <1>16, <1>17 DEF StartPublish
<1>18. CASE UNCHANGED vars
  BY <1>16, <1>18 DEF vars
<1> HIDE DEF FollowInv
<1> QED
  <2>1. CASE \E c \in Caller : CallerStep(c)
    BY <1>1, <1>2, <1>3, <2>1 DEF CallerStep
  <2>2. CASE \E j \in Job : JobStep(j)
    BY <1>4, <1>5, <1>7, <1>8, <1>9, <1>10, <1>11, <1>12, <1>17, <2>2 DEF JobStep
  <2> QED BY <1>13, <1>14, <1>15, <1>18, <2>1, <2>2 DEF Next

\* With the EDT as only caller, the board is about exactly the saved endpoints and the saved
\* service once the refresh asked for after the last settings change is over, however many
\* refreshes and changes went before it: refresh() misses no settings.
THEOREM BoardFollowsSettings == ASSUME Caller = {Edt} PROVE Spec => []BoardMatchesSettings
<1>1. EInv /\ FollowInv => BoardMatchesSettings
  <2> SUFFICES ASSUME EInv, FollowInv, requested > 0, ~unrequested, ~closed,
                      \A c \in Caller : pc[c] \notin {"cancelled", "launched"},
                      \A j \in Job : ~Live(j)
               PROVE  BoardFits
    BY DEF BoardMatchesSettings, BoardFits
  <2>1. requested \in Job /\ pc[Edt] # "cancelled" /\ job[requested] \in JobRecord
    BY CallerAssumption, BoundAssumption DEF EInv, IInv, TypeOK, Job
  <2>2. Follows(job[requested]) /\ ~Live(requested)
    BY <2>1 DEF FollowInv
  <2>3. job[requested].phase = "done"
    BY <2>2 DEF Follows, Live
  <2> QED BY <2>2, <2>3 DEF Follows
<1> QED BY <1>1, InitFollowInv, NextFollowInv, EdtInvariant, PTL DEF Spec
=============================================================================
