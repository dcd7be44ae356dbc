------------------------------ MODULE Snapshots ------------------------------
(***************************************************************************)
(* The immutable data a refresh works on: core/RefreshState.kt.            *)
(*                                                                         *)
(* A snapshot is what the plugin knows of one daemon.  Findings are        *)
(* abstracted to the service they were fetched for (NoService while the    *)
(* list is still the initial empty one), timestamps to natural numbers     *)
(* (0 is "never", the code's null), errors to a flag.                      *)
(***************************************************************************)
EXTENDS Naturals

CONSTANTS Endpoint,   \* normalized daemon URLs a project may list
          Service,    \* names a project may query the daemons for
          NoService,  \* the null of EndpointSnapshot.service
          Absent      \* stands for the snapshot of an endpoint that is not listed

Snapshot == [service : Service, findings : Service \cup {NoService},
             last : Nat, error : BOOLEAN]

ASSUME NullAssumption == NoService \notin Service /\ Absent \notin Snapshot

\* RefreshState.endpoints, at most one snapshot per endpoint.
Boards == [Endpoint -> Snapshot \cup {Absent}]

Listed(board) == {e \in Endpoint : board[e] # Absent}

NoBoard == [e \in Endpoint |-> Absent]

\* EndpointSnapshot(endpoint, service = service)
NewSnapshot(service) ==
  [service |-> service, findings |-> NoService, last |-> 0, error |-> FALSE]

\* Mutant: findings survive a change of service.
AnyService(snapshot, service) == snapshot

\* A snapshot made for another service says nothing about this one.
ForService(snapshot, service) ==
  IF snapshot.service = service THEN snapshot ELSE NewSnapshot(service)

\* Mutants: a success keeps the old list; a failure starts from nothing.
StampOnly(snapshot, fetchedFor, now) ==
  [snapshot EXCEPT !.last = now, !.error = FALSE]

ForgetOnFailure(snapshot) == [NewSnapshot(snapshot.service) EXCEPT !.error = TRUE]

\* onSuccess and onFailure of EndpointSnapshot.updated: a failure keeps the findings.
UpdatedOnSuccess(snapshot, fetchedFor, now) ==
  [snapshot EXCEPT !.findings = fetchedFor, !.last = now, !.error = FALSE]

UpdatedOnFailure(snapshot) == [snapshot EXCEPT !.error = TRUE]

\* What a refresh of endpoints for service starts from, given the board on show.
Carried(board, endpoints, service) ==
  [e \in Endpoint |->
     IF e \notin endpoints THEN Absent
     ELSE IF board[e] = Absent THEN NewSnapshot(service)
     ELSE ForService(board[e], service)]
==============================================================================
