---------------------------- MODULE FindingsBoard ----------------------------
(***************************************************************************)
(* What the refresh of findings promises to whoever watches the topic (the *)
(* tool window and the editor highlighter), with no job, thread or queue:  *)
(* the board goes from one refresh to the next, every refresh starts from  *)
(* what the last one left, and its result moves every endpoint forward or  *)
(* marks it failed and keeps what was known.                               *)
(***************************************************************************)
EXTENDS Snapshots

VARIABLES board,        \* endpoint -> snapshot, for the endpoints on show
          refreshing    \* the spinner

boardVars == <<board, refreshing>>

BoardInit == board = NoBoard /\ refreshing = FALSE

\* A refresh starts, or replaces the one under way: nothing known is lost unless the
\* endpoint left the settings or is now queried for another service.
Begin == \E endpoints \in SUBSET Endpoint, service \in Service :
           /\ board' = Carried(board, endpoints, service)
           /\ refreshing' = TRUE

\* The result for one endpoint: newer findings for its service, or the old ones in error.
Settles(old, new) ==
  \/ /\ new.last > old.last
     /\ new = UpdatedOnSuccess(old, old.service, new.last)
  \/ new = UpdatedOnFailure(old)

Finish ==
  /\ refreshing
  /\ refreshing' = FALSE
  /\ Listed(board') = Listed(board)
  /\ \A e \in Listed(board) : Settles(board[e], board'[e])

BoardNext == Begin \/ Finish

BoardSpec == BoardInit /\ [][BoardNext]_boardVars
==============================================================================
