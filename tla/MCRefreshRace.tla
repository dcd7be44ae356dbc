--------------------------- MODULE MCRefreshRace ---------------------------
(***************************************************************************)
(* What ends whatever is awaited: the refreshes that two threads ask for,  *)
(* and the one fetch that they await of each endpoint.  RefreshService     *)
(* takes a fetch for one step that ends, which DaemonClient shows of it.   *)
(* The two do not share state, so that each is explored while the other    *)
(* rests: which one it is, is chosen at the start.                         *)
(***************************************************************************)
EXTENDS RefreshService, DaemonClient

VARIABLE part

MCInit ==
  \/ part = "refresh" /\ Init /\ FetchInit /\ secret = "none"
  \/ part = "fetch" /\ Init /\ FetchInit

MCNext ==
  /\ UNCHANGED part
  /\ \/ part = "refresh" /\ Next /\ UNCHANGED fetchVars
     \/ part = "fetch" /\ FetchNext /\ UNCHANGED vars

\* The fairness of both, each as long as it is its turn.
MCFairness ==
  LET refreshing == part = "refresh" fetching == part = "fetch" IN
  /\ \A c \in Caller : WF_vars(refreshing /\ (Launch(c) \/ Assign(c)))
  /\ WF_vars(refreshing /\ UpdateService)
  /\ \A j \in Job : WF_vars(refreshing /\ JobStep(j))
  /\ WF_fetchVars(fetching /\ CallerCoroutine)
  /\ WF_fetchVars(fetching /\ Cancel("timer"))
  /\ WF_fetchVars(fetching /\ (Disconnect \/ CancelTask))
  /\ WF_fetchVars(fetching /\ Unaided)

MCSpec == MCInit /\ [][MCNext]_<<part, vars, fetchVars>> /\ MCFairness
=============================================================================
