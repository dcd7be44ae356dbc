------------------------------ MODULE MCRefresh ------------------------------
(***************************************************************************)
(* A small instance of RefreshService for TLC.                             *)
(***************************************************************************)
EXTENDS RefreshService, TLC

CONSTANTS e1, e2

\* Endpoints are interchangeable; services are too, but one is NoService's counterpart.
EndpointSymmetry == Permutations({e1, e2})
==============================================================================
