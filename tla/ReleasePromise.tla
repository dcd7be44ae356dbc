--------------------------- MODULE ReleasePromise ----------------------------
(***************************************************************************)
(* What a release of a version promises: the Marketplace gets one          *)
(* author-signed ZIP, once, and GitHub, if it gets one at all, gets the    *)
(* same bytes, while the run that uploaded them still has them.            *)
(***************************************************************************)
CONSTANTS Tag, Signed, NoZip

VARIABLES market,    \* per version: the ZIP uploaded to the Marketplace
          releases,  \* per version: the ZIP of the GitHub release
          fresh      \* the versions whose GitHub release may still follow

vars == <<market, releases, fresh>>

Init ==
  /\ market = [t \in Tag |-> NoZip]
  /\ releases = [t \in Tag |-> NoZip]
  /\ fresh = {}

Upload(t) ==
  /\ market[t] = NoZip
  /\ \E z \in Signed : market' = [market EXCEPT ![t] = z]
  /\ fresh' \in {fresh, fresh \cup {t}}
  /\ UNCHANGED releases

Release(t) ==
  /\ t \in fresh
  /\ releases[t] = NoZip
  /\ releases' = [releases EXCEPT ![t] = market[t]]
  /\ fresh' = fresh \ {t}
  /\ UNCHANGED market

\* The run failed between the two: nothing will complete the release.
GiveUp(t) ==
  /\ t \in fresh
  /\ fresh' = fresh \ {t}
  /\ UNCHANGED <<market, releases>>

Next == \E t \in Tag : Upload(t) \/ Release(t) \/ GiveUp(t)

Spec == Init /\ [][Next]_vars
=============================================================================
