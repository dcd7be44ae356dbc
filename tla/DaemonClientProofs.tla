------------------------- MODULE DaemonClientProofs -------------------------
(***************************************************************************)
(* Theorems about DaemonClient, for any redirect limit.                    *)
(***************************************************************************)
EXTENDS DaemonClient, TLAPS

\* The two sides of the handshake: the handler runs only for a cancelled continuation, and a
\* thread past the store has stored.
HandshakeInv ==
  /\ call = "ready" => handler = "none" /\ task = "none"
  /\ handler \in {"called", "disconnected", "finished"} => continuation = "cancelled"
  /\ task \in {"stored", "reading"} => stored
  /\ NoOrphanedRead

\* A request carrying a secret is still at its endpoint.
AtHomeInv == /\ secret # "none" => at = "endpoint"
             /\ call = "waiting" => secret # "unfit"
             /\ secret = "unfit" => task = "none"
             /\ SecretStaysHome

LEMMA InitInv == FetchInit => FetchTypeOK /\ HandshakeInv /\ AtHomeInv
<1>1. FetchInit => FetchTypeOK
  <2>1. FetchInit => hops \in 0..MaxHops
    BY MaxHopsAssumption DEF FetchInit
  <2>2. FetchInit => stored \in BOOLEAN
    BY DEF FetchInit
  <2> QED BY <2>1, <2>2 DEF FetchInit, FetchTypeOK
<1>2. FetchInit => HandshakeInv /\ AtHomeInv
  BY DEF FetchInit, HandshakeInv, NoOrphanedRead, AtHomeInv, SecretStaysHome
<1> QED BY <1>1, <1>2

\* Every value a step writes is of its variable's type.
THEOREM TypeCorrect == FetchSpec => []FetchTypeOK
<1>1. FetchInit => FetchTypeOK
  BY InitInv
<1>2. FetchTypeOK /\ [FetchNext]_fetchVars => FetchTypeOK'
  <2> SUFFICES ASSUME FetchTypeOK, [FetchNext]_fetchVars PROVE FetchTypeOK'
    OBVIOUS
  <2> USE DEF FetchTypeOK, callVars, netVars
  <2>1. CASE Refuse
    BY <2>1 DEF Refuse
  <2>2. CASE Submit
    BY <2>2 DEF Submit
  <2>3. CASE InstallHandler
    BY <2>3 DEF InstallHandler
  <2>4. CASE Deliver
    BY <2>4 DEF Deliver
  <2>5. CASE Cancel("timer") \/ Cancel("refresh")
    BY <2>5 DEF Cancel
  <2>6. CASE Disconnect
    BY <2>6 DEF Disconnect
  <2>7. CASE CancelTask
    BY <2>7 DEF CancelTask
  <2>8. CASE RunTask
    BY <2>8 DEF RunTask
  <2>9. CASE Redirect
    BY <2>9, MaxHopsAssumption DEF Redirect, Send
  <2>10. CASE Open
    BY <2>10 DEF Open, Send
  <2>11. CASE Store
    BY <2>11 DEF Store
  <2>12. CASE CheckActive
    BY <2>12 DEF CheckActive
  <2>13. CASE Answer \/ NetworkFails \/ ReadBroken
    BY <2>13 DEF Answer, NetworkFails, ReadBroken, Leave
  <2>14. CASE Die
    BY <2>14 DEF Die
  <2>15. CASE CheckBeforeResume
    BY <2>15 DEF CheckBeforeResume
  <2>16. CASE Resume
    BY <2>16 DEF Resume
  <2>17. CASE UNCHANGED fetchVars
    BY <2>17 DEF fetchVars
  <2> QED BY <2>1, <2>2, <2>3, <2>4, <2>5, <2>6, <2>7, <2>8, <2>9, <2>10, <2>11, <2>12,
             <2>13, <2>14, <2>15, <2>16, <2>17
          DEF FetchNext, CallerCoroutine, Canceller, Unaided, Network
<1> QED BY <1>1, <1>2, PTL DEF FetchSpec

\* The handshake of execute: store the connection, then check the continuation, against mark
\* the continuation, then look for the connection.  Whichever thread comes first, no pool
\* thread is left reading from a daemon nobody waits for.
THEOREM NeverOrphaned == FetchSpec => []NoOrphanedRead
<1>1. FetchInit => HandshakeInv
  BY InitInv
<1>2. HandshakeInv /\ [FetchNext]_fetchVars => HandshakeInv'
  <2> SUFFICES ASSUME HandshakeInv, [FetchNext]_fetchVars PROVE HandshakeInv'
    OBVIOUS
  <2> USE DEF HandshakeInv, NoOrphanedRead, callVars, netVars
  <2>1. CASE CallerCoroutine
    BY <2>1 DEF CallerCoroutine, Refuse, Submit, InstallHandler, Deliver
  <2>2. CASE Cancel("timer") \/ Cancel("refresh")
    BY <2>2 DEF Cancel
  <2>3. CASE Disconnect
    BY <2>3 DEF Disconnect
  <2>4. CASE CancelTask
    BY <2>4 DEF CancelTask
  <2>5. CASE RunTask \/ Redirect \/ Open \/ Store
    BY <2>5 DEF RunTask, Redirect, Open, Store
  <2>6. CASE CheckActive
    BY <2>6 DEF CheckActive
  <2>7. CASE Answer \/ NetworkFails \/ ReadBroken \/ Die
    BY <2>7 DEF Answer, NetworkFails, ReadBroken, Leave, Die
  <2>8. CASE CheckBeforeResume \/ Resume
    BY <2>8 DEF CheckBeforeResume, Resume
  <2>9. CASE UNCHANGED fetchVars
    BY <2>9 DEF fetchVars
  <2> QED BY <2>1, <2>2, <2>3, <2>4, <2>5, <2>6, <2>7, <2>8, <2>9
          DEF FetchNext, Canceller, Unaided, Network
<1>3. HandshakeInv => NoOrphanedRead
  BY DEF HandshakeInv
<1> QED BY <1>1, <1>2, <1>3, PTL DEF FetchSpec

\* followRedirects(secret == null) and the refusals before the request: a secret reaches its
\* endpoint and nobody else.
THEOREM SecretAlwaysHome == FetchSpec => []SecretStaysHome
<1>1. FetchInit => AtHomeInv
  BY InitInv
<1>2. AtHomeInv /\ [FetchNext]_fetchVars => AtHomeInv'
  <2> SUFFICES ASSUME AtHomeInv, [FetchNext]_fetchVars PROVE AtHomeInv'
    OBVIOUS
  <2> USE DEF AtHomeInv, SecretStaysHome, callVars, netVars
  <2>1. CASE CallerCoroutine
    BY <2>1 DEF CallerCoroutine, Refuse, Submit, InstallHandler, Deliver
  <2>2. CASE Canceller
    BY <2>2 DEF Canceller, Cancel, Disconnect, CancelTask
  <2>3. CASE Redirect
    BY <2>3 DEF Redirect, Send, FollowsRedirects
  <2>4. CASE Open
    BY <2>4 DEF Open, Send
  <2>5. CASE Unaided
    BY <2>5 DEF Unaided, RunTask, Store, CheckActive, ReadBroken, Leave, CheckBeforeResume,
                Resume
  <2>6. CASE Answer \/ NetworkFails \/ Die
    BY <2>6 DEF Answer, NetworkFails, Leave, Die
  <2>7. CASE UNCHANGED fetchVars
    BY <2>7 DEF fetchVars
  <2> QED BY <2>1, <2>2, <2>3, <2>4, <2>5, <2>6, <2>7 DEF FetchNext, Network
<1>3. AtHomeInv => SecretStaysHome
  BY DEF AtHomeInv
<1> QED BY <1>1, <1>2, <1>3, PTL DEF FetchSpec
=============================================================================
