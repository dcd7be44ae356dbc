---------------------------- MODULE DaemonClient ----------------------------
(***************************************************************************)
(* DaemonClient.fetch: one request to one daemon.                          *)
(*                                                                         *)
(* Four parties: the caller's coroutine, suspended in execute; a thread of *)
(* the application pool, which does the blocking request; the five-second  *)
(* timer of withTimeoutOrNull; and the refresh, which may cancel the call. *)
(* The pool thread stores the connection and then checks the continuation; *)
(* a canceller marks the continuation and then looks for the connection.   *)
(* HttpRequests and coroutines are external, modelled from their use here. *)
(***************************************************************************)
EXTENDS Naturals

CONSTANT MaxHops   \* bound: redirects HttpRequests follows

ASSUME MaxHopsAssumption == MaxHops \in Nat

VARIABLES secret,        \* "none", "fit" to be sent, or "unfit": refused before any request
          call,          \* "ready", "waiting" in execute, "ended"
          outcome,       \* what fetch returned or threw, "none" before
          continuation,  \* "none", "active", "resumed", "cancelled"
          cancelledBy,   \* "nobody", "timer", "refresh"
          handler,       \* invokeOnCancellation: "none", "installed", "called",
                         \* "disconnected" (its first line ran), "finished"
          task,          \* where the pool thread is
          answer,        \* what it will resume with
          stored,        \* the AtomicReference holds the connection
          connection,    \* "none", "open", "closed"
          at, hops,      \* host the request is at, redirects followed
          sentTo         \* history: hosts that received the secret

fetchVars == <<secret, call, outcome, continuation, cancelledBy, handler, task, answer, stored,
          connection, at, hops, sentTo>>
callVars == <<secret, call, outcome>>
netVars == <<connection, at, hops, sentTo>>

FetchInit ==
  /\ secret \in {"none", "fit", "unfit"}
  /\ call = "ready" /\ outcome = "none"
  /\ continuation = "none" /\ cancelledBy = "nobody" /\ handler = "none"
  /\ task = "none" /\ answer = "none" /\ stored = FALSE
  /\ connection = "none" /\ at = "endpoint" /\ hops = 0 /\ sentTo = {}
-----------------------------------------------------------------------------
(* The calling coroutine *)

\* credentialRefusal or the header-logging check speaks before anything is sent.
Refuse ==
  /\ call = "ready" /\ secret = "unfit"
  /\ call' = "ended" /\ outcome' = "refused"
  /\ UNCHANGED <<secret, continuation, cancelledBy, handler, task, answer, stored>>
  /\ UNCHANGED netVars

\* withTimeoutOrNull starts the timer, execute submits the task.
Submit ==
  /\ call = "ready" /\ secret # "unfit"
  /\ call' = "waiting" /\ continuation' = "active" /\ task' = "queued"
  /\ UNCHANGED <<secret, outcome, cancelledBy, handler, answer, stored>>
  /\ UNCHANGED netVars

\* invokeOnCancellation, after the submit: called at once when the cancellation came first.
InstallHandler ==
  /\ call = "waiting" /\ handler = "none"
  /\ handler' = IF continuation = "cancelled" THEN "called" ELSE "installed"
  /\ UNCHANGED callVars
  /\ UNCHANGED <<continuation, cancelledBy, task, answer, stored>>
  /\ UNCHANGED netVars

\* Mutant: the call is not over before its blocking task is.
DeliverAfterTask ==
  /\ call = "waiting" /\ handler # "none" /\ task = "over"
  /\ call' = "ended"
  /\ outcome' = IF continuation = "resumed" THEN answer ELSE "timeout"
  /\ UNCHANGED <<secret, continuation, cancelledBy, handler, task, answer, stored>>
  /\ UNCHANGED netVars

\* The coroutine resumes, once its block and a running handler are through.  An answer
\* that was overtaken by a cancellation on its way is dropped.
Deliver ==
  /\ call = "waiting" /\ handler # "none"
  /\ \/ continuation = "resumed"
     \/ continuation = "cancelled" /\ handler = "finished"
  /\ call' = "ended"
  /\ outcome' = CASE cancelledBy = "nobody"  -> answer
                  [] cancelledBy = "timer"   -> "timeout"
                  [] cancelledBy = "refresh" -> "cancelled"
  /\ UNCHANGED <<secret, continuation, cancelledBy, handler, task, answer, stored>>
  /\ UNCHANGED netVars
-----------------------------------------------------------------------------
(* Cancellation, on the canceller's thread *)

Cancel(who) ==
  /\ call = "waiting" /\ cancelledBy = "nobody"
  /\ cancelledBy' = who
  /\ continuation' = IF continuation = "active" THEN "cancelled" ELSE continuation
  /\ handler' = IF continuation = "active" /\ handler = "installed" THEN "called"
                ELSE handler
  /\ UNCHANGED callVars
  /\ UNCHANGED <<task, answer, stored>>
  /\ UNCHANGED netVars

\* Mutant: the handler relies on the interrupt alone.
InterruptOnly ==
  /\ handler = "called"
  /\ handler' = "disconnected"
  /\ UNCHANGED callVars
  /\ UNCHANGED <<continuation, cancelledBy, task, answer, stored>>
  /\ UNCHANGED netVars

\* connection.get()?.disconnect()
Disconnect ==
  /\ handler = "called"
  /\ handler' = "disconnected"
  /\ connection' = IF stored THEN "closed" ELSE connection
  /\ UNCHANGED callVars
  /\ UNCHANGED <<continuation, cancelledBy, task, answer, stored, at, hops, sentTo>>

\* task.cancel(true): a queued task never runs; blocking socket calls ignore the interrupt.
CancelTask ==
  /\ handler = "disconnected"
  /\ handler' = "finished"
  /\ task' = IF task = "queued" THEN "over" ELSE task
  /\ UNCHANGED callVars
  /\ UNCHANGED <<continuation, cancelledBy, answer, stored>>
  /\ UNCHANGED netVars
-----------------------------------------------------------------------------
(* The pool thread *)

\* Mutant: redirects are followed with a secret too.
AlwaysFollows == TRUE

FollowsRedirects == secret = "none"

RunTask ==
  /\ task = "queued"
  /\ task' = "opening"
  /\ UNCHANGED callVars
  /\ UNCHANGED <<continuation, cancelledBy, handler, answer, stored>>
  /\ UNCHANGED netVars

\* request.connection sends the request, headers included, to the host it is at.
Send == sentTo' = IF secret = "fit" THEN sentTo \cup {at} ELSE sentTo

\* The host redirects: followed inside request.connection, if at all.
Redirect ==
  /\ task = "opening" /\ FollowsRedirects /\ hops < MaxHops
  /\ Send
  /\ at' = "elsewhere" /\ hops' = hops + 1
  /\ UNCHANGED callVars
  /\ UNCHANGED <<continuation, cancelledBy, handler, task, answer, stored, connection>>

Open ==
  /\ task = "opening"
  /\ Send
  /\ connection' = "open" /\ task' = "opened"
  /\ UNCHANGED callVars
  /\ UNCHANGED <<continuation, cancelledBy, handler, answer, stored, at, hops>>

\* connection.set(http)
Store ==
  /\ task = "opened"
  /\ stored' = TRUE /\ task' = "stored"
  /\ UNCHANGED callVars
  /\ UNCHANGED <<continuation, cancelledBy, handler, answer>>
  /\ UNCHANGED netVars

\* Mutant: the continuation is not checked after the connection is stored.
ReadUnchecked ==
  /\ task = "stored"
  /\ task' = "reading"
  /\ UNCHANGED callVars
  /\ UNCHANGED <<continuation, cancelledBy, handler, answer, stored>>
  /\ UNCHANGED netVars

\* if (!continuation.isActive) disconnect and give up.
CheckActive ==
  /\ task = "stored"
  /\ IF continuation = "active"
       THEN task' = "reading" /\ UNCHANGED connection
       ELSE task' = "over" /\ connection' = "closed"
  /\ UNCHANGED callVars
  /\ UNCHANGED <<continuation, cancelledBy, handler, answer, stored, at, hops, sentTo>>

\* The block of connect leaves with a result or an exception; HttpRequests closes the rest.
Leave(result) ==
  /\ answer' = result /\ task' = "answering"
  /\ connection' = IF connection = "open" THEN "closed" ELSE connection
  /\ UNCHANGED callVars
  /\ UNCHANGED <<continuation, cancelledBy, handler, stored, at, hops, sentTo>>

\* The daemon answers: findings, or another status, more than 5 MiB, a text that is no array.
Answer == /\ task = "reading" /\ connection = "open"
          /\ \E result \in {"findings", "failure"} : Leave(result)

\* No connection can be made, or it breaks or stays silent for five seconds.
NetworkFails == task \in {"opening", "reading"} /\ Leave("failure")

\* A read of a connection that was disconnected fails at once.
ReadBroken == task = "reading" /\ connection = "closed" /\ Leave("failure")

\* An Error is no Exception: the pool swallows it and nobody resumes the continuation.
Die ==
  /\ task \in {"opening", "reading"}
  /\ task' = "over"
  /\ connection' = IF connection = "open" THEN "closed" ELSE connection
  /\ UNCHANGED callVars
  /\ UNCHANGED <<continuation, cancelledBy, handler, answer, stored, at, hops, sentTo>>

\* if (continuation.isActive) ...
CheckBeforeResume ==
  /\ task = "answering"
  /\ task' = IF continuation = "active" THEN "resuming" ELSE "over"
  /\ UNCHANGED callVars
  /\ UNCHANGED <<continuation, cancelledBy, handler, answer, stored>>
  /\ UNCHANGED netVars

\* ... continuation.resumeWith(...), which a cancelled continuation ignores.
Resume ==
  /\ task = "resuming"
  /\ task' = "over"
  /\ continuation' = IF continuation = "active" THEN "resumed" ELSE continuation
  /\ UNCHANGED callVars
  /\ UNCHANGED <<cancelledBy, handler, answer, stored>>
  /\ UNCHANGED netVars

CallerCoroutine == Refuse \/ Submit \/ InstallHandler \/ Deliver
Canceller == Cancel("timer") \/ Cancel("refresh") \/ Disconnect \/ CancelTask
\* Steps of the pool thread that wait for nobody, and those that wait for the network.
Unaided == RunTask \/ Store \/ CheckActive \/ ReadBroken \/ CheckBeforeResume \/ Resume
Network == Redirect \/ Open \/ Answer \/ NetworkFails \/ Die

FetchNext == CallerCoroutine \/ Canceller \/ Unaided \/ Network

FetchSpec == FetchInit /\ [][FetchNext]_fetchVars

\* Threads run and the timer fires; the network owes nothing, not even an error.
FetchFairness == /\ WF_fetchVars(CallerCoroutine)
            /\ WF_fetchVars(Cancel("timer"))
            /\ WF_fetchVars(Disconnect \/ CancelTask)
            /\ WF_fetchVars(Unaided)

FetchFairSpec == FetchSpec /\ FetchFairness
-----------------------------------------------------------------------------
FetchTypeOK ==
  /\ secret \in {"none", "fit", "unfit"}
  /\ call \in {"ready", "waiting", "ended"}
  /\ outcome \in {"none", "refused", "findings", "failure", "timeout", "cancelled"}
  /\ continuation \in {"none", "active", "resumed", "cancelled"}
  /\ cancelledBy \in {"nobody", "timer", "refresh"}
  /\ handler \in {"none", "installed", "called", "disconnected", "finished"}
  /\ task \in {"none", "queued", "opening", "opened", "stored", "reading", "answering",
               "resuming", "over"}
  /\ answer \in {"none", "findings", "failure"}
  /\ stored \in BOOLEAN
  /\ connection \in {"none", "open", "closed"}
  /\ at \in {"endpoint", "elsewhere"}
  /\ hops \in 0..MaxHops
  /\ sentTo \subseteq {"endpoint", "elsewhere"}

\* Once a cancellation has run its handler, the pool thread never waits on a connection
\* nobody will close: whichever of store-then-check and mark-then-look came first.
NoOrphanedRead == handler \in {"disconnected", "finished"} /\ task = "reading"
                    => connection = "closed"

\* A secret goes to its endpoint only, never to the target of a redirect, and an unfit one
\* goes nowhere.
SecretStaysHome == /\ sentTo \subseteq {"endpoint"}
                   /\ secret # "fit" => sentTo = {}

\* Every fetch ends, whatever the daemon does or leaves undone.
CallEnds == call = "waiting" ~> call = "ended"

\* A cancelled call gives its pool thread back without the daemon's help, once the
\* connection has been opened.
ThreadReturned ==
  continuation = "cancelled" /\ task \notin {"none", "queued", "opening"} ~> task = "over"
=============================================================================
