------------------------------ MODULE TokenFile ------------------------------
(***************************************************************************)
(* core/CliTokenFile.kt, and how refresh() uses it: the token of           *)
(* "perf-sentinel login", read at every refresh from a file that logins,   *)
(* logouts and hands change meanwhile.                                     *)
(*                                                                         *)
(* One refresh at a time: refreshes only read, and share nothing but what  *)
(* RefreshService is about.  A read of the file's content is one step; a   *)
(* half-written file is one that does not parse.                           *)
(***************************************************************************)
EXTENDS EndpointConfig

CONSTANTS Lines,         \* the endpoint list of the settings
          HubUrl,        \* what a login may store as hub_url
          Posix,         \* whether files have POSIX permissions
          None,
          MaxTime,       \* bound: the clock
          MaxChanges,    \* bound: changes of the file and of own credentials
          MaxRefreshes   \* bound: refreshes

Endpoint == ToSet(NormalizeEndpoints(Lines))

ASSUME LinesAssumption == Acceptable(Lines)
ASSUME PosixAssumption == Posix \in BOOLEAN
ASSUME BoundsAssumption == {MaxTime, MaxChanges, MaxRefreshes} \subseteq Nat

VARIABLES file,       \* None, or the file at the path
          own,        \* whether the password safe has a credential of the endpoint's own
          now,
          refresh,    \* the refresh in progress, or the last one
          outcome,    \* how each endpoint was asked in it
          seen,       \* history: contents the file has had since it began
          changes, refreshes

tokenVars == <<file, own, now, refresh, outcome, seen, changes, refreshes>>

\* What the file says: that it does not parse, or a token (the number of its login, and the
\* hub that issued it), the hub_url it is stored with, and when it expires.
Broken == [parses |-> FALSE]
Login(n, url, issuer, expires) ==
  [parses |-> TRUE, token |-> n, hub |-> url, issuer |-> issuer, expires |-> expires]

FileOf(kind, private, content) == [kind |-> kind, private |-> private, content |-> content]

\* normalizeEndpoints(listOf(hubUrl)).single(), or null
HubOf(url) == IF Acceptable(<<url>>) THEN NormalizeEndpoints(<<url>>)[1] ELSE None

Idle == [pc |-> "idle", open |-> FALSE, cli |-> None, startedAt |-> 0]

TokenInit ==
  /\ file = None
  /\ own \in [Endpoint -> BOOLEAN]
  /\ now = 0
  /\ refresh = Idle
  /\ outcome = [e \in Endpoint |-> "not asked"]
  /\ seen = {}
  /\ changes = 0 /\ refreshes = 0

(***************************************************************************)
(* The user, the CLI and time.                                             *)
(***************************************************************************)

PutFile(f) ==
  /\ changes < MaxChanges
  /\ changes' = changes + 1
  /\ file' = f
  /\ seen' = IF f = None THEN seen ELSE seen \cup {f.content}
  /\ UNCHANGED <<own, now, refresh, outcome, refreshes>>

\* perf-sentinel login: one hub at a time, owner-only, for one unit of time.
LogIn ==
  \E url \in HubUrl :
    PutFile(FileOf("regular", TRUE, Login(changes + 1, url, HubOf(url), now + 1)))

LogOut ==
  /\ file # None
  /\ PutFile(None)

\* By hand or by accident: another mode, a link, an empty hub_url, a truncated file.
Tamper ==
  /\ file # None
  /\ \/ PutFile([file EXCEPT !.private = ~@])
     \/ PutFile([file EXCEPT !.kind = IF @ = "regular" THEN "link" ELSE "regular"])
     \/ file.content.parses /\ PutFile([file EXCEPT !.content.hub = Blank])
     \/ PutFile([file EXCEPT !.content = Broken])

ChangeOwn(e) ==
  /\ changes < MaxChanges
  /\ changes' = changes + 1
  /\ own' = [own EXCEPT ![e] = ~@]
  /\ UNCHANGED <<file, now, refresh, outcome, seen, refreshes>>

Tick ==
  /\ now < MaxTime
  /\ now' = now + 1
  /\ UNCHANGED <<file, own, refresh, outcome, seen, changes, refreshes>>

(***************************************************************************)
(* The refresh.                                                            *)
(***************************************************************************)

At(pc) == refresh.pc = pc
environment == <<file, own, now, changes>>

\* Mutant: a token once read is kept for the next refresh.
BeginCached ==
  /\ At("idle")
  /\ refreshes < MaxRefreshes
  /\ refreshes' = refreshes + 1
  /\ refresh' = [refresh EXCEPT !.pc = IF refresh.cli = None THEN "attributes" ELSE "clock"]
  /\ outcome' = [e \in Endpoint |-> "not asked"]
  /\ seen' = {f.content : f \in {file} \ {None}}
  /\ UNCHANGED <<file, own, now, changes>>

Begin ==
  /\ At("idle")
  /\ refreshes < MaxRefreshes
  /\ refreshes' = refreshes + 1
  /\ refresh' = [Idle EXCEPT !.pc = "attributes"]
  /\ outcome' = [e \in Endpoint |-> "not asked"]
  /\ seen' = {f.content : f \in {file} \ {None}}
  /\ UNCHANGED <<file, own, now, changes>>

Regular == file # None /\ file.kind = "regular"

\* read, its first lines.  What is refused here is logged and skipped by readCliToken.
ReadAttributes ==
  /\ At("attributes")
  /\ refresh' = [refresh EXCEPT !.pc = IF Regular THEN "mode" ELSE "clock"]
  /\ UNCHANGED <<environment, outcome, seen, refreshes>>

ReadMode ==
  /\ At("mode")
  /\ refresh' = IF file = None THEN [refresh EXCEPT !.pc = "clock"]
                ELSE [refresh EXCEPT !.pc = "open", !.open = Posix /\ ~file.private]
  /\ UNCHANGED <<environment, outcome, seen, refreshes>>

\* Mutant: a blank hub_url is not refused.
AnyHub(content) == content.parses

Usable(content) == content.parses /\ content.hub # Blank

\* newInputStream, which follows no link, and the parsing.
ReadContent ==
  /\ At("open")
  /\ refresh' = [refresh EXCEPT !.pc = "clock",
                                !.cli = IF Regular /\ Usable(file.content) THEN file.content ELSE None]
  /\ UNCHANGED <<environment, outcome, seen, refreshes>>

ReadClock ==
  /\ At("clock")
  /\ refresh' = [refresh EXCEPT !.pc = "asking", !.startedAt = now]
  /\ UNCHANGED <<environment, outcome, seen, refreshes>>

\* forEndpoint
ForEndpoint(e) ==
  IF refresh.cli = None \/ HubOf(refresh.cli.hub) # e THEN "bare"
  ELSE IF refresh.open \/ refresh.cli.expires <= refresh.startedAt THEN "refused"
  ELSE "token"

SecretFor(e) == IF own[e] THEN "own" ELSE ForEndpoint(e)

\* One endpoint's coroutine: the password safe is read, which may fail, and fetch() refuses
\* a secret that may not be sent there.
Ask(e) ==
  /\ At("asking")
  /\ outcome[e] = "not asked"
  /\ \E answer \in {"failed", SecretFor(e)} :
       outcome' = [outcome EXCEPT ![e] =
         IF answer \in {"own", "token"} /\ ~CredentialAllowed(e) THEN "refused" ELSE answer]
  /\ UNCHANGED <<environment, refresh, seen, refreshes>>

\* awaitAll, and the publication that RefreshService models.
Finish ==
  /\ At("asking")
  /\ \A e \in Endpoint : outcome[e] # "not asked"
  /\ refresh' = [refresh EXCEPT !.pc = "idle"]
  /\ UNCHANGED <<environment, outcome, seen, refreshes>>

Refresh ==
  \/ Begin \/ ReadAttributes \/ ReadMode \/ ReadContent \/ ReadClock \/ Finish
  \/ \E e \in Endpoint : Ask(e)

TokenNext ==
  \/ LogIn \/ LogOut \/ Tamper \/ Tick
  \/ \E e \in Endpoint : ChangeOwn(e)
  \/ Refresh

TokenSpec == TokenInit /\ [][TokenNext]_tokenVars

(***************************************************************************)
(* Properties.                                                             *)
(***************************************************************************)

Content ==
  {Broken} \cup
  [parses : {TRUE}, token : 1 .. MaxChanges, hub : HubUrl \cup {Blank},
   issuer : {HubOf(url) : url \in HubUrl}, expires : 1 .. MaxTime + 1]

\* The type invariant; a refresh that asks has a token it could parse, or none.
TokenTypeOK ==
  /\ file \in [kind : {"regular", "link"}, private : BOOLEAN, content : Content] \cup {None}
  /\ own \in [Endpoint -> BOOLEAN]
  /\ now \in 0 .. MaxTime
  /\ refresh \in [pc : {"idle", "attributes", "mode", "open", "clock", "asking"},
                  open : BOOLEAN, cli : (Content \ {Broken}) \cup {None},
                  startedAt : 0 .. MaxTime]
  /\ outcome \in [Endpoint -> {"not asked", "failed", "own", "token", "bare", "refused"}]
  /\ seen \subseteq Content
  /\ changes \in 0 .. MaxChanges /\ refreshes \in 0 .. MaxRefreshes

\* A login's token is sent to the hub that issued it and nowhere else, the default endpoint
\* included, whatever becomes of the file.  Its trouble, a file open to others or an expired
\* login, stays there too: what else is not asked is what may not get a secret at all.
TokenGoesHome ==
  \A e \in Endpoint :
    /\ outcome[e] = "token" => refresh.cli.issuer = e
    /\ outcome[e] = "refused" =>
         \/ refresh.cli # None /\ HubOf(refresh.cli.hub) = e
         \/ ~CredentialAllowed(e)

\* The token sent was in the file at some time since the refresh began: a logout or a new
\* login applies to the next refresh at the latest.
TokenIsCurrent == \A e \in Endpoint : outcome[e] = "token" => refresh.cli \in seen
=============================================================================
