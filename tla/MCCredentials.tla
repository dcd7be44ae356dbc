---------------------------- MODULE MCCredentials ----------------------------
(***************************************************************************)
(* Where the secrets of an endpoint come from: the settings dialog, and    *)
(* the token file of the CLI.  The two do not share state, so that each is *)
(* explored while the other rests: which one it is, is chosen at the       *)
(* start.  A loopback daemon, a hub over HTTPS and the same hub over plain *)
(* HTTP, in several spellings.                                             *)
(***************************************************************************)
EXTENDS SettingsDialog, TokenFile

VARIABLE part

U(scheme, host, numbers, tidy, flawed) ==
  [scheme |-> scheme, host |-> host,
   ports |-> [i \in DOMAIN numbers |-> [value |-> numbers[i], signed |-> FALSE]],
   tidy |-> tidy, flawed |-> flawed]

Daemon == U("http", "loopback", <<4318>>, TRUE, FALSE)
Untidy == U("http", "loopback", <<4318>>, FALSE, FALSE)
Hub == U("https", "hub", <<>>, TRUE, FALSE)
HubPort == U("https", "hub", <<443>>, TRUE, FALSE)
PlainHub == U("http", "hub", <<80>>, TRUE, FALSE)
Flawed == U("http", "hub", <<>>, TRUE, TRUE)
Ftp == U("other", "hub", <<>>, TRUE, FALSE)

PersistedLists == {<<Daemon>>, <<Flawed, HubPort, Hub>>}
TypedLists == {<<Blank>>, <<Untidy, HubPort, Daemon>>, <<Hub, PlainHub>>, <<Ftp, Hub>>}

\* The endpoints that the token file may be for, and what a login stores.
BarePlainHub == U("http", "hub", <<>>, TRUE, FALSE)
Configured == <<DefaultEndpoint, Hub, BarePlainHub>>
HubUrls == {U("https", "hub", <<443>>, FALSE, FALSE), BarePlainHub}

\* The hypotheses of the theorems about lists.
ASSUME ListsSettle == OnePort /\ TextsSettle

MCInit ==
  \/ /\ part = "dialog" /\ Init
     /\ TokenInit /\ own = [e \in Endpoint |-> FALSE]
  \/ /\ part = "file" /\ TokenInit
     /\ Init /\ saved = [p \in Project |-> [endpoints |-> <<Daemon>>, service |-> ""]]

MCNext ==
  /\ UNCHANGED part
  /\ \/ part = "dialog" /\ Next /\ UNCHANGED tokenVars
     \/ part = "file" /\ TokenNext /\ UNCHANGED vars

MCSpec == MCInit /\ [][MCNext]_<<part, vars, tokenVars>>
=============================================================================
