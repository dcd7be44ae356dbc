--------------------------- MODULE EndpointConfig ---------------------------
(***************************************************************************)
(* core/EndpointConfig.kt: what becomes of the lines of the endpoint list. *)
(*                                                                         *)
(* A line is blank or a URL in abstract syntax.  Its authority is a host   *)
(* and the numbers that follow it, each after a colon: java.net.URI takes  *)
(* h:80:80 as a registry-based authority.  A number may be signed (+80);   *)
(* leading zeros are not told apart.  tidy is FALSE for whatever else is   *)
(* rewritten: blanks around the line, capitals, trailing slashes, dot      *)
(* segments of the path.  flawed stands for a line that is no URI, names   *)
(* no host, or has user info, a query or a fragment.                       *)
(***************************************************************************)
EXTENDS SequencesExt

CONSTANTS Host,         \* hosts, paths included
          Loopback,     \* those that are localhost, 127.0.0.1 or [::1]
          DefaultHost,  \* 127.0.0.1
          Number        \* port numbers

ASSUME HostAssumption == Loopback \subseteq Host /\ DefaultHost \in Loopback
ASSUME NumberAssumption == {80, 443, 4318} \subseteq Number /\ Number \subseteq Nat

Port == [value : Number, signed : BOOLEAN]

Url == [scheme : {"http", "https", "other"}, host : Host, ports : Seq(Port),
        tidy : BOOLEAN, flawed : BOOLEAN]

Blank == [scheme |-> "none"]

DefaultEndpoint ==
  [scheme |-> "http", host |-> DefaultHost, ports |-> <<[value |-> 4318, signed |-> FALSE]>>,
   tidy |-> TRUE, flawed |-> FALSE]

\* What a sequence holds at some of its positions, in that order.
Picked(s, positions) ==
  LET upTo[n \in 0..Len(s)] == IF n = 0 THEN <<>>
                               ELSE IF n \in positions THEN Append(upTo[n - 1], s[n])
                               ELSE upTo[n - 1]
  IN upTo[Len(s)]

\* The endpoints a list of lines names: the default one when it names none.
Named(lines) ==
  LET urls == Picked(lines, {i \in DOMAIN lines : lines[i] # Blank})
  IN IF urls = <<>> THEN <<DefaultEndpoint>> ELSE urls

\* The require()s of normalizeEndpoints and the URISyntaxException: one bad line refuses all.
Valid(url) == url.scheme \in {"http", "https"} /\ ~url.flawed

Acceptable(lines) == \A url \in ToSet(Named(lines)) : Valid(url)

DefaultPort(scheme) == IF scheme = "http" THEN 80 ELSE 443

\* What follows the last colon is the port: printed as a number, dropped when it is the
\* scheme's default.  What precedes it is the host, whatever it holds.
NormalPorts(scheme, ports) ==
  CASE ports = <<>> -> <<>>
    [] ports # <<>> /\ Last(ports).value = DefaultPort(scheme) -> Front(ports)
    [] OTHER -> Append(Front(ports), [Last(ports) EXCEPT !.signed = FALSE])

Normal(url) == [url EXCEPT !.ports = NormalPorts(url.scheme, url.ports), !.tidy = TRUE]

\* .map { ... }.distinct()
NormalOnce(urls) ==
  LET normal == [i \in DOMAIN urls |-> Normal(urls[i])]
  IN Picked(normal, {i \in DOMAIN urls : \A j \in 1..i-1 : normal[j] # normal[i]})

\* normalizeEndpoints of an acceptable list.
NormalizeEndpoints(lines) == NormalOnce(Named(lines))

\* URI.getHost() is null for a registry-based authority: a second number, or a signed one.
CredentialAllowed(url) ==
  \/ url.scheme = "https"
  \/ /\ url.host \in Loopback
     /\ url.ports = <<>> \/ (Len(url.ports) = 1 /\ ~url.ports[1].signed)
=============================================================================
