--------------------------- MODULE SettingsDialog ---------------------------
(***************************************************************************)
(* PerfSentinelConfigurable over PerfSentinelSettings and the IDE-wide     *)
(* password safe: one settings dialog per project.                         *)
(*                                                                         *)
(* A dialog runs on the EDT of its IDE, but syncCredentials hands its      *)
(* calls of the safe to another thread, one secret at a time, and the      *)
(* keychain behind the safe is the same for every project and every IDE of *)
(* the user.  Any of these calls may fail, and the user may cancel the     *)
(* progress window: the safe keeps what was written, the dialog what it    *)
(* showed.  A refused apply() changes nothing and is no step.              *)
(***************************************************************************)
EXTENDS EndpointConfig

CONSTANTS Project,
          Persisted,   \* endpoint lists a workspace file may hold, hand-edited ones included
          Text,        \* endpoint lists the user may type
          Name,        \* service names, "" included
          Secret,      \* texts a secret field may hold, trimmed
          Unsendable,  \* those with a control character
          MaxEdits     \* bound: edits in a behaviour

NoSecret == ""

ASSUME SecretAssumption == Unsendable \subseteq Secret /\ NoSecret \notin Secret
ASSUME ListAssumption == Text \cup Persisted \subseteq Seq(Url \cup {Blank}) /\ "" \in Name
ASSUME EditAssumption == MaxEdits \in Nat

VARIABLES safe,    \* secrets by endpoint, no entry where there is none
          saved,   \* per project: SettingsState
          dialog,  \* per project: the Configurable
          edits    \* edits made

vars == <<safe, saved, dialog, edits>>

Nothing == [x \in {} |-> NoSecret]

\* storedSecrets[endpoint].orEmpty(), and PasswordSafe.getPassword without its null.
Get(secrets, url) == IF url \in DOMAIN secrets THEN secrets[url] ELSE NoSecret

\* setPassword: an empty secret removes the entry.
Put(secrets, url, secret) ==
  [u \in IF secret = NoSecret THEN DOMAIN secrets \ {url} ELSE DOMAIN secrets \cup {url} |->
     IF u = url THEN secret ELSE secrets[u]]

\* Phases: "opening", "resetting" and "applying" are the three ways into syncCredentials.
\* fields: the secret fields; stored: storedSecrets; writes, targets, got: the writes left
\* to do, the endpoints to read back, and what was read; touched: history, the fields the
\* user edited since they were built.
Closed == [phase |-> "closed", text |-> <<>>, service |-> "", fields |-> Nothing,
           stored |-> Nothing, writes |-> Nothing, targets |-> {}, got |-> Nothing,
           touched |-> {}]

Init ==
  /\ safe = Nothing
  /\ saved \in [Project -> [endpoints : Persisted, service : Name]]
  /\ dialog = [p \in Project |-> Closed]
  /\ edits = 0
-----------------------------------------------------------------------------
(* PerfSentinelSettings *)

\* The lines normalizeEndpoints accepts on their own.
ValidLines(lines) ==
  Picked(lines, {i \in DOMAIN lines : lines[i] = Blank \/ Valid(lines[i])})

\* snapshot().endpoints
Snapshot(settings) == NormalizeEndpoints(ValidLines(settings.endpoints))

Queried(p) == Snapshot(saved[p])
-----------------------------------------------------------------------------
(* What the dialog knows *)

\* Mutant: every field is written.
AllFields(d) == d.fields

\* editedSecrets
Edited(d) == [u \in {v \in DOMAIN d.fields : d.fields[v] # Get(d.stored, v)} |-> d.fields[u]]

\* Mutant: the list is compared as typed.
RawModified(d, settings) ==
  \/ d.text # Snapshot(settings)
  \/ d.service # settings.service
  \/ DOMAIN Edited(d) # {}

IsModified(d, settings) ==
  \/ ~Acceptable(d.text)
  \/ NormalizeEndpoints(d.text) # Snapshot(settings)
  \/ d.service # settings.service
  \/ DOMAIN Edited(d) # {}

\* Mutant: only the transport is looked at.
TransportOnly(url, secret) == CredentialAllowed(url)

\* credentialRefusal is null.
Sendable(url, secret) == CredentialAllowed(url) /\ secret \notin Unsendable

\* Mutant: a secret may be typed for an endpoint that is not listed any more.
AnySecret(urls, secrets) ==
  \A u \in DOMAIN secrets : secrets[u] # NoSecret => Sendable(u, secrets[u])

\* apply()'s checks, before anything is saved.
MayStore(urls, secrets) ==
  \A u \in DOMAIN secrets :
    secrets[u] # NoSecret => u \in urls /\ Sendable(u, secrets[u])

\* syncCredentials starts, from d.
Syncing(d, phase, urls, writes) ==
  [d EXCEPT !.phase = phase, !.writes = writes, !.targets = urls, !.got = Nothing]
-----------------------------------------------------------------------------
(* The user *)

Reset(p, phase) ==
  dialog' = [dialog EXCEPT ![p] =
    Syncing([@ EXCEPT !.text = Queried(p), !.service = saved[p].service],
            phase, ToSet(Queried(p)), Nothing)]

\* createComponent, which resets.
OpenDialog(p) ==
  /\ dialog[p].phase = "closed"
  /\ Reset(p, "opening")
  /\ UNCHANGED <<safe, saved, edits>>

PressReset(p) ==
  /\ dialog[p].phase = "open"
  /\ Reset(p, "resetting")
  /\ UNCHANGED <<safe, saved, edits>>

EditList(p) ==
  /\ dialog[p].phase = "open" /\ edits < MaxEdits
  /\ \E text \in Text, service \in Name :
       dialog' = [dialog EXCEPT ![p].text = text, ![p].service = service]
  /\ edits' = edits + 1
  /\ UNCHANGED <<safe, saved>>

EditSecret(p) ==
  /\ dialog[p].phase = "open" /\ edits < MaxEdits
  /\ \E u \in DOMAIN dialog[p].fields, secret \in Secret \cup {NoSecret} :
       dialog' = [dialog EXCEPT ![p].fields[u] = secret, ![p].touched = @ \cup {u}]
  /\ edits' = edits + 1
  /\ UNCHANGED <<safe, saved>>

\* apply() normalizes the text, and update() what apply() normalized.
Apply(p) ==
  LET d == dialog[p]
      urls == NormalizeEndpoints(d.text)
  IN /\ d.phase = "open"
     /\ Acceptable(d.text)
     /\ MayStore(ToSet(urls), Edited(d))
     /\ saved' = [saved EXCEPT ![p] = [endpoints |-> NormalizeEndpoints(urls),
                                       service |-> d.service]]
     /\ dialog' = [dialog EXCEPT ![p] = Syncing(@, "applying", ToSet(urls), Edited(d))]
     /\ UNCHANGED <<safe, edits>>

\* disposeUIResources
CloseDialog(p) ==
  /\ dialog[p].phase = "open"
  /\ dialog' = [dialog EXCEPT ![p] = Closed]
  /\ UNCHANGED <<safe, saved, edits>>
-----------------------------------------------------------------------------
(* syncCredentials *)

Busy(d) == d.phase \in {"opening", "resetting", "applying"}

Write(p) ==
  /\ Busy(dialog[p])
  /\ \E u \in DOMAIN dialog[p].writes :
       /\ safe' = Put(safe, u, dialog[p].writes[u])
       /\ dialog' = [dialog EXCEPT ![p].writes = [v \in DOMAIN @ \ {u} |-> @[v]]]
  /\ UNCHANGED <<saved, edits>>

ReadBack(p) ==
  /\ Busy(dialog[p]) /\ dialog[p].writes = Nothing
  /\ \E u \in dialog[p].targets \ DOMAIN dialog[p].got :
       dialog' = [dialog EXCEPT ![p].got = [v \in DOMAIN @ \cup {u} |->
                                              IF v = u THEN Get(safe, u) ELSE @[v]]]
  /\ UNCHANGED <<safe, saved, edits>>

\* All is written and read: one field per endpoint, with the secret the safe held.
Rebuild(p) ==
  LET d == dialog[p]
  IN /\ Busy(d) /\ d.writes = Nothing /\ DOMAIN d.got = d.targets
     /\ dialog' = [dialog EXCEPT ![p] = [d EXCEPT !.phase = "open", !.stored = d.got,
                                                  !.fields = d.got, !.got = Nothing,
                                                  !.targets = {}, !.touched = {}]]
     /\ UNCHANGED <<safe, saved, edits>>

\* A call of the safe fails or the progress is cancelled; without its component a dialog
\* does not open.
FailSync(p) ==
  LET d == dialog[p]
  IN /\ Busy(d)
     /\ dialog' = [dialog EXCEPT ![p] =
          IF d.phase = "opening" THEN Closed
          ELSE [d EXCEPT !.phase = "open", !.writes = Nothing, !.targets = {},
                         !.got = Nothing]]
     /\ UNCHANGED <<safe, saved, edits>>

ProjectStep(p) == \/ OpenDialog(p) \/ PressReset(p) \/ EditList(p) \/ EditSecret(p)
                  \/ Apply(p) \/ CloseDialog(p)
                  \/ Write(p) \/ ReadBack(p) \/ Rebuild(p) \/ FailSync(p)

Next == \E p \in Project : ProjectStep(p)

Spec == Init /\ [][Next]_vars
-----------------------------------------------------------------------------
IsSecrets(f) == \A u \in DOMAIN f : u \in Url /\ f[u] \in Secret \cup {NoSecret}

TypeOK ==
  /\ IsSecrets(safe) /\ \A u \in DOMAIN safe : safe[u] # NoSecret
  /\ saved \in [Project -> [endpoints : Seq(Url \cup {Blank}), service : Name]]
  /\ \A p \in Project :
       LET d == dialog[p] IN
         /\ d.phase \in {"closed", "opening", "open", "resetting", "applying"}
         /\ d.text \in Seq(Url \cup {Blank}) /\ d.service \in Name \cup {""}
         /\ IsSecrets(d.fields) /\ IsSecrets(d.stored) /\ IsSecrets(d.got)
         /\ IsSecrets(d.writes) /\ d.targets \subseteq Url /\ d.touched \subseteq Url
  /\ edits \in 0..MaxEdits

\* A list that normalization leaves alone.
Fixed(lines) ==
  /\ Acceptable(lines) /\ NormalizeEndpoints(lines) = lines
  /\ NormalizeEndpoints(ValidLines(lines)) = lines

\* What the last two properties need: a list is fixed once it was normalized.  A second port
\* may be left for the next time.
TextsSettle ==
  /\ \A text \in Text : Acceptable(text) => Fixed(NormalizeEndpoints(text))
  /\ \A lines \in Persisted : Fixed(NormalizeEndpoints(ValidLines(lines)))

PlainUrl == {url \in Url : Len(url.ports) <= 1}

OnePort == Text \cup Persisted \subseteq Seq(PlainUrl \cup {Blank})

\* No dialog leaves a secret in the safe that the client would refuse to send.
SafeSendable == \A u \in DOMAIN safe : CredentialAllowed(u) /\ safe[u] \notin Unsendable

\* A secret changes only where a user edited its field: not by removing the endpoint from
\* a project, nor by another dialog that still shows an older secret.
UntouchedKept ==
  [][\A u \in DOMAIN safe \cup DOMAIN safe' :
       Get(safe, u) # Get(safe', u) => \E p \in Project : u \in dialog[p].touched]_vars

\* A secret is stored for an endpoint some project queries: it does not vanish with its
\* endpoint, although the settings are saved some steps before the secrets.
SecretHasEndpoint ==
  [][\A u \in DOMAIN safe' :
       Get(safe, u) # safe'[u] => \E p \in Project : u \in ToSet(Queried(p))]_vars

\* After an apply() that went through, the dialog has nothing left to apply.  When the safe
\* fails half way, the secrets it did not store are still edits: another apply() stores them.
\* This is for lists that are normal once they were normalized.
AppliedOrStillEdited ==
  [][\A p \in Project : dialog[p].phase = "applying" =>
       /\ Rebuild(p) => ~IsModified(dialog'[p], saved'[p])
       /\ FailSync(p) => \A u \in DOMAIN dialog[p].writes :
            /\ u \in DOMAIN Edited(dialog'[p])
            /\ Edited(dialog'[p])[u] = dialog[p].writes[u]]_vars
=============================================================================
