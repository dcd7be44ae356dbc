----------------------------- MODULE SupplySync -----------------------------
(***************************************************************************)
(* sync-supply-chain.py at work on a branch: Renovate, or a maintainer,    *)
(* moves a declaration and runs it; it reads the repository and asks the   *)
(* sources, writes the derived files one after the other, prints what it   *)
(* has to say of them, and writes the inventory; offline it writes it and  *)
(* then says what it has left.  It can be cut off between any two steps.   *)
(***************************************************************************)
EXTENDS SupplyChain

CONSTANTS
  MaxNow,      \* bound: the clock
  MaxNews,     \* bound: releases and re-pushes upstream makes
  MaxEdits     \* bound: edits of the repository between synchronisations

ASSUME BoundsAssumption == {MaxNow, MaxNews, MaxEdits} \subseteq Nat /\ Grace < MaxNow

VARIABLES
  phase,    \* "idle" or what the script does next: online "derive", "download", "print",
            \* "write", offline "offline" (write the inventory) and "notice"
  fresh,    \* the inventory the script has computed
  moved,    \* products whose version it has found moved and not dealt with yet
  lockDone, \* the product whose lock line it has written and whose component not
  mute,     \* sources it asks again that do not answer this run
  touched,  \* the dependencies it has found a change of
  toTell,   \* products of which it has something to print yet
  told,     \* ghost: what the script has printed of a product's lock, which an online run
            \* warns of and an offline run promises that --online refreshes; "excused" when
            \* an offline run has moved the product and printed nothing yet, or the product
            \* was declared anew while its lock lagged
  synced,   \* ghost: nothing happened since a full, online, untroubled run
  news, edits

syncVars == <<phase, fresh, moved, lockDone, mute, touched, toTell>>
vars == <<repositoryVars, upstreamVars, syncVars, told, synced, news, edits>>

Nobody == "none"
ASSUME NobodyAssumption == Nobody \notin Dependencies

TypeOK ==
  /\ now \in 0..MaxNow
  /\ released \in [Dependencies -> [Versions -> 0..MaxNow]]
  /\ repushed \in [tag : 0..MaxVersion, at : 0..MaxNow]
  /\ tree \in [Dependencies -> SUBSET Versions]
  /\ inventory \in [Dependencies -> Entry]
  /\ fresh \in [Dependencies -> Entry]
  /\ lock \in [Products -> Versions]
  /\ components \subseteq Products \X Versions
  /\ download \in [tag : Versions, sha256 : Versions]
  /\ phase \in {"idle", "derive", "download", "print", "write", "offline", "notice"}
  /\ moved \subseteq Products
  /\ lockDone \in Products \cup {Nobody}
  /\ mute \subseteq Dependencies
  /\ touched \subseteq Dependencies
  /\ toTell \subseteq Products
  /\ told \in [Products -> {"no", "warned", "promised", "excused"}]
  /\ synced \in BOOLEAN
  /\ news \in 0..MaxNews
  /\ edits \in 0..MaxEdits

\* The first version of everything is out, matured, declared and recorded.
Start(d) ==
  LET e == [version |-> 1, release |-> 1, releasedAt |-> 1, sha256 |-> 1, source |-> 0]
  IN [e EXCEPT !.source = OfficialSource(d, e)]

Init ==
  /\ now = Grace + 1
  /\ released = [d \in Dependencies |-> [v \in Versions |-> IF v = 1 THEN 1 ELSE 0]]
  /\ repushed = [tag |-> 0, at |-> 0]
  /\ tree = [d \in Dependencies |-> IF d \in Undeclared THEN {} ELSE {1}]
  /\ inventory = [d \in Dependencies |-> Start(d)]
  /\ lock = [d \in Products |-> 1]
  /\ components = Products \X {1}
  /\ download = [tag |-> 1, sha256 |-> 1]
  /\ phase = "idle" /\ fresh = inventory /\ moved = {} /\ lockDone = Nobody
  /\ mute = {} /\ touched = {}
  /\ toTell = {} /\ told = [d \in Products |-> "no"]
  /\ synced = FALSE /\ news = 0 /\ edits = 0

---------------------------------------------------------------------------
(* What others do                                                          *)

Idle == phase = "idle"

Tick ==
  /\ Idle /\ now < MaxNow
  /\ now' = now + 1
  /\ UNCHANGED <<released, repushed, repositoryVars, syncVars, told, synced, news, edits>>

\* Versions come out in their order.
Publish(d) ==
  /\ Idle /\ news < MaxNews
  /\ d = Upstream(d)
  /\ \E v \in Versions :
       /\ ~Out(d, v) /\ \A w \in 1..(v - 1) : Out(d, w)
       /\ released' = [released EXCEPT ![d][v] = now]
  /\ news' = news + 1
  /\ UNCHANGED <<now, repushed, repositoryVars, syncVars, told, synced, edits>>

Repush(d) ==
  /\ Idle /\ news < MaxNews
  /\ Kind[d] = "image" /\ repushed.tag = 0
  /\ repushed' = [tag |-> inventory[d].release, at |-> now]
  /\ news' = news + 1
  /\ UNCHANGED <<now, released, repositoryVars, syncVars, told, synced, edits>>

Edited == Idle /\ edits < MaxEdits /\ edits' = edits + 1 /\ synced' = FALSE

\* The lock line of the product is not at the recorded version.
Lags(d) == lock[d] # inventory[d].version

\* Renovate declares another version everywhere, a maintainer perhaps not.
Bump(d) ==
  /\ Edited
  /\ d \notin Undeclared
  /\ \E v \in Versions, all \in BOOLEAN :
       /\ Out(d, v) /\ v \notin tree[d]
       /\ tree' = [tree EXCEPT ![d] = IF all THEN {v} ELSE @ \cup {v}]
  /\ told' = [e \in Products |->
                IF e # d THEN told[e] ELSE IF Lags(d) THEN "excused" ELSE "no"]
  /\ UNCHANGED <<upstreamVars, inventory, lock, components, download, syncVars, news>>

\* The entry of a tool is its declaration; a workflow downloads the tool.
BumpTool(d) ==
  /\ Edited
  /\ d \in Undeclared
  /\ \E v \in Versions :
       /\ Out(d, v) /\ v # inventory[d].version
       /\ inventory' = [inventory EXCEPT ![d].version = v]
       /\ download' = [download EXCEPT !.tag = v]
  /\ fresh' = inventory'
  /\ UNCHANGED <<upstreamVars, tree, lock, components, phase, moved, lockDone, mute,
                 touched, toTell, told, news>>

\* The Relock workflow, or a maintainer, brings a lock line and its component
\* to what is declared.
Relock(d) ==
  /\ Edited
  /\ d \in Products
  /\ \E v \in tree[d] :
       /\ lock[d] # v \/ <<d, v>> \notin components
       /\ lock' = [lock EXCEPT ![d] = v]
       /\ components' = components \cup {<<d, v>>}
  /\ told' = [told EXCEPT ![d] = "no"]
  /\ UNCHANGED <<upstreamVars, tree, inventory, download, syncVars, news>>

---------------------------------------------------------------------------
(* refresh                                                                 *)

Declares(d) == d \notin Undeclared /\ Cardinality(tree[d]) = 1

\* declaration_changes and action_changes: one value, or the entry is left alone.
Proved ==
  [d \in Dependencies |->
     IF Declares(d)
     THEN LET v == CHOOSE v \in tree[d] : TRUE IN
          [f \in DOMAIN inventory[d] |->
             IF f \in DeclaredFields(d) THEN v ELSE inventory[d][f]]
     ELSE inventory[d]]

\* online_metadata knows no way to refresh these.
Unrouted == OfKind("maven")

\* The version whose metadata is asked for: the wrapper JAR follows Gradle's.
Followed(inv, d) ==
  CASE Kind[d] \in {"gradle", "wrapper"} -> inv[Upstream(d)].version
    [] Kind[d] = "image" -> inv[d].release
    [] OTHER -> inv[d].version

Refreshable(inv, d, silent) == d \notin Unrouted \cup silent /\ Out(d, Followed(inv, d))

\* online_metadata, and what refresh makes of its answer.
Answered(inv, d, silent) ==
  LET v == Followed(inv, d) e == inv[d] IN
  IF ~Refreshable(inv, d, silent) THEN e
  ELSE CASE Kind[d] \in {"gradle", "wrapper"} ->
              [e EXCEPT !.version = v, !.releasedAt = v, !.sha256 = v]
         [] Kind[d] \in {"action", "tool"} -> [e EXCEPT !.release = v, !.releasedAt = v]
         [] OTHER -> [e EXCEPT !.releasedAt = v]

\* Mutant: the URL is computed before the sources are asked.
SourceFirst(online, silent) ==
  [d \in Dependencies |->
     LET e == [Proved[d] EXCEPT !.source = OfficialSource(d, Proved[d])] IN
     IF online THEN Answered([Proved EXCEPT ![d] = e], d, silent) ELSE e]

\* refresh: first what the tree proves, then what the sources say, and the
\* URL of whatever has changed last, once version and release have settled.
Refreshed(online, silent) ==
  LET answered == [d \in Dependencies |->
                     IF online THEN Answered(Proved, d, silent) ELSE Proved[d]]
      changed(d) == Proved[d] # inventory[d] \/ answered[d] # Proved[d]
  IN [d \in Dependencies |->
        IF changed(d)
        THEN [answered[d] EXCEPT !.source = OfficialSource(d, answered[d])]
        ELSE answered[d]]

\* Every entry a change was found of, even one the sources changed back.
Changed(online, silent) ==
  {d \in Dependencies : \/ Proved[d] # inventory[d]
                        \/ Refreshed(online, silent)[d] # inventory[d]}

\* What the run reports about entries it could not bring up to date.
Troubled(silent) ==
  \E d \in Dependencies :
    \/ d \notin Undeclared /\ ~Declares(d)
    \/ Proved[d] # inventory[d] /\ ~Refreshable(Proved, d, silent)

---------------------------------------------------------------------------
(* main                                                                    *)

\* What was to be told of is told of, as it is.
Tell(how) == told' = [d \in Products |-> IF d \in toTell THEN how ELSE told[d]]

\* The script has ended, however it has.
Forget ==
  /\ phase' = "idle" /\ fresh' = inventory' /\ moved' = {} /\ lockDone' = Nobody
  /\ mute' = {} /\ touched' = {} /\ toTell' = {}

\* Of the sources that do not answer this run, those it asks again after the refresh.
AskedAgain(silent) == silent \cap (Products \cup Undeclared)

\* An offline run asks nobody, and one that finds nothing to change does nothing.
Begin(online) ==
  /\ Idle
  /\ online \/ Changed(online, {}) # {}
  /\ \E silent \in IF online THEN {{}, Dependencies} \cup {{d} : d \in Dependencies} ELSE {{}} :
       /\ mute' = AskedAgain(silent)
       /\ fresh' = Refreshed(online, silent)
       /\ touched' = Changed(online, silent)
       /\ synced' = (online /\ silent = {} /\ ~Troubled(silent))
  /\ lockDone' = Nobody
  /\ LET bumped == {d \in Products : fresh'[d].version # inventory[d].version} IN
     /\ moved' = IF online THEN bumped ELSE {}
     /\ toTell' = IF online THEN {} ELSE bumped
     /\ phase' = IF ~online THEN "offline" ELSE IF bumped # {} THEN "derive" ELSE "download"
  /\ UNCHANGED <<repositoryVars, upstreamVars, told, news, edits>>

\* A problem is found, and kept to be printed.
Problem(d) == toTell' = toTell \cup {d} /\ synced' = FALSE

\* What follows the product that was just dealt with.
NextProduct(d) ==
  /\ moved' = moved \ {d}
  /\ lockDone' = Nobody
  /\ phase' = IF moved' = {} THEN "download" ELSE "derive"

\* Mutant: a line that cannot be moved is left without a word.
SkipLock(d) ==
  /\ phase = "derive" /\ d \in moved /\ lockDone = Nobody
  /\ IF d \in LockOnly /\ lock[d] = inventory[d].version
     THEN /\ lock' = [lock EXCEPT ![d] = fresh[d].version]
          /\ lockDone' = d
          /\ UNCHANGED <<phase, moved>>
     ELSE NextProduct(d) /\ UNCHANGED lock
  /\ UNCHANGED <<tree, inventory, components, download, upstreamVars,
                 fresh, mute, touched, toTell, told, synced, news, edits>>

\* derived_writes: only a lock line that names the old version and that only
\* the verifier uses is moved.
WriteLock(d) ==
  /\ phase = "derive" /\ d \in moved /\ lockDone = Nobody
  /\ IF d \in LockOnly /\ lock[d] = inventory[d].version
     THEN /\ lock' = [lock EXCEPT ![d] = fresh[d].version]
          /\ lockDone' = d
          /\ UNCHANGED <<phase, moved, toTell, synced>>
     ELSE /\ Problem(d) /\ NextProduct(d) /\ UNCHANGED lock
  /\ UNCHANGED <<tree, inventory, components, download, upstreamVars,
                 fresh, mute, touched, told, news, edits>>

\* rewrite_component: the component of the old version becomes that of the
\* new one, if there is one and JetBrains gives the checksum.
RewriteComponent(d) ==
  /\ phase = "derive" /\ lockDone = d
  /\ LET old == <<d, inventory[d].version>> IN
     IF old \in components /\ d \notin mute
     THEN /\ components' = (components \ {old}) \cup {<<d, fresh[d].version>>}
          /\ UNCHANGED <<toTell, synced>>
     ELSE Problem(d) /\ UNCHANGED components
  /\ NextProduct(d)
  /\ UNCHANGED <<tree, inventory, lock, download, upstreamVars,
                 fresh, mute, touched, told, news, edits>>

\* download_checksums: independent of the inventory.
RepinDownload ==
  /\ phase = "download"
  /\ LET answers == mute \cap Undeclared = {} IN
     /\ download' = IF answers THEN [download EXCEPT !.sha256 = download.tag] ELSE download
     /\ synced' = (synced /\ answers)
  /\ phase' = "print"
  /\ UNCHANGED <<tree, inventory, lock, components, upstreamVars, fresh, moved, lockDone, mute,
                 touched, toTell, told, news, edits>>

\* The problems are printed, and without changes that is all.
PrintProblems ==
  /\ phase = "print"
  /\ UNCHANGED <<repositoryVars, upstreamVars, synced, news, edits>>
  /\ Tell("warned")
  /\ IF touched = {}
     THEN Forget
     ELSE phase' = "write" /\ toTell' = {} /\ UNCHANGED <<fresh, moved, lockDone, mute, touched>>

\* An offline run has said nothing yet of the locks it leaves.
WriteInventory ==
  /\ inventory' = fresh
  /\ \/ phase = "write" /\ Forget /\ UNCHANGED told
     \/ /\ phase = "offline" /\ phase' = "notice"
        /\ Tell("excused")
        /\ UNCHANGED <<fresh, moved, lockDone, mute, touched, toTell>>
  /\ UNCHANGED <<tree, lock, components, download, upstreamVars, synced, news, edits>>

\* ... were left untouched: rerun with --online to refresh them.
Notice ==
  /\ phase = "notice"
  /\ UNCHANGED <<repositoryVars, upstreamVars, synced, news, edits>>
  /\ Tell("promised")
  /\ Forget

\* The script is killed, or the disk refuses a write.
CutOff ==
  /\ ~Idle
  /\ synced' = FALSE
  /\ UNCHANGED <<repositoryVars, upstreamVars, told, news, edits>>
  /\ Forget

Next ==
  \/ Tick
  \/ \E d \in Dependencies : Publish(d) \/ Repush(d) \/ Bump(d) \/ BumpTool(d) \/ Relock(d)
  \/ \E online \in BOOLEAN : Begin(online)
  \/ \E d \in Products : WriteLock(d) \/ RewriteComponent(d)
  \/ RepinDownload \/ PrintProblems \/ WriteInventory \/ Notice \/ CutOff

Spec == Init /\ [][Next]_vars

---------------------------------------------------------------------------
(* Properties                                                              *)

\* Everything an entry says is about one release.
OfOneRelease(d) ==
  LET e == inventory[d] IN
  /\ e.releasedAt = e.version
  /\ Kind[d] \in {"action", "tool", "image"} => e.release = e.version
  /\ Kind[d] \in {"gradle", "wrapper"} => e.sha256 = e.version

\* The wrapper's JAR is that of the Gradle its properties name.
WrapperWhole ==
  \A w \in OfKind("wrapper") : tree[w] = tree[Upstream(w)]

\* After an online run that had nothing to report, and as long as nobody edits
\* anything, every entry that has a source to ask says what the repository
\* declares and what that release's source publishes, all fields of one
\* release, the workflow's checksum is that of what its URL names, and a second
\* run would find nothing to change, so that Renovate's branch settles
\* (sync-supply-chain.py: refresh, download_checksums, main).
SyncedIsFresh ==
  synced /\ Idle /\ WrapperWhole =>
    /\ \A d \in Dependencies \ Unrouted :
         /\ OfOneRelease(d)
         /\ inventory[d].source = OfficialSource(d, inventory[d])
         /\ d \in Undeclared \/ tree[d] = {inventory[d].version}
    /\ download.sha256 = download.tag
    /\ Changed(TRUE, {}) = {}

\* When the check accepts a repository in which the lock line of a product is not at the
\* recorded version, then an online run has printed a warning of that product, whichever run
\* was cut off or failed half way, since it prints before it writes the inventory
\* (derived_writes, main); or an offline run has moved the product, and has said so unless it
\* was cut off between the two (main, where it writes before it prints); or the product was
\* declared anew while its lock lagged.
LockLagIsTold ==
  \A d \in Products :
    Idle /\ Accepted /\ Lags(d) => told[d] # "no"

\* "Release dates and the derived lock and verification entries were left untouched: rerun with
\* --online to refresh them" (main): when such a rerun had nothing to report, the lock lines of
\* the products the offline run has moved are at the recorded version.
RerunRefreshes ==
  synced /\ Idle => \A d \in Products : told[d] = "promised" => ~Lags(d)

\* An image whose tag was pushed again a short while ago.
Forgiven(d) ==
  /\ Kind[d] = "image" /\ repushed.tag = inventory[d].release
  /\ now < repushed.at + Grace

\* An audit that gets all its answers and is content has seen it all: every
\* entry is of one release, and none is behind a release that has outlived the
\* grace (check_online, the verify functions and exit_status).
AuditTells ==
  ExitStatus = 0 =>
    \A d \in Dependencies :
      \/ Forgiven(d)
      \/ OfOneRelease(d) /\ \A v \in Matured(d) : v <= inventory[d].version
=============================================================================
