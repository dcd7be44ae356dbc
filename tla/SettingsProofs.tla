--------------------------- MODULE SettingsProofs ---------------------------
(***************************************************************************)
(* Theorems about SettingsDialog, for any projects, endpoint lists and     *)
(* secrets, and about TokenFile, for any list, hubs and bounds.  Those     *)
(* about the password safe alone do not depend on what normalization does. *)
(***************************************************************************)
EXTENDS SettingsDialog, TokenFile, WellFoundedInduction, TLAPS

IsFcn(f) == f = [x \in DOMAIN f |-> f[x]]

\* A dialog has the fields of Closed.
Shape(d) ==
  /\ d \in [phase : {d.phase}, text : {d.text}, service : {d.service}, fields : {d.fields},
            stored : {d.stored}, writes : {d.writes}, targets : {d.targets}, got : {d.got},
            touched : {d.touched}]
  /\ IsFcn(d.fields) /\ IsFcn(d.writes) /\ IsFcn(d.got)

Storable(u, secret) ==
  secret # NoSecret => CredentialAllowed(u) /\ secret \notin Unsendable

\* A field nobody edited shows the stored secret; what is to be written was edited, and may
\* be sent.
DialogInv(d) ==
  /\ Shape(d)
  /\ \A u \in DOMAIN d.fields : u \notin d.touched => d.fields[u] = Get(d.stored, u)
  /\ DOMAIN d.writes \subseteq d.touched
  /\ \A u \in DOMAIN d.writes : Storable(u, d.writes[u])

Inv ==
  /\ dialog = [p \in Project |-> dialog[p]]
  /\ \A p \in Project : DialogInv(dialog[p])
  /\ IsFcn(safe)
  /\ \A u \in DOMAIN safe : Storable(u, safe[u]) /\ safe[u] # NoSecret

LEMMA ClosedFacts == DialogInv(Closed)
BY DEF DialogInv, Shape, Closed, Nothing, IsFcn

LEMMA InitInv == Init => Inv
<1> SUFFICES ASSUME Init PROVE Inv
  OBVIOUS
<1>1. dialog = [p \in Project |-> Closed] /\ safe = Nothing
  BY DEF Init
<1>2. \A p \in Project : DialogInv(dialog[p])
  BY <1>1, ClosedFacts
<1>3. DOMAIN safe = {} /\ IsFcn(safe)
  BY <1>1 DEF Nothing, IsFcn
<1> QED BY <1>1, <1>2, <1>3 DEF Inv

\* A step of one dialog that leaves the safe alone.
LEMMA DialogMoves ==
  ASSUME Inv, NEW p \in Project, NEW d, DialogInv(d), dialog' = [dialog EXCEPT ![p] = d],
         UNCHANGED safe
  PROVE  Inv'
<1>1. \A q \in Project : dialog'[q] = IF q = p THEN d ELSE dialog[q]
  BY DEF Inv
<1>2. \A q \in Project : DialogInv(dialog'[q])
  BY <1>1 DEF Inv
<1>3. dialog' = [q \in Project |-> dialog'[q]]
  BY DEF Inv
<1>4. /\ IsFcn(safe')
      /\ \A u \in DOMAIN safe' : Storable(u, safe'[u]) /\ safe'[u] # NoSecret
  BY DEF Inv
<1> QED BY <1>2, <1>3, <1>4 DEF Inv, DialogInv

\* syncCredentials starts with nothing to write, or with edits that were checked.
LEMMA SyncingFacts ==
  ASSUME NEW d, DialogInv(d), NEW phase, NEW urls, NEW writes, IsFcn(writes),
         DOMAIN writes \subseteq d.touched,
         \A u \in DOMAIN writes : Storable(u, writes[u])
  PROVE  DialogInv(Syncing(d, phase, urls, writes))
<1> DEFINE next == Syncing(d, phase, urls, writes)
<1>1. next \in [phase : {phase}, text : {d.text}, service : {d.service}, fields : {d.fields},
                stored : {d.stored}, writes : {writes}, targets : {urls}, got : {Nothing},
                touched : {d.touched}]
  BY DEF DialogInv, Shape, Syncing
<1>2. /\ next.writes = writes /\ next.touched = d.touched /\ next.fields = d.fields
      /\ next.stored = d.stored /\ next.got = Nothing /\ next.phase = phase
      /\ next.targets = urls /\ next.text = d.text /\ next.service = d.service
  BY <1>1
<1>3. IsFcn(Nothing)
  BY DEF Nothing, IsFcn
<1> HIDE DEF next
<1>4. Shape(next)
  BY <1>1, <1>2, <1>3 DEF Shape, DialogInv
<1>5. DialogInv(next)
  BY <1>2, <1>4 DEF DialogInv
<1> QED BY <1>5 DEF next

LEMMA EditedFacts ==
  ASSUME NEW d, DialogInv(d)
  PROVE  DOMAIN Edited(d) \subseteq d.touched /\ IsFcn(Edited(d))
BY DEF DialogInv, Edited, IsFcn

LEMMA ResetInv ==
  ASSUME Inv, NEW p \in Project, NEW phase, Reset(p, phase), UNCHANGED safe
  PROVE  Inv'
<1> DEFINE base == [dialog[p] EXCEPT !.text = Queried(p), !.service = saved[p].service]
           next == Syncing(base, phase, ToSet(Queried(p)), Nothing)
<1>1. DialogInv(dialog[p])
  BY DEF Inv
<1>2. DialogInv(base)
  BY <1>1 DEF DialogInv, Shape
<1>3. IsFcn(Nothing) /\ DOMAIN Nothing = {}
  BY DEF Nothing, IsFcn
<1>4. dialog' = [dialog EXCEPT ![p] = next]
  BY DEF Reset
<1> HIDE DEF base
<1>5. DialogInv(next)
  BY <1>2, <1>3, SyncingFacts
<1> QED BY <1>4, <1>5, DialogMoves

LEMMA NextInv == Inv /\ [Next]_vars => Inv'
<1> SUFFICES ASSUME Inv, [Next]_vars PROVE Inv'
  OBVIOUS
<1>1. ASSUME NEW p \in Project, OpenDialog(p) PROVE Inv'
  BY <1>1, ResetInv DEF OpenDialog
<1>2. ASSUME NEW p \in Project, PressReset(p) PROVE Inv'
  BY <1>2, ResetInv DEF PressReset
<1>3. ASSUME NEW p \in Project, EditList(p) PROVE Inv'
  <2>1. PICK text \in Text, service \in Name :
          dialog' = [dialog EXCEPT ![p].text = text, ![p].service = service]
    BY <1>3 DEF EditList
  <2> DEFINE next == [dialog[p] EXCEPT !.text = text, !.service = service]
  <2>2. dialog' = [dialog EXCEPT ![p] = next]
    BY <2>1 DEF Inv
  <2>3. DialogInv(next)
    BY DEF Inv, DialogInv, Shape
  <2>4. UNCHANGED safe
    BY <1>3 DEF EditList
  <2> QED BY <2>2, <2>3, <2>4, DialogMoves
<1>4. ASSUME NEW p \in Project, EditSecret(p) PROVE Inv'
  <2>1. PICK u \in DOMAIN dialog[p].fields, secret \in Secret \cup {NoSecret} :
          dialog' = [dialog EXCEPT ![p].fields[u] = secret, ![p].touched = @ \cup {u}]
    BY <1>4 DEF EditSecret
  <2> DEFINE fields == [dialog[p].fields EXCEPT ![u] = secret]
             next == [dialog[p] EXCEPT !.fields = fields, !.touched = @ \cup {u}]
  <2>2. dialog' = [dialog EXCEPT ![p] = next]
    BY <2>1 DEF Inv
  <2>3. DialogInv(dialog[p])
    BY DEF Inv
  <2>4. /\ DOMAIN fields = DOMAIN dialog[p].fields /\ IsFcn(fields)
        /\ \A v \in DOMAIN fields : v # u => fields[v] = dialog[p].fields[v]
    BY DEF IsFcn
  <2> HIDE DEF fields
  <2>5. DialogInv(next)
    BY <2>3, <2>4 DEF DialogInv, Shape
  <2>6. UNCHANGED safe
    BY <1>4 DEF EditSecret
  <2> QED BY <2>2, <2>5, <2>6, DialogMoves
<1>5. ASSUME NEW p \in Project, Apply(p) PROVE Inv'
  <2> DEFINE urls == NormalizeEndpoints(dialog[p].text)
             writes == Edited(dialog[p])
             next == Syncing(dialog[p], "applying", ToSet(urls), writes)
  <2>1. /\ MayStore(ToSet(urls), writes) /\ UNCHANGED safe
        /\ dialog' = [dialog EXCEPT ![p] = next]
    BY <1>5 DEF Apply, Inv
  <2>2. DialogInv(dialog[p])
    BY DEF Inv
  <2>3. \A u \in DOMAIN writes : Storable(u, writes[u])
    BY <2>1 DEF MayStore, Sendable, Storable
  <2> HIDE DEF urls, writes
  <2>4. DialogInv(next)
    BY <2>2, <2>3, SyncingFacts, EditedFacts DEF writes
  <2> QED BY <2>1, <2>4, DialogMoves
<1>6. ASSUME NEW p \in Project, CloseDialog(p) PROVE Inv'
  BY <1>6, ClosedFacts, DialogMoves DEF CloseDialog
<1>7. ASSUME NEW p \in Project, Write(p) PROVE Inv'
  <2>1. PICK u \in DOMAIN dialog[p].writes :
          /\ safe' = Put(safe, u, dialog[p].writes[u])
          /\ dialog' = [dialog EXCEPT ![p].writes = [v \in DOMAIN @ \ {u} |-> @[v]]]
    BY <1>7 DEF Write
  <2> DEFINE left == [v \in DOMAIN dialog[p].writes \ {u} |-> dialog[p].writes[v]]
             next == [dialog[p] EXCEPT !.writes = left]
  <2>2. dialog' = [dialog EXCEPT ![p] = next]
    BY <2>1 DEF Inv
  <2>3. DialogInv(dialog[p]) /\ dialog = [q \in Project |-> dialog[q]]
    BY DEF Inv
  <2>4. /\ IsFcn(left) /\ DOMAIN left = DOMAIN dialog[p].writes \ {u}
        /\ \A v \in DOMAIN left : left[v] = dialog[p].writes[v]
    BY DEF IsFcn
  <2> HIDE DEF left
  <2>5. DialogInv(next)
    BY <2>3, <2>4 DEF DialogInv, Shape
  <2>6. \A q \in Project : DialogInv(dialog'[q])
    BY <2>2, <2>3, <2>5 DEF Inv
  <2>7. Storable(u, dialog[p].writes[u])
    BY <2>3 DEF DialogInv
  <2>8. /\ IsFcn(safe')
        /\ \A v \in DOMAIN safe' : Storable(v, safe'[v]) /\ safe'[v] # NoSecret
    BY <2>1, <2>7 DEF Put, Inv, IsFcn
  <2>9. dialog' = [q \in Project |-> dialog'[q]]
    BY <2>2, <2>3
  <2> QED BY <2>6, <2>8, <2>9 DEF Inv, DialogInv
<1>8. ASSUME NEW p \in Project, ReadBack(p) PROVE Inv'
  <2>1. PICK u \in dialog[p].targets \ DOMAIN dialog[p].got :
          dialog' = [dialog EXCEPT ![p].got = [v \in DOMAIN @ \cup {u} |->
                                                 IF v = u THEN Get(safe, u) ELSE @[v]]]
    BY <1>8 DEF ReadBack
  <2> DEFINE more == [v \in DOMAIN dialog[p].got \cup {u} |->
                        IF v = u THEN Get(safe, u) ELSE dialog[p].got[v]]
             next == [dialog[p] EXCEPT !.got = more]
  <2>2. dialog' = [dialog EXCEPT ![p] = next]
    BY <2>1 DEF Inv
  <2>3. DialogInv(dialog[p])
    BY DEF Inv
  <2>4. IsFcn(more)
    BY DEF IsFcn
  <2> HIDE DEF more
  <2>5. DialogInv(next)
    BY <2>3, <2>4 DEF DialogInv, Shape
  <2>6. UNCHANGED safe
    BY <1>8 DEF ReadBack
  <2> QED BY <2>2, <2>5, <2>6, DialogMoves
<1>9. ASSUME NEW p \in Project, Rebuild(p) PROVE Inv'
  <2> DEFINE d == dialog[p]
             next == [d EXCEPT !.phase = "open", !.stored = d.got, !.fields = d.got,
                               !.got = Nothing, !.targets = {}, !.touched = {}]
  <2>1. /\ dialog' = [dialog EXCEPT ![p] = next] /\ UNCHANGED safe
        /\ d.writes = Nothing
    BY <1>9 DEF Rebuild
  <2>2. DialogInv(d) /\ IsFcn(d.got)
    BY DEF Inv, DialogInv, Shape
  <2>3. DOMAIN Nothing = {}
    BY DEF Nothing
  <2> HIDE DEF d
  <2>4. DialogInv(next)
    BY <2>1, <2>2, <2>3 DEF DialogInv, Shape, Get
  <2> QED BY <2>1, <2>4, DialogMoves
<1>10. ASSUME NEW p \in Project, FailSync(p) PROVE Inv'
  <2> DEFINE next == [dialog[p] EXCEPT !.phase = "open", !.writes = Nothing, !.targets = {},
                                       !.got = Nothing]
  <2>1. /\ dialog' = [dialog EXCEPT ![p] = Closed] \/ dialog' = [dialog EXCEPT ![p] = next]
        /\ UNCHANGED safe
    BY <1>10 DEF FailSync
  <2>2. DialogInv(dialog[p])
    BY DEF Inv
  <2>3. IsFcn(Nothing) /\ DOMAIN Nothing = {}
    BY DEF Nothing, IsFcn
  <2>4. DialogInv(next)
    BY <2>2, <2>3 DEF DialogInv, Shape
  <2> QED BY <2>1, <2>4, ClosedFacts, DialogMoves
<1>11. CASE UNCHANGED vars
  BY <1>11 DEF vars, Inv, DialogInv, Shape
<1> QED
  BY <1>1, <1>2, <1>3, <1>4, <1>5, <1>6, <1>7, <1>8, <1>9, <1>10, <1>11
  DEF Next, ProjectStep
-----------------------------------------------------------------------------
LEMMA Invariant == Spec => []Inv
BY InitInv, NextInv, PTL DEF Spec

\* No dialog leaves a secret in the password safe that the client would refuse to send, and
\* that however the writes of several dialogs interleave and fail (apply, syncCredentials).
THEOREM SafeAlwaysSendable == Spec => []SafeSendable
<1>1. Inv => SafeSendable
  BY DEF Inv, SafeSendable, Storable
<1> QED BY <1>1, Invariant, PTL

\* A secret changes only where a user edited its field (editedSecrets).
THEOREM UntouchedAlwaysKept == Spec => UntouchedKept
<1>1. Inv /\ [Next]_vars
        => [\A u \in DOMAIN safe \cup DOMAIN safe' :
              Get(safe, u) # Get(safe', u) => \E p \in Project : u \in dialog[p].touched]_vars
  <2> SUFFICES ASSUME Inv, [Next]_vars, NEW u, Get(safe, u) # Get(safe', u)
               PROVE  \E p \in Project : u \in dialog[p].touched
    OBVIOUS
  <2>1. PICK p \in Project : Write(p)
    BY DEF Next, ProjectStep, OpenDialog, PressReset, EditList, EditSecret, Apply,
           CloseDialog, ReadBack, Rebuild, FailSync, vars
  <2>2. PICK v \in DOMAIN dialog[p].writes : safe' = Put(safe, v, dialog[p].writes[v])
    BY <2>1 DEF Write
  <2>3. u = v
    BY <2>2 DEF Put, Get
  <2> QED BY <2>2, <2>3 DEF Inv, DialogInv
<1> QED BY <1>1, Invariant, PTL DEF UntouchedKept, Spec

(***************************************************************************)
(* Endpoint lists.  apply() normalizes a list, update() and snapshot()     *)
(* normalize the result again: a list whose URLs have at most one port is  *)
(* settled by then.  Picked, a recursive function, is reasoned about with  *)
(* induction on the natural numbers; its parameter is a set.               *)
(***************************************************************************)
LEMMA UpwardInduction ==
  ASSUME NEW Good, 0 \in Good, \A n \in Nat : n \in Good => n + 1 \in Good
  PROVE  Nat \subseteq Good
<1> DEFINE Bad == Nat \ Good
<1> SUFFICES ASSUME Bad # {} PROVE FALSE
  OBVIOUS
<1>1. PICK n \in Bad : \A m \in Bad : <<m, n>> \notin OpToRel(<, Nat)
  <2>1. Bad \subseteq Nat
    OBVIOUS
  <2> HIDE DEF Bad
  <2> QED BY <2>1, NatLessThanWellFounded, WFMin
<1>2. n \in Nat /\ n # 0
  BY <1>1
<1>3. n - 1 \in Nat /\ (n - 1) + 1 = n /\ n - 1 < n
  BY <1>2
<1>4. <<n - 1, n>> \in OpToRel(<, Nat)
  BY <1>2, <1>3 DEF OpToRel
<1>5. n - 1 \in Good
  BY <1>1, <1>3, <1>4
<1> QED BY <1>1, <1>2, <1>3, <1>5

\* What Picked has put together so far.
Picks(s, positions, N, f) ==
  f = [n \in 0..N |-> IF n = 0 THEN <<>>
                      ELSE IF n \in positions THEN Append(f[n - 1], s[n])
                      ELSE f[n - 1]]

LEMMA PicksExist ==
  ASSUME NEW s, NEW positions
  PROVE  \A N \in Nat : \E f : Picks(s, positions, N, f)
<1> DEFINE Good == {N \in Nat : \E f : Picks(s, positions, N, f)}
<1>1. 0 \in Good
  <2>1. Picks(s, positions, 0, [n \in 0..0 |-> <<>>])
    BY DEF Picks
  <2> QED BY <2>1
<1>2. ASSUME NEW N \in Nat, N \in Good PROVE N + 1 \in Good
  <2>1. PICK f : Picks(s, positions, N, f)
    BY <1>2
  <2> DEFINE last == IF N + 1 \in positions THEN Append(f[N], s[N + 1]) ELSE f[N]
             g == [n \in 0..(N + 1) |-> IF n = N + 1 THEN last ELSE f[n]]
             next(n) == IF n = 0 THEN <<>>
                        ELSE IF n \in positions THEN Append(g[n - 1], s[n]) ELSE g[n - 1]
  <2>2. ASSUME NEW n \in 0..(N + 1) PROVE g[n] = next(n)
    <3>1. CASE n = N + 1
      <4>1. n # 0 /\ n - 1 = N /\ g[n - 1] = f[N] /\ g[n] = last
        BY <3>1
      <4> QED BY <3>1, <4>1
    <3>2. CASE n # N + 1
      <4>1. n \in 0..N /\ g[n] = f[n]
        BY <3>2
      <4>2. f[n] = IF n = 0 THEN <<>> ELSE IF n \in positions THEN Append(f[n - 1], s[n])
                   ELSE f[n - 1]
        BY <2>1, <4>1 DEF Picks
      <4>3. n # 0 => g[n - 1] = f[n - 1]
        BY <4>1
      <4> QED BY <4>1, <4>2, <4>3
    <3> QED BY <3>1, <3>2
  <2>3. g = [n \in 0..(N + 1) |-> g[n]]
    OBVIOUS
  <2>4. Picks(s, positions, N + 1, g)
    <3> HIDE DEF g
    <3> QED BY <2>2, <2>3 DEF Picks
  <2> QED BY <2>4
<1> HIDE DEF Good
<1>3. Nat \subseteq Good
  BY <1>1, <1>2, UpwardInduction
<1> QED BY <1>3 DEF Good

\* The prefixes Picked goes through.
LEMMA PickedPrefixes ==
  ASSUME NEW V, NEW s \in Seq(V), NEW positions
  PROVE  \E f : /\ f[0] = <<>> /\ Picked(s, positions) = f[Len(s)]
                /\ \A n \in 1..Len(s) :
                     f[n] = IF n \in positions THEN Append(f[n - 1], s[n]) ELSE f[n - 1]
<1> DEFINE f == CHOOSE f : Picks(s, positions, Len(s), f)
<1>1. Len(s) \in Nat
  OBVIOUS
<1>2. Picks(s, positions, Len(s), f)
  BY <1>1, PicksExist
<1>3. Picked(s, positions) = f[Len(s)]
  BY DEF Picked, Picks
<1> HIDE DEF f
<1>4. ASSUME NEW n \in 0..Len(s)
      PROVE  f[n] = IF n = 0 THEN <<>>
                    ELSE IF n \in positions THEN Append(f[n - 1], s[n]) ELSE f[n - 1]
  <2> DEFINE next(k) == IF k = 0 THEN <<>>
                        ELSE IF k \in positions THEN Append(f[k - 1], s[k]) ELSE f[k - 1]
  <2>1. f = [k \in 0..Len(s) |-> next(k)]
    BY <1>2 DEF Picks
  <2>2. f[n] = next(n)
    <3> HIDE DEF next
    <3> QED BY <2>1
  <2> QED BY <2>2
<1>5. f[0] = <<>>
  BY <1>1, <1>4
<1>6. \A n \in 1..Len(s) :
        f[n] = IF n \in positions THEN Append(f[n - 1], s[n]) ELSE f[n - 1]
  BY <1>1, <1>4
<1> QED BY <1>3, <1>5, <1>6

\* Picked keeps what it picks and nothing else, in as many copies.
LEMMA PickedFacts ==
  ASSUME NEW V, NEW s \in Seq(V), NEW positions
  PROVE  /\ Picked(s, positions) \in Seq(V)
         /\ \A x : x \in ToSet(Picked(s, positions))
                     <=> \E i \in DOMAIN s : i \in positions /\ s[i] = x
         /\ (\A i, j \in DOMAIN s : i \in positions /\ j \in positions /\ s[i] = s[j] => i = j)
              => \A k, l \in DOMAIN Picked(s, positions) :
                   Picked(s, positions)[k] = Picked(s, positions)[l] => k = l
         /\ DOMAIN s \subseteq positions => Picked(s, positions) = s
<1>1. PICK f : /\ f[0] = <<>> /\ Picked(s, positions) = f[Len(s)]
               /\ \A n \in 1..Len(s) :
                    f[n] = IF n \in positions THEN Append(f[n - 1], s[n]) ELSE f[n - 1]
  BY PickedPrefixes
<1> DEFINE Holds(n) == \A x : x \in ToSet(f[n]) <=> \E i \in 1..n : i \in positions /\ s[i] = x
           Once(n) == (\A i, j \in DOMAIN s : i \in positions /\ j \in positions /\ s[i] = s[j] => i = j)
                        => \A k, l \in DOMAIN f[n] : f[n][k] = f[n][l] => k = l
           All(n) == DOMAIN s \subseteq positions
                       => Len(f[n]) = n /\ \A k \in 1..n : f[n][k] = s[k]
           Good == {n \in Nat : n <= Len(s) => f[n] \in Seq(V) /\ Holds(n) /\ Once(n) /\ All(n)}
<1>2. Len(s) \in Nat /\ DOMAIN s = 1..Len(s) /\ \A n \in 1..Len(s) : s[n] \in V
  OBVIOUS
<1>3. 0 \in Good
  <2>1. f[0] \in Seq(V) /\ DOMAIN f[0] = {} /\ Len(f[0]) = 0 /\ 1..0 = {}
    BY <1>1
  <2>2. Holds(0) /\ Once(0) /\ All(0)
    BY <2>1 DEF ToSet
  <2> QED BY <2>1, <2>2
<1>4. ASSUME NEW n \in Nat, n \in Good PROVE n + 1 \in Good
  <2> SUFFICES ASSUME n + 1 <= Len(s)
               PROVE  f[n + 1] \in Seq(V) /\ Holds(n + 1) /\ Once(n + 1) /\ All(n + 1)
    OBVIOUS
  <2>1. f[n] \in Seq(V) /\ Holds(n) /\ Once(n) /\ All(n) /\ n + 1 \in DOMAIN s /\ s[n + 1] \in V
    BY <1>2, <1>4
  <2>2. f[n + 1] = IF n + 1 \in positions THEN Append(f[n], s[n + 1]) ELSE f[n]
    <3>1. n + 1 \in 1..Len(s) /\ (n + 1) - 1 = n
      BY <1>2
    <3> QED BY <1>1, <3>1
  <2>3. CASE n + 1 \notin positions
    <3>1. f[n + 1] = f[n]
      BY <2>2, <2>3
    <3>2. Holds(n + 1)
      BY <2>1, <2>3, <3>1
    <3>3. All(n + 1)
      BY <2>1, <2>3
    <3>4. Once(n + 1)
      BY <2>1, <3>1
    <3> QED BY <2>1, <3>1, <3>2, <3>3, <3>4
  <2>4. CASE n + 1 \in positions
    <3> DEFINE m == Len(f[n])
    <3>1. f[n + 1] = Append(f[n], s[n + 1])
      BY <2>2, <2>4
    <3>2. /\ f[n + 1] \in Seq(V) /\ m \in Nat /\ Len(f[n + 1]) = m + 1
          /\ DOMAIN f[n] = 1..m /\ DOMAIN f[n + 1] = 1..(m + 1)
          /\ f[n + 1][m + 1] = s[n + 1] /\ \A k \in 1..m : f[n + 1][k] = f[n][k]
      BY <2>1, <3>1
    <3> HIDE DEF m
    <3>3. Holds(n + 1)
      <4>1. \A x : x \in ToSet(f[n + 1]) <=> x \in ToSet(f[n]) \/ x = s[n + 1]
        <5>1. ASSUME NEW x, x \in ToSet(f[n + 1]) PROVE x \in ToSet(f[n]) \/ x = s[n + 1]
          <6>1. PICK k \in 1..(m + 1) : f[n + 1][k] = x
            BY <3>2, <5>1 DEF ToSet
          <6>2. CASE k = m + 1
            BY <3>2, <6>1, <6>2
          <6>3. CASE k \in 1..m
            <7>1. k \in DOMAIN f[n] /\ f[n][k] = x
              BY <3>2, <6>1, <6>3
            <7> QED BY <7>1 DEF ToSet
          <6> QED BY <3>2, <6>2, <6>3
        <5>2. \A k \in 1..m : k \in 1..(m + 1)
          BY <3>2
        <5>3. ASSUME NEW x, x \in ToSet(f[n]) PROVE x \in ToSet(f[n + 1])
          <6>1. PICK k \in 1..m : f[n][k] = x
            BY <3>2, <5>3 DEF ToSet
          <6> QED BY <3>2, <5>2, <6>1 DEF ToSet
        <5>4. s[n + 1] \in ToSet(f[n + 1])
          <6>1. m + 1 \in 1..(m + 1)
            BY <3>2
          <6> QED BY <3>2, <6>1 DEF ToSet
        <5> QED BY <5>1, <5>3, <5>4
      <4>2. \A x : (\E i \in 1..(n + 1) : i \in positions /\ s[i] = x)
                     <=> (\E i \in 1..n : i \in positions /\ s[i] = x) \/ x = s[n + 1]
        BY <2>4
      <4> QED BY <2>1, <4>1, <4>2
    <3>4. Once(n + 1)
      <4> SUFFICES ASSUME \A i, j \in DOMAIN s :
                            i \in positions /\ j \in positions /\ s[i] = s[j] => i = j,
                          NEW k \in 1..(m + 1), NEW l \in 1..(m + 1), f[n + 1][k] = f[n + 1][l]
                   PROVE  k = l
        BY <3>2
      <4>1. ASSUME NEW o \in 1..m PROVE f[n][o] # s[n + 1]
        <5>1. f[n][o] \in ToSet(f[n])
          BY <3>2 DEF ToSet
        <5>2. PICK i \in 1..n : i \in positions /\ s[i] = f[n][o]
          BY <2>1, <5>1
        <5>3. i \in DOMAIN s /\ i # n + 1
          BY <1>2
        <5> QED BY <2>1, <2>4, <5>2, <5>3
      <4>2. CASE k \in 1..m /\ l \in 1..m
        BY <2>1, <3>2, <4>2
      <4>3. CASE k = m + 1 /\ l \in 1..m
        BY <3>2, <4>1, <4>3
      <4>4. CASE k \in 1..m /\ l = m + 1
        BY <3>2, <4>1, <4>4
      <4> QED BY <3>2, <4>2, <4>3, <4>4
    <3>5. All(n + 1)
      BY <2>1, <3>2
    <3> QED BY <3>2, <3>3, <3>4, <3>5
  <2> QED BY <2>3, <2>4
<1>5. Len(s) \in Good
  <2> HIDE DEF Good
  <2> QED BY <1>2, <1>3, <1>4, UpwardInduction
<1>6. f[Len(s)] \in Seq(V) /\ Holds(Len(s)) /\ Once(Len(s)) /\ All(Len(s))
  BY <1>2, <1>5
<1>7. DOMAIN s \subseteq positions => Picked(s, positions) = s
  BY <1>1, <1>2, <1>6
<1> QED BY <1>1, <1>2, <1>6, <1>7

LEMMA ZeroOrOne == \A n \in Nat : n <= 1 /\ n # 0 => n = 1
OBVIOUS

\* A list of at most one port stays one, and is normal once it was normalized.
LEMMA PlainPorts ==
  ASSUME NEW ports \in Seq(Port), Len(ports) <= 1, NEW scheme
  PROVE  LET result == NormalPorts(scheme, ports) IN
           result \in Seq(Port) /\ Len(result) <= 1 /\ NormalPorts(scheme, result) = result
<1>1. CASE ports = <<>>
  BY <1>1 DEF NormalPorts
<1>2. CASE ports # <<>>
  <2> DEFINE port == ports[1]
             printed == [port EXCEPT !.signed = FALSE]
  <2>1. Len(ports) = 1 /\ port \in Port /\ Last(ports) = port
    <3>1. Len(ports) \in Nat /\ Len(ports) # 0
      BY <1>2
    <3>2. Len(ports) = 1
      BY <3>1, ZeroOrOne
    <3> QED BY <3>2 DEF Last
  <2>2. Front(ports) = <<>>
    BY <2>1 DEF Front
  <2>3. CASE port.value = DefaultPort(scheme)
    <3>1. NormalPorts(scheme, ports) = <<>>
      BY <1>2, <2>1, <2>2, <2>3 DEF NormalPorts
    <3>2. NormalPorts(scheme, <<>>) = <<>>
      BY DEF NormalPorts
    <3>3. <<>> \in Seq(Port) /\ Len(<<>>) <= 1
      OBVIOUS
    <3> QED BY <3>1, <3>2, <3>3
  <2>4. CASE port.value # DefaultPort(scheme)
    <3>1. /\ printed \in Port /\ printed.value # DefaultPort(scheme)
          /\ [printed EXCEPT !.signed = FALSE] = printed
      BY <2>1, <2>4 DEF Port
    <3> HIDE DEF printed
    <3>2. NormalPorts(scheme, ports) = Append(<<>>, printed)
      BY <1>2, <2>1, <2>2, <2>4 DEF NormalPorts, printed
    <3> DEFINE result == <<printed>>
    <3>3. NormalPorts(scheme, ports) = result
      BY <3>2
    <3>4. result \in Seq(Port) /\ Len(result) = 1 /\ result # <<>>
      BY <3>1
    <3>5. Last(result) = printed /\ Front(result) = <<>>
      BY <3>4 DEF Last, Front
    <3>6. Append(<<>>, printed) = result
      OBVIOUS
    <3> HIDE DEF result
    <3>7. NormalPorts(scheme, result) = result
      BY <3>1, <3>4, <3>5, <3>6 DEF NormalPorts
    <3> QED BY <3>3, <3>4, <3>7
  <2> QED BY <2>3, <2>4
<1> QED BY <1>1, <1>2

LEMMA NormalFacts ==
  ASSUME NEW url \in PlainUrl
  PROVE  /\ Normal(url) \in PlainUrl /\ Normal(Normal(url)) = Normal(url)
         /\ Valid(url) => Valid(Normal(url))
<1> DEFINE ports == NormalPorts(url.scheme, url.ports)
           result == Normal(url)
<1>1. /\ url \in Url /\ url.ports \in Seq(Port) /\ Len(url.ports) <= 1
  BY DEF PlainUrl, Url
<1>2. ports \in Seq(Port) /\ Len(ports) <= 1 /\ NormalPorts(url.scheme, ports) = ports
  BY <1>1, PlainPorts
<1> HIDE DEF ports
<1>3. result = [url EXCEPT !.ports = ports, !.tidy = TRUE]
  BY DEF Normal, ports
<1> HIDE DEF result
<1>4. /\ result \in Url /\ result.ports = ports /\ result.tidy = TRUE
      /\ result.scheme = url.scheme /\ result.flawed = url.flawed
  BY <1>1, <1>2, <1>3 DEF Url
<1>5. [result EXCEPT !.ports = ports, !.tidy = TRUE] = result
  BY <1>4 DEF Url
<1>6. Normal(result) = result
  BY <1>2, <1>4, <1>5 DEF Normal
<1>7. result \in PlainUrl
  BY <1>2, <1>4 DEF PlainUrl
<1>8. Valid(url) => Valid(result)
  BY <1>4 DEF Valid
<1> QED BY <1>6, <1>7, <1>8 DEF result

LEMMA UrlNotBlank == ASSUME NEW url \in Url PROVE url # Blank
<1>1. url.scheme \in {"http", "https", "other"} /\ Blank.scheme = "none"
  BY DEF Url, Blank
<1> QED BY <1>1

LEMMA DefaultIsPlain == DefaultEndpoint \in PlainUrl /\ Valid(DefaultEndpoint)
<1> DEFINE port == [value |-> 4318, signed |-> FALSE]
<1>1. port \in Port
  BY NumberAssumption DEF Port
<1> HIDE DEF port
<1>2. <<port>> \in Seq(Port) /\ Len(<<port>>) = 1
  BY <1>1
<1>3. DefaultEndpoint = [scheme |-> "http", host |-> DefaultHost, ports |-> <<port>>,
                         tidy |-> TRUE, flawed |-> FALSE]
  BY DEF DefaultEndpoint, port
<1>4. DefaultEndpoint \in Url /\ DefaultEndpoint.ports = <<port>>
  BY <1>2, <1>3, HostAssumption DEF Url
<1>5. DefaultEndpoint \in PlainUrl
  <2>1. Len(DefaultEndpoint.ports) <= 1
    BY <1>2, <1>4
  <2> QED BY <1>4, <2>1 DEF PlainUrl
<1>6. Valid(DefaultEndpoint)
  BY <1>3 DEF Valid
<1> QED BY <1>5, <1>6

LEMMA NormalTyped == ASSUME NEW url \in Url PROVE Normal(url) \in Url
<1> DEFINE ports == NormalPorts(url.scheme, url.ports)
<1>1. url.ports \in Seq(Port)
  BY DEF Url
<1>2. ports \in Seq(Port)
  <2>1. CASE url.ports = <<>>
    BY <2>1 DEF NormalPorts
  <2>2. CASE url.ports # <<>>
    <3>1. Front(url.ports) \in Seq(Port)
      BY <1>1, <2>2 DEF Front
    <3>2. Last(url.ports) \in Port
      BY <1>1, <2>2 DEF Last
    <3>3. [Last(url.ports) EXCEPT !.signed = FALSE] \in Port
      BY <3>2 DEF Port
    <3>4. Append(Front(url.ports), [Last(url.ports) EXCEPT !.signed = FALSE]) \in Seq(Port)
      BY <3>1, <3>3
    <3> QED BY <2>2, <3>1, <3>4 DEF NormalPorts
  <2> QED BY <2>1, <2>2
<1> HIDE DEF ports
<1>3. Normal(url) = [url EXCEPT !.ports = ports, !.tidy = TRUE]
  BY DEF Normal, ports
<1> QED BY <1>2, <1>3 DEF Url

\* The endpoints of a list are its URLs, and at least one.
LEMMA NamedFacts ==
  ASSUME NEW V, V \subseteq Url, DefaultEndpoint \in V, NEW lines \in Seq(V \cup {Blank})
  PROVE  /\ Named(lines) \in Seq(V) /\ Named(lines) # <<>>
         /\ (\A line \in ToSet(lines) : line = Blank \/ Valid(line)) => Acceptable(lines)
<1> DEFINE at == {i \in DOMAIN lines : lines[i] # Blank}
           urls == Picked(lines, at)
<1>1. /\ urls \in Seq(V \cup {Blank})
      /\ \A x : x \in ToSet(urls) <=> \E i \in DOMAIN lines : i \in at /\ lines[i] = x
  <2> HIDE DEF at
  <2> QED BY PickedFacts
<1>2. Named(lines) = IF urls = <<>> THEN <<DefaultEndpoint>> ELSE urls
  BY DEF Named
<1>3. \A x \in ToSet(urls) : x # Blank /\ x \in ToSet(lines)
  BY <1>1 DEF ToSet
<1> HIDE DEF urls
<1>4. urls \in Seq(V)
  BY <1>1, <1>3 DEF ToSet
<1>5. ToSet(<<DefaultEndpoint>>) = {DefaultEndpoint}
  BY DEF ToSet
<1>6. (\A line \in ToSet(lines) : line = Blank \/ Valid(line)) => Acceptable(lines)
  BY <1>2, <1>3, <1>5, DefaultIsPlain DEF Acceptable
<1> QED BY <1>2, <1>4, <1>6, DefaultIsPlain

LEMMA NormalOnceFacts ==
  ASSUME NEW V, \A url \in V : Normal(url) \in V, NEW urls \in Seq(V)
  PROVE  LET result == NormalOnce(urls) IN
           /\ result \in Seq(V) /\ (urls # <<>> => result # <<>>)
           /\ \A x \in ToSet(result) : \E url \in ToSet(urls) : x = Normal(url)
           /\ \A k, l \in DOMAIN result : result[k] = result[l] => k = l
<1> DEFINE normal == [i \in DOMAIN urls |-> Normal(urls[i])]
           at == {i \in DOMAIN urls : \A j \in 1..i-1 : normal[j] # normal[i]}
           result == Picked(normal, at)
<1>1. DOMAIN urls = 1..Len(urls) /\ Len(urls) \in Nat /\ \A i \in DOMAIN urls : urls[i] \in V
  OBVIOUS
<1>2. /\ normal \in Seq(V) /\ DOMAIN normal = DOMAIN urls
      /\ \A i \in DOMAIN urls : normal[i] = Normal(urls[i])
  BY <1>1
<1> HIDE DEF normal
<1>3. \A i, j \in DOMAIN normal : i \in at /\ j \in at /\ normal[i] = normal[j] => i = j
  <2> SUFFICES ASSUME NEW i \in DOMAIN urls, NEW j \in DOMAIN urls, i \in at, j \in at,
                      normal[i] = normal[j], i < j
               PROVE  FALSE
    BY <1>1, <1>2
  <2>1. i \in 1..j-1
    BY <1>1
  <2> QED BY <2>1
<1>4. urls # <<>> => 1 \in at /\ 1 \in DOMAIN normal
  BY <1>1, <1>2
<1> HIDE DEF at
<1>5. /\ result \in Seq(V)
      /\ \A x : x \in ToSet(result) <=> \E i \in DOMAIN normal : i \in at /\ normal[i] = x
      /\ \A k, l \in DOMAIN result : result[k] = result[l] => k = l
  BY <1>2, <1>3, PickedFacts
<1>6. result = NormalOnce(urls)
  BY DEF NormalOnce, normal, at
<1> HIDE DEF result
<1>7. urls # <<>> => result # <<>>
  <2> SUFFICES ASSUME urls # <<>>, result = <<>> PROVE FALSE
    OBVIOUS
  <2>1. normal[1] \in ToSet(result)
    BY <1>4, <1>5
  <2> QED BY <2>1 DEF ToSet
<1>8. \A x \in ToSet(result) : \E url \in ToSet(urls) : x = Normal(url)
  <2> SUFFICES ASSUME NEW x \in ToSet(result) PROVE \E url \in ToSet(urls) : x = Normal(url)
    OBVIOUS
  <2>1. PICK i \in DOMAIN normal : normal[i] = x
    BY <1>5
  <2>2. i \in DOMAIN urls /\ x = Normal(urls[i])
    BY <1>2, <2>1
  <2>3. urls[i] \in ToSet(urls)
    BY <2>2 DEF ToSet
  <2> QED BY <2>2, <2>3
<1> QED BY <1>5, <1>6, <1>7, <1>8

\* A list of different normal URLs stays as it is.
LEMMA NormalListFixed ==
  ASSUME NEW urls \in Seq(PlainUrl), urls # <<>>,
         \A i \in DOMAIN urls : Normal(urls[i]) = urls[i] /\ Valid(urls[i]),
         \A i, j \in DOMAIN urls : urls[i] = urls[j] => i = j
  PROVE  Fixed(urls)
<1>1. urls \in Seq(PlainUrl \cup {Blank}) /\ \A i \in DOMAIN urls : urls[i] \in PlainUrl
  OBVIOUS
<1>2. Named(urls) = urls
  <2> DEFINE at == {i \in DOMAIN urls : urls[i] # Blank}
  <2>1. DOMAIN urls \subseteq at
    BY <1>1, UrlNotBlank DEF PlainUrl
  <2>2. Picked(urls, at) = urls
    <3> HIDE DEF at
    <3> QED BY <1>1, <2>1, PickedFacts
  <2> QED BY <2>2 DEF Named
<1>3. Acceptable(urls)
  BY <1>2 DEF Acceptable, ToSet
<1>4. NormalOnce(urls) = urls
  <2> DEFINE normal == [i \in DOMAIN urls |-> Normal(urls[i])]
             at == {i \in DOMAIN urls : \A j \in 1..i-1 : normal[j] # normal[i]}
  <2>1. DOMAIN urls = 1..Len(urls) /\ Len(urls) \in Nat /\ urls = [i \in DOMAIN urls |-> urls[i]]
    OBVIOUS
  <2>2. normal = urls
    BY <2>1
  <2>3. DOMAIN urls \subseteq at
    <3> SUFFICES ASSUME NEW i \in DOMAIN urls, NEW j \in 1..i-1, normal[j] = normal[i]
                 PROVE  FALSE
      OBVIOUS
    <3>1. j \in DOMAIN urls /\ j # i
      BY <2>1
    <3> QED BY <3>1
  <2>4. Picked(urls, at) = urls
    <3> HIDE DEF at
    <3> QED BY <2>3, PickedFacts
  <2> QED BY <2>2, <2>4 DEF NormalOnce
<1>5. ValidLines(urls) = urls
  <2> DEFINE at == {i \in DOMAIN urls : urls[i] = Blank \/ Valid(urls[i])}
  <2>1. DOMAIN urls \subseteq at
    OBVIOUS
  <2>2. Picked(urls, at) = urls
    <3> HIDE DEF at
    <3> QED BY <2>1, PickedFacts
  <2> QED BY <2>2 DEF ValidLines
<1> QED BY <1>2, <1>3, <1>4, <1>5 DEF Fixed, NormalizeEndpoints

LEMMA AcceptedSettles ==
  ASSUME NEW lines \in Seq(PlainUrl \cup {Blank}), Acceptable(lines)
  PROVE  Fixed(NormalizeEndpoints(lines))
<1> DEFINE urls == Named(lines)
           result == NormalOnce(urls)
<1>1. urls \in Seq(PlainUrl) /\ urls # <<>> /\ \A url \in ToSet(urls) : Valid(url)
  <2>1. PlainUrl \subseteq Url /\ DefaultEndpoint \in PlainUrl
    BY DefaultIsPlain DEF PlainUrl
  <2> QED BY <2>1, NamedFacts DEF Acceptable
<1> HIDE DEF urls
<1>2. /\ result \in Seq(PlainUrl) /\ result # <<>>
      /\ \A x \in ToSet(result) : \E url \in ToSet(urls) : x = Normal(url)
      /\ \A k, l \in DOMAIN result : result[k] = result[l] => k = l
  BY <1>1, NormalFacts, NormalOnceFacts
<1> HIDE DEF result
<1>3. ASSUME NEW i \in DOMAIN result PROVE Normal(result[i]) = result[i] /\ Valid(result[i])
  <2>1. PICK url \in ToSet(urls) : result[i] = Normal(url)
    BY <1>2 DEF ToSet
  <2>2. url \in PlainUrl /\ Valid(url)
    BY <1>1 DEF ToSet
  <2> QED BY <2>1, <2>2, NormalFacts
<1>4. Fixed(result)
  BY <1>2, <1>3, NormalListFixed
<1> QED BY <1>4 DEF result, urls, NormalizeEndpoints

\* A list whose URLs have at most one port is normal once it was normalized, so that apply(),
\* update() and snapshot() agree on it (normalizeEndpoints).
THEOREM OnePortSettles == OnePort => TextsSettle
<1> SUFFICES ASSUME OnePort PROVE TextsSettle
  OBVIOUS
<1>1. ASSUME NEW text \in Text, Acceptable(text) PROVE Fixed(NormalizeEndpoints(text))
  BY <1>1, AcceptedSettles DEF OnePort
<1>2. ASSUME NEW lines \in Persisted PROVE Fixed(NormalizeEndpoints(ValidLines(lines)))
  <2> DEFINE at == {i \in DOMAIN lines : lines[i] = Blank \/ Valid(lines[i])}
             valid == ValidLines(lines)
  <2>1. lines \in Seq(PlainUrl \cup {Blank}) /\ valid = Picked(lines, at)
    BY DEF OnePort, ValidLines
  <2>2. \A i \in at : lines[i] = Blank \/ Valid(lines[i])
    OBVIOUS
  <2> HIDE DEF at, valid
  <2>3. /\ valid \in Seq(PlainUrl \cup {Blank})
        /\ \A x : x \in ToSet(valid) <=> \E i \in DOMAIN lines : i \in at /\ lines[i] = x
    BY <2>1, PickedFacts
  <2>4. Acceptable(valid)
    <3>1. PlainUrl \subseteq Url /\ DefaultEndpoint \in PlainUrl
      BY DefaultIsPlain DEF PlainUrl
    <3> QED BY <2>2, <2>3, <3>1, NamedFacts
  <2>5. Fixed(NormalizeEndpoints(valid))
    BY <2>3, <2>4, AcceptedSettles
  <2> QED BY <2>5 DEF valid
<1> QED BY <1>1, <1>2 DEF TextsSettle

(***************************************************************************)
(* Types.                                                                  *)
(***************************************************************************)
DialogTyped(d) ==
  /\ d.phase \in {"closed", "opening", "open", "resetting", "applying"}
  /\ d.text \in Seq(Url \cup {Blank}) /\ d.service \in Name \cup {""}
  /\ IsSecrets(d.fields) /\ IsSecrets(d.stored) /\ IsSecrets(d.got)
  /\ IsSecrets(d.writes) /\ d.targets \subseteq Url /\ d.touched \subseteq Url

SafeTyped == IsSecrets(safe) /\ \A u \in DOMAIN safe : safe[u] # NoSecret

Settings == [endpoints : Seq(Url \cup {Blank}), service : Name]

LEMMA TypedParts ==
  TypeOK <=> /\ SafeTyped /\ saved \in [Project -> Settings]
             /\ \A p \in Project : DialogTyped(dialog[p])
             /\ edits \in 0..MaxEdits
BY DEF TypeOK, SafeTyped, Settings, DialogTyped

LEMMA ListTyped ==
  ASSUME NEW lines \in Seq(Url \cup {Blank})
  PROVE  /\ NormalizeEndpoints(lines) \in Seq(Url \cup {Blank})
         /\ ToSet(NormalizeEndpoints(lines)) \subseteq Url
         /\ ValidLines(lines) \in Seq(Url \cup {Blank})
<1>1. Named(lines) \in Seq(Url)
  BY NamedFacts, DefaultIsPlain DEF PlainUrl
<1>2. NormalOnce(Named(lines)) \in Seq(Url)
  BY <1>1, NormalOnceFacts, NormalTyped
<1>3. ValidLines(lines) \in Seq(Url \cup {Blank})
  BY PickedFacts DEF ValidLines
<1> QED BY <1>2, <1>3 DEF NormalizeEndpoints, ToSet

LEMMA QueriedTyped ==
  ASSUME TypeOK, NEW p \in Project
  PROVE  /\ Queried(p) \in Seq(Url \cup {Blank}) /\ ToSet(Queried(p)) \subseteq Url
         /\ saved[p].service \in Name
<1>1. saved[p] \in Settings
  BY TypedParts
<1>2. saved[p].endpoints \in Seq(Url \cup {Blank}) /\ saved[p].service \in Name
  BY <1>1 DEF Settings
<1>3. ValidLines(saved[p].endpoints) \in Seq(Url \cup {Blank})
  BY <1>2, ListTyped
<1> QED BY <1>2, <1>3, ListTyped DEF Queried, Snapshot

LEMMA EmptyTyped == IsSecrets(Nothing)
BY DEF IsSecrets, Nothing

LEMMA ClosedTyped == DialogTyped(Closed)
<1>1. /\ Closed.phase = "closed" /\ Closed.text = <<>> /\ Closed.service = ""
      /\ Closed.fields = Nothing /\ Closed.stored = Nothing /\ Closed.writes = Nothing
      /\ Closed.got = Nothing /\ Closed.targets = {} /\ Closed.touched = {}
  BY DEF Closed
<1>2. <<>> \in Seq(Url \cup {Blank})
  OBVIOUS
<1>3. IsSecrets(Closed.fields) /\ IsSecrets(Closed.stored) /\ IsSecrets(Closed.got)
      /\ IsSecrets(Closed.writes)
  BY <1>1, EmptyTyped
<1>4. Closed.text \in Seq(Url \cup {Blank})
  BY <1>1, <1>2
<1>5. Closed.targets \subseteq Url /\ Closed.touched \subseteq Url
  BY <1>1
<1> QED BY <1>1, <1>3, <1>4, <1>5 DEF DialogTyped

\* A step of one dialog.
LEMMA TypedMoves ==
  ASSUME Inv, TypeOK, NEW p \in Project, NEW d, DialogTyped(d),
         dialog' = [dialog EXCEPT ![p] = d], SafeTyped', saved' \in [Project -> Settings],
         edits' \in 0..MaxEdits
  PROVE  TypeOK'
<1>1. \A q \in Project : dialog'[q] = IF q = p THEN d ELSE dialog[q]
  BY DEF Inv
<1>2. \A q \in Project : DialogTyped(dialog'[q])
  BY <1>1, TypedParts
<1>3. \A q \in Project : DialogTyped(dialog[q])'
  BY <1>2 DEF DialogTyped, IsSecrets
<1> QED BY <1>3 DEF TypeOK, SafeTyped, Settings, DialogTyped, IsSecrets

\* A step of one dialog that leaves the rest alone.
LEMMA TypedAlone ==
  ASSUME Inv, TypeOK, NEW p \in Project, NEW d, DialogTyped(d),
         dialog' = [dialog EXCEPT ![p] = d], UNCHANGED <<safe, saved>>, edits' \in 0..MaxEdits
  PROVE  TypeOK'
<1>1. SafeTyped' /\ saved' \in [Project -> Settings]
  BY TypedParts DEF SafeTyped, IsSecrets
<1> QED BY <1>1, TypedMoves

LEMMA SyncingTyped ==
  ASSUME NEW d, Shape(d), DialogTyped(d), NEW phase \in {"opening", "resetting", "applying"},
         NEW urls, urls \subseteq Url, NEW writes, IsSecrets(writes)
  PROVE  DialogTyped(Syncing(d, phase, urls, writes))
<1> DEFINE next == Syncing(d, phase, urls, writes)
<1>1. /\ next.phase = phase /\ next.text = d.text /\ next.service = d.service
      /\ next.fields = d.fields /\ next.stored = d.stored /\ next.writes = writes
      /\ next.targets = urls /\ next.got = Nothing /\ next.touched = d.touched
  BY DEF Syncing, Shape
<1> HIDE DEF next
<1>2. DialogTyped(next)
  BY <1>1, EmptyTyped DEF DialogTyped
<1> QED BY <1>2 DEF next

LEMMA TypedReset ==
  ASSUME Inv, TypeOK, NEW p \in Project, NEW phase \in {"opening", "resetting"},
         Reset(p, phase), UNCHANGED <<safe, saved, edits>>
  PROVE  TypeOK'
<1> DEFINE base == [dialog[p] EXCEPT !.text = Queried(p), !.service = saved[p].service]
           next == Syncing(base, phase, ToSet(Queried(p)), Nothing)
<1>1. Shape(dialog[p]) /\ DialogTyped(dialog[p])
  BY TypedParts DEF Inv, DialogInv
<1>2. /\ base.phase = dialog[p].phase /\ base.text = Queried(p)
      /\ base.service = saved[p].service /\ base.fields = dialog[p].fields
      /\ base.stored = dialog[p].stored /\ base.writes = dialog[p].writes
      /\ base.targets = dialog[p].targets /\ base.got = dialog[p].got
      /\ base.touched = dialog[p].touched
  BY <1>1 DEF Shape
<1>3. Shape(base)
  BY <1>1 DEF Shape
<1>4. dialog' = [dialog EXCEPT ![p] = next]
  BY DEF Reset
<1> HIDE DEF base
<1>5. DialogTyped(base)
  BY <1>1, <1>2, QueriedTyped DEF DialogTyped
<1>6. DialogTyped(next)
  BY <1>3, <1>5, QueriedTyped, EmptyTyped, SyncingTyped
<1>7. edits' \in 0..MaxEdits
  BY TypedParts
<1> HIDE DEF next
<1> QED BY <1>4, <1>6, <1>7, TypedAlone

LEMMA TypedEdit ==
  ASSUME Inv, TypeOK, Text \subseteq Seq(Url \cup {Blank}), NEW p \in Project,
         EditList(p) \/ EditSecret(p)
  PROVE  TypeOK'
<1>1. Shape(dialog[p]) /\ DialogTyped(dialog[p]) /\ edits \in 0..MaxEdits
  BY TypedParts DEF Inv, DialogInv
<1>2. edits' \in 0..MaxEdits /\ UNCHANGED <<safe, saved>>
  BY <1>1, EditAssumption DEF EditList, EditSecret
<1>3. CASE EditList(p)
  <2>1. PICK text \in Text, service \in Name :
          dialog' = [dialog EXCEPT ![p].text = text, ![p].service = service]
    BY <1>3 DEF EditList
  <2> DEFINE next == [dialog[p] EXCEPT !.text = text, !.service = service]
  <2>2. dialog' = [dialog EXCEPT ![p] = next]
    BY <2>1 DEF Inv
  <2>3. /\ next.phase = dialog[p].phase /\ next.text = text /\ next.service = service
        /\ next.fields = dialog[p].fields /\ next.stored = dialog[p].stored
        /\ next.writes = dialog[p].writes /\ next.targets = dialog[p].targets
        /\ next.got = dialog[p].got /\ next.touched = dialog[p].touched
    BY <1>1 DEF Shape
  <2> HIDE DEF next
  <2>4. DialogTyped(next)
    BY <1>1, <2>3 DEF DialogTyped
  <2> QED BY <1>2, <2>2, <2>4, TypedAlone
<1>4. CASE EditSecret(p)
  <2>1. PICK u \in DOMAIN dialog[p].fields, secret \in Secret \cup {NoSecret} :
          dialog' = [dialog EXCEPT ![p].fields[u] = secret, ![p].touched = @ \cup {u}]
    BY <1>4 DEF EditSecret
  <2> DEFINE next == [dialog[p] EXCEPT !.fields = [@ EXCEPT ![u] = secret],
                                       !.touched = @ \cup {u}]
  <2>2. dialog' = [dialog EXCEPT ![p] = next]
    BY <2>1 DEF Inv
  <2>3. /\ next.phase = dialog[p].phase /\ next.text = dialog[p].text
        /\ next.service = dialog[p].service /\ next.stored = dialog[p].stored
        /\ next.writes = dialog[p].writes /\ next.targets = dialog[p].targets
        /\ next.got = dialog[p].got /\ next.touched = dialog[p].touched \cup {u}
        /\ next.fields = [dialog[p].fields EXCEPT ![u] = secret]
    BY <1>1 DEF Shape
  <2> HIDE DEF next
  <2>4. u \in Url /\ IsSecrets(next.fields)
    BY <1>1, <2>1, <2>3 DEF DialogTyped, IsSecrets
  <2>5. DialogTyped(next)
    BY <1>1, <2>3, <2>4 DEF DialogTyped
  <2> QED BY <1>2, <2>2, <2>5, TypedAlone
<1> QED BY <1>3, <1>4

LEMMA TypedApply == ASSUME Inv, TypeOK, NEW p \in Project, Apply(p) PROVE TypeOK'
<1> DEFINE d == dialog[p]
           urls == NormalizeEndpoints(d.text)
           next == Syncing(d, "applying", ToSet(urls), Edited(d))
           settings == [endpoints |-> NormalizeEndpoints(urls), service |-> d.service]
<1>1. Shape(d) /\ DialogTyped(d)
  BY TypedParts DEF Inv, DialogInv
<1>2. /\ saved' = [saved EXCEPT ![p] = settings] /\ dialog' = [dialog EXCEPT ![p] = next]
      /\ UNCHANGED <<safe, edits>>
  BY DEF Apply
<1>3. urls \in Seq(Url \cup {Blank}) /\ ToSet(urls) \subseteq Url
  BY <1>1, ListTyped DEF DialogTyped
<1>4. NormalizeEndpoints(urls) \in Seq(Url \cup {Blank})
  BY <1>3, ListTyped
<1>5. IsSecrets(Edited(d))
  BY <1>1 DEF DialogTyped, IsSecrets, Edited
<1> HIDE DEF d, urls
<1>6. DialogTyped(next)
  BY <1>1, <1>3, <1>5, SyncingTyped
<1>7. settings \in Settings
  <2>1. d.service \in Name
    BY <1>1, ListAssumption DEF DialogTyped
  <2> QED BY <1>4, <2>1 DEF Settings
<1>8. saved' \in [Project -> Settings]
  <2> HIDE DEF settings
  <2>1. saved \in [Project -> Settings]
    BY TypedParts
  <2> QED BY <1>2, <1>7, <2>1
<1>9. SafeTyped' /\ edits' \in 0..MaxEdits
  BY <1>2, TypedParts DEF SafeTyped, IsSecrets
<1> HIDE DEF next
<1> QED BY <1>2, <1>6, <1>8, <1>9, TypedMoves

LEMMA TypedClose ==
  ASSUME Inv, TypeOK, NEW p \in Project, UNCHANGED <<safe, saved, edits>>,
         dialog' = [dialog EXCEPT ![p] = Closed]
  PROVE  TypeOK'
<1>1. edits' \in 0..MaxEdits
  BY TypedParts
<1> QED BY <1>1, ClosedTyped, TypedAlone

LEMMA TypedWrite == ASSUME Inv, TypeOK, NEW p \in Project, Write(p) PROVE TypeOK'
<1>1. Shape(dialog[p]) /\ DialogTyped(dialog[p])
  BY TypedParts DEF Inv, DialogInv
<1>2. PICK u \in DOMAIN dialog[p].writes :
        /\ safe' = Put(safe, u, dialog[p].writes[u])
        /\ dialog' = [dialog EXCEPT ![p].writes = [v \in DOMAIN @ \ {u} |-> @[v]]]
  BY DEF Write
<1>3. u \in Url /\ dialog[p].writes[u] \in Secret \cup {NoSecret}
  BY <1>1, <1>2 DEF DialogTyped, IsSecrets
<1> DEFINE secret == dialog[p].writes[u]
           left == [v \in DOMAIN dialog[p].writes \ {u} |-> dialog[p].writes[v]]
           next == [dialog[p] EXCEPT !.writes = left]
<1>4. dialog' = [dialog EXCEPT ![p] = next]
  BY <1>2 DEF Inv
<1>5. /\ next.phase = dialog[p].phase /\ next.text = dialog[p].text
      /\ next.service = dialog[p].service /\ next.fields = dialog[p].fields
      /\ next.stored = dialog[p].stored /\ next.writes = left
      /\ next.targets = dialog[p].targets /\ next.got = dialog[p].got
      /\ next.touched = dialog[p].touched
  BY <1>1 DEF Shape
<1>6. IsSecrets(left)
  BY <1>1 DEF DialogTyped, IsSecrets
<1> HIDE DEF next, left
<1>7. DialogTyped(next)
  BY <1>1, <1>5, <1>6 DEF DialogTyped
<1>8. SafeTyped'
  <2>1. IsSecrets(safe) /\ \A v \in DOMAIN safe : safe[v] # NoSecret
    BY TypedParts DEF SafeTyped
  <2>2. safe' = Put(safe, u, secret)
    BY <1>2
  <2> HIDE DEF secret
  <2>3. CASE secret = NoSecret
    <3>1. safe' = [v \in DOMAIN safe \ {u} |-> IF v = u THEN secret ELSE safe[v]]
      BY <2>2, <2>3 DEF Put
    <3>2. \A v \in DOMAIN safe' : v \in DOMAIN safe /\ safe'[v] = safe[v]
      BY <3>1
    <3> QED BY <2>1, <3>2 DEF SafeTyped, IsSecrets
  <2>4. CASE secret # NoSecret
    <3>1. safe' = [v \in DOMAIN safe \cup {u} |-> IF v = u THEN secret ELSE safe[v]]
      BY <2>2, <2>4 DEF Put
    <3>2. \A v \in DOMAIN safe' : IF v = u THEN safe'[v] = secret
                                  ELSE v \in DOMAIN safe /\ safe'[v] = safe[v]
      BY <3>1
    <3>3. secret \in Secret \cup {NoSecret}
      BY <1>3 DEF secret
    <3> QED BY <1>3, <2>1, <2>4, <3>2, <3>3 DEF SafeTyped, IsSecrets
  <2> QED BY <2>3, <2>4
<1>9. saved' \in [Project -> Settings] /\ edits' \in 0..MaxEdits
  BY TypedParts DEF Write
<1> QED BY <1>4, <1>7, <1>8, <1>9, TypedMoves

LEMMA TypedReadBack == ASSUME Inv, TypeOK, NEW p \in Project, ReadBack(p) PROVE TypeOK'
<1>1. Shape(dialog[p]) /\ DialogTyped(dialog[p])
  BY TypedParts DEF Inv, DialogInv
<1>2. PICK u \in dialog[p].targets \ DOMAIN dialog[p].got :
        dialog' = [dialog EXCEPT ![p].got = [v \in DOMAIN @ \cup {u} |->
                                               IF v = u THEN Get(safe, u) ELSE @[v]]]
  BY DEF ReadBack
<1> DEFINE read == [v \in DOMAIN dialog[p].got \cup {u} |->
                      IF v = u THEN Get(safe, u) ELSE dialog[p].got[v]]
           next == [dialog[p] EXCEPT !.got = read]
<1>3. dialog' = [dialog EXCEPT ![p] = next]
  BY <1>2 DEF Inv
<1>4. /\ next.phase = dialog[p].phase /\ next.text = dialog[p].text
      /\ next.service = dialog[p].service /\ next.fields = dialog[p].fields
      /\ next.stored = dialog[p].stored /\ next.writes = dialog[p].writes
      /\ next.targets = dialog[p].targets /\ next.got = read
      /\ next.touched = dialog[p].touched
  BY <1>1 DEF Shape
<1>5. IsSecrets(read)
  <2>1. Get(safe, u) \in Secret \cup {NoSecret}
    BY TypedParts DEF SafeTyped, IsSecrets, Get
  <2> QED BY <1>1, <1>2, <2>1 DEF DialogTyped, IsSecrets
<1> HIDE DEF next, read
<1>6. DialogTyped(next)
  BY <1>1, <1>4, <1>5 DEF DialogTyped
<1>7. UNCHANGED <<safe, saved>> /\ edits' \in 0..MaxEdits
  BY TypedParts DEF ReadBack
<1> QED BY <1>3, <1>6, <1>7, TypedAlone

LEMMA TypedEnd ==
  ASSUME Inv, TypeOK, NEW p \in Project, Rebuild(p) \/ (FailSync(p) /\ dialog[p].phase # "opening")
  PROVE  TypeOK'
<1> DEFINE d == dialog[p]
           rebuilt == [d EXCEPT !.phase = "open", !.stored = d.got, !.fields = d.got,
                                !.got = Nothing, !.targets = {}, !.touched = {}]
           failed == [d EXCEPT !.phase = "open", !.writes = Nothing, !.targets = {},
                               !.got = Nothing]
<1>1. Shape(d) /\ DialogTyped(d)
  BY TypedParts DEF Inv, DialogInv
<1>2. UNCHANGED <<safe, saved>> /\ edits' \in 0..MaxEdits
  BY TypedParts DEF Rebuild, FailSync
<1>3. DialogTyped(rebuilt)
  <2>1. /\ rebuilt.phase = "open" /\ rebuilt.text = d.text /\ rebuilt.service = d.service
        /\ rebuilt.fields = d.got /\ rebuilt.stored = d.got /\ rebuilt.writes = d.writes
        /\ rebuilt.targets = {} /\ rebuilt.got = Nothing /\ rebuilt.touched = {}
    BY <1>1 DEF Shape
  <2> HIDE DEF rebuilt, d
  <2> QED BY <1>1, <2>1, EmptyTyped DEF DialogTyped
<1>4. DialogTyped(failed)
  <2>1. /\ failed.phase = "open" /\ failed.text = d.text /\ failed.service = d.service
        /\ failed.fields = d.fields /\ failed.stored = d.stored /\ failed.writes = Nothing
        /\ failed.targets = {} /\ failed.got = Nothing /\ failed.touched = d.touched
    BY <1>1 DEF Shape
  <2> HIDE DEF failed, d
  <2> QED BY <1>1, <2>1, EmptyTyped DEF DialogTyped
<1>5. dialog' = [dialog EXCEPT ![p] = rebuilt] \/ dialog' = [dialog EXCEPT ![p] = failed]
  BY DEF Rebuild, FailSync
<1> HIDE DEF rebuilt, failed
<1> QED BY <1>2, <1>3, <1>4, <1>5, TypedAlone

LEMMA TypedInit == Init => TypeOK
<1> SUFFICES ASSUME Init PROVE TypeOK
  OBVIOUS
<1>1. SafeTyped
  BY EmptyTyped DEF Init, SafeTyped, Nothing
<1>2. saved \in [Project -> Settings]
  BY ListAssumption DEF Init, Settings
<1>3. \A p \in Project : DialogTyped(dialog[p])
  BY ClosedTyped DEF Init
<1>4. edits \in 0..MaxEdits
  BY EditAssumption DEF Init
<1> QED BY <1>1, <1>2, <1>3, <1>4, TypedParts

LEMMA TypedStep == Inv /\ TypeOK /\ [Next]_vars => TypeOK'
<1> SUFFICES ASSUME Inv, TypeOK, [Next]_vars PROVE TypeOK'
  OBVIOUS
<1>1. CASE UNCHANGED vars
  BY <1>1 DEF vars, TypeOK, IsSecrets
<1>2. ASSUME NEW p \in Project, ProjectStep(p) PROVE TypeOK'
  <2>1. CASE OpenDialog(p) \/ PressReset(p)
    BY <2>1, TypedReset DEF OpenDialog, PressReset
  <2>2. CASE EditList(p) \/ EditSecret(p)
    BY <2>2, ListAssumption, TypedEdit
  <2>3. CASE CloseDialog(p) \/ (FailSync(p) /\ dialog[p].phase = "opening")
    BY <2>3, TypedClose DEF CloseDialog, FailSync
  <2> QED BY <1>2, <2>1, <2>2, <2>3, TypedApply, TypedWrite, TypedReadBack, TypedEnd
          DEF ProjectStep
<1> QED BY <1>1, <1>2 DEF Next

\* Settings, dialogs and the password safe keep their types, for any lists of URLs, accepted
\* or not: what is saved and queried are lists of URLs again.
THEOREM DialogTypeCorrect == Spec => []TypeOK
<1>1. Inv /\ TypeOK /\ [Next]_vars => TypeOK'
  BY TypedStep
<1> QED BY <1>1, TypedInit, Invariant, PTL DEF Spec

(***************************************************************************)
(* What was applied, for lists that settle.                                *)
(***************************************************************************)

\* What apply() submitted is queried, and what it has yet to write is still edited.
Submitted(d, urls, service) ==
  /\ Acceptable(d.text) /\ NormalizeEndpoints(d.text) = urls /\ d.service = service
  /\ \A u \in DOMAIN d.writes :
       /\ d.writes[u] # NoSecret => u \in ToSet(urls)
       /\ u \in DOMAIN d.fields /\ d.fields[u] = d.writes[u] /\ d.writes[u] # Get(d.stored, u)

Shows(d, urls, service) ==
  /\ d.phase # "closed" => d.text \in Text \/ Fixed(d.text)
  /\ IF d.phase = "applying" THEN Submitted(d, urls, service) ELSE DOMAIN d.writes = {}

ListInv ==
  /\ Inv /\ saved = [p \in Project |-> saved[p]]
  /\ \A p \in Project : Fixed(Queried(p)) /\ Shows(dialog[p], Queried(p), saved[p].service)

LEMMA ListInit == TextsSettle /\ Init => ListInv
<1> SUFFICES ASSUME TextsSettle, Init PROVE ListInv
  OBVIOUS
<1>1. /\ \A p \in Project : saved[p].endpoints \in Persisted
      /\ saved = [p \in Project |-> saved[p]]
  BY DEF Init
<1>2. \A p \in Project : Fixed(Queried(p))
  BY <1>1 DEF TextsSettle, Queried, Snapshot
<1>3. Closed.phase = "closed" /\ DOMAIN Closed.writes = {}
  BY DEF Closed, Nothing
<1>4. \A p \in Project : Shows(dialog[p], Queried(p), saved[p].service)
  BY <1>3 DEF Init, Shows
<1> QED BY <1>1, <1>2, <1>4, InitInv DEF ListInv

\* A step of one dialog that leaves the settings alone.
LEMMA ListKeeps ==
  ASSUME ListInv, NEW p \in Project, [Next]_vars, NEW d, dialog' = [dialog EXCEPT ![p] = d],
         UNCHANGED saved, Shows(d, Queried(p), saved[p].service)
  PROVE  ListInv'
<1>1. \A q \in Project : dialog'[q] = IF q = p THEN d ELSE dialog[q]
  BY DEF ListInv, Inv
<1>2. \A q \in Project : Queried(q)' = Queried(q)
  BY DEF Queried, Snapshot
<1>3. Inv'
  BY NextInv DEF ListInv
<1>4. \A q \in Project : Shows(dialog'[q], Queried(q), saved[q].service)
  BY <1>1 DEF ListInv
<1>5. \A q \in Project : Shows(dialog[q], Queried(q), saved[q].service)'
  BY <1>2, <1>4 DEF Shows, Submitted
<1> QED BY <1>2, <1>3, <1>5 DEF ListInv

LEMMA ListReset ==
  ASSUME ListInv, NEW p \in Project, OpenDialog(p) \/ PressReset(p)
  PROVE  ListInv'
<1>1. PICK phase \in {"opening", "resetting"} : Reset(p, phase)
  BY DEF OpenDialog, PressReset
<1> DEFINE base == [dialog[p] EXCEPT !.text = Queried(p), !.service = saved[p].service]
           next == [base EXCEPT !.phase = phase, !.writes = Nothing,
                                !.targets = ToSet(Queried(p)), !.got = Nothing]
<1>2. dialog' = [dialog EXCEPT ![p] = next]
  BY <1>1 DEF Reset, Syncing
<1>3. next.phase = phase /\ next.text = Queried(p) /\ next.writes = Nothing
  BY DEF ListInv, Inv, DialogInv, Shape
<1> HIDE DEF next
<1>4. Shows(next, Queried(p), saved[p].service)
  <2>1. DOMAIN Nothing = {}
    BY DEF Nothing
  <2>2. Fixed(Queried(p))
    BY DEF ListInv
  <2> QED BY <1>3, <2>1, <2>2 DEF Shows
<1>5. UNCHANGED saved /\ [Next]_vars
  BY DEF OpenDialog, PressReset, Next, ProjectStep
<1> QED BY <1>2, <1>4, <1>5, ListKeeps

LEMMA ListEdit ==
  ASSUME ListInv, NEW p \in Project, EditList(p) \/ EditSecret(p)
  PROVE  ListInv'
<1>1. UNCHANGED saved /\ [Next]_vars /\ dialog[p].phase = "open"
  BY DEF EditList, EditSecret, Next, ProjectStep
<1>2. DialogInv(dialog[p]) /\ Shows(dialog[p], Queried(p), saved[p].service)
  BY DEF ListInv, Inv
<1>3. CASE EditList(p)
  <2>1. PICK text \in Text, service \in Name :
          dialog' = [dialog EXCEPT ![p].text = text, ![p].service = service]
    BY <1>3 DEF EditList
  <2> DEFINE next == [dialog[p] EXCEPT !.text = text, !.service = service]
  <2>2. dialog' = [dialog EXCEPT ![p] = next]
    BY <2>1 DEF ListInv, Inv
  <2>3. next.phase = "open" /\ next.text = text /\ next.writes = dialog[p].writes
    BY <1>1, <1>2 DEF DialogInv, Shape
  <2> HIDE DEF next
  <2>4. Shows(next, Queried(p), saved[p].service)
    BY <1>1, <1>2, <2>3 DEF Shows
  <2> QED BY <1>1, <2>2, <2>4, ListKeeps
<1>4. CASE EditSecret(p)
  <2>1. PICK u \in DOMAIN dialog[p].fields, secret \in Secret \cup {NoSecret} :
          dialog' = [dialog EXCEPT ![p].fields[u] = secret, ![p].touched = @ \cup {u}]
    BY <1>4 DEF EditSecret
  <2> DEFINE next == [dialog[p] EXCEPT !.fields = [@ EXCEPT ![u] = secret],
                                       !.touched = @ \cup {u}]
  <2>2. dialog' = [dialog EXCEPT ![p] = next]
    BY <2>1 DEF ListInv, Inv
  <2>3. next.phase = "open" /\ next.text = dialog[p].text /\ next.writes = dialog[p].writes
    BY <1>1, <1>2 DEF DialogInv, Shape
  <2> HIDE DEF next
  <2>4. Shows(next, Queried(p), saved[p].service)
    BY <1>1, <1>2, <2>3 DEF Shows
  <2> QED BY <1>1, <2>2, <2>4, ListKeeps
<1> QED BY <1>3, <1>4

LEMMA ListApply ==
  ASSUME TextsSettle, ListInv, NEW p \in Project, Apply(p)
  PROVE  ListInv'
<1> DEFINE d == dialog[p]
           urls == NormalizeEndpoints(d.text)
           next == Syncing(d, "applying", ToSet(urls), Edited(d))
           settings == [endpoints |-> NormalizeEndpoints(urls), service |-> d.service]
<1>1. /\ d.phase = "open" /\ Acceptable(d.text) /\ MayStore(ToSet(urls), Edited(d))
      /\ saved' = [saved EXCEPT ![p] = settings] /\ dialog' = [dialog EXCEPT ![p] = next]
  BY DEF Apply
<1>2. DialogInv(d) /\ Shows(d, Queried(p), saved[p].service)
  BY DEF ListInv, Inv
<1>3. Fixed(urls)
  BY <1>1, <1>2 DEF Shows, TextsSettle, Fixed
<1>4. Inv'
  <2>1. [Next]_vars
    BY DEF Next, ProjectStep
  <2> QED BY <2>1, NextInv DEF ListInv
<1>5. /\ \A q \in Project : saved'[q] = IF q = p THEN settings ELSE saved[q]
      /\ saved' = [q \in Project |-> saved'[q]]
  BY <1>1 DEF ListInv
<1>6. \A q \in Project : dialog'[q] = IF q = p THEN next ELSE dialog[q]
  BY <1>1 DEF ListInv, Inv
<1>7. settings.endpoints = urls /\ settings.service = d.service
  BY <1>3 DEF Fixed
<1>8. Queried(p)' = urls /\ \A q \in Project : q # p => Queried(q)' = Queried(q)
  BY <1>3, <1>5, <1>7 DEF Queried, Snapshot, Fixed
<1>9. /\ next.phase = "applying" /\ next.text = d.text /\ next.service = d.service
      /\ next.writes = Edited(d) /\ next.fields = d.fields /\ next.stored = d.stored
  BY <1>2 DEF Syncing, DialogInv, Shape
<1>10. \A u \in DOMAIN Edited(d) :
         /\ Edited(d)[u] # NoSecret => u \in ToSet(urls)
         /\ u \in DOMAIN d.fields /\ d.fields[u] = Edited(d)[u] /\ Edited(d)[u] # Get(d.stored, u)
  BY <1>1 DEF Edited, MayStore
<1> HIDE DEF next
<1>11. Shows(next, urls, d.service)
  <2> HIDE DEF d, urls
  <2>1. Submitted(next, urls, d.service)
    BY <1>1, <1>9, <1>10 DEF Submitted, urls
  <2> QED BY <1>2, <1>1, <1>9, <2>1 DEF Shows
<1> HIDE DEF d, urls, settings
<1>12. \A q \in Project : Shows(dialog[q], Queried(q), saved[q].service)'
  <2> SUFFICES ASSUME NEW q \in Project PROVE Shows(dialog'[q], Queried(q)', saved'[q].service)
    BY DEF Shows, Submitted
  <2>1. CASE q = p
    BY <1>5, <1>6, <1>7, <1>8, <1>11, <2>1
  <2>2. CASE q # p
    BY <1>5, <1>6, <1>8, <2>2 DEF ListInv
  <2> QED BY <2>1, <2>2
<1>13. \A q \in Project : Fixed(Queried(q))'
  BY <1>3, <1>8 DEF ListInv, Fixed
<1> QED BY <1>4, <1>5, <1>12, <1>13 DEF ListInv

LEMMA ListClose == ASSUME ListInv, NEW p \in Project, CloseDialog(p) PROVE ListInv'
<1>1. UNCHANGED saved /\ [Next]_vars /\ dialog' = [dialog EXCEPT ![p] = Closed]
  BY DEF CloseDialog, Next, ProjectStep
<1>2. Closed.phase = "closed" /\ DOMAIN Closed.writes = {}
  BY DEF Closed, Nothing
<1>3. Shows(Closed, Queried(p), saved[p].service)
  BY <1>2 DEF Shows
<1> QED BY <1>1, <1>3, ListKeeps

LEMMA ListWrite == ASSUME ListInv, NEW p \in Project, Write(p) PROVE ListInv'
<1>1. UNCHANGED saved /\ [Next]_vars /\ Busy(dialog[p])
  BY DEF Write, Next, ProjectStep
<1>2. DialogInv(dialog[p]) /\ Shows(dialog[p], Queried(p), saved[p].service)
  BY DEF ListInv, Inv
<1>3. PICK u \in DOMAIN dialog[p].writes :
        dialog' = [dialog EXCEPT ![p].writes = [v \in DOMAIN @ \ {u} |-> @[v]]]
  BY DEF Write
<1> DEFINE left == [v \in DOMAIN dialog[p].writes \ {u} |-> dialog[p].writes[v]]
           next == [dialog[p] EXCEPT !.writes = left]
<1>4. dialog' = [dialog EXCEPT ![p] = next]
  BY <1>3 DEF ListInv, Inv
<1>5. /\ next.phase = dialog[p].phase /\ next.text = dialog[p].text /\ next.writes = left
      /\ next.service = dialog[p].service /\ next.fields = dialog[p].fields
      /\ next.stored = dialog[p].stored
  BY <1>2 DEF DialogInv, Shape
<1>6. /\ DOMAIN left \subseteq DOMAIN dialog[p].writes
      /\ \A v \in DOMAIN left : left[v] = dialog[p].writes[v]
  OBVIOUS
<1>7. DOMAIN dialog[p].writes = {} => DOMAIN left = {}
  BY <1>6
<1> HIDE DEF next, left
<1>8. Shows(next, Queried(p), saved[p].service)
  <2>1. Submitted(dialog[p], Queried(p), saved[p].service)
          => Submitted(next, Queried(p), saved[p].service)
    BY <1>5, <1>6 DEF Submitted
  <2> QED BY <1>2, <1>5, <1>7, <2>1 DEF Shows
<1> QED BY <1>1, <1>4, <1>8, ListKeeps

LEMMA ListReadBack == ASSUME ListInv, NEW p \in Project, ReadBack(p) PROVE ListInv'
<1>1. UNCHANGED saved /\ [Next]_vars /\ Busy(dialog[p])
  BY DEF ReadBack, Next, ProjectStep
<1>2. DialogInv(dialog[p]) /\ Shows(dialog[p], Queried(p), saved[p].service)
  BY DEF ListInv, Inv
<1>3. PICK u \in dialog[p].targets \ DOMAIN dialog[p].got :
        dialog' = [dialog EXCEPT ![p].got = [v \in DOMAIN @ \cup {u} |->
                                               IF v = u THEN Get(safe, u) ELSE @[v]]]
  BY DEF ReadBack
<1> DEFINE next == [dialog[p] EXCEPT !.got = [v \in DOMAIN @ \cup {u} |->
                                                IF v = u THEN Get(safe, u) ELSE @[v]]]
<1>4. dialog' = [dialog EXCEPT ![p] = next]
  BY <1>3 DEF ListInv, Inv
<1>5. /\ next.phase = dialog[p].phase /\ next.text = dialog[p].text
      /\ next.writes = dialog[p].writes /\ next.service = dialog[p].service
      /\ next.fields = dialog[p].fields /\ next.stored = dialog[p].stored
  BY <1>2 DEF DialogInv, Shape
<1> HIDE DEF next
<1>6. Shows(next, Queried(p), saved[p].service)
  BY <1>2, <1>5 DEF Shows, Submitted
<1> QED BY <1>1, <1>4, <1>6, ListKeeps

\* What Rebuild leaves of a dialog.
LEMMA RebuiltFacts ==
  ASSUME ListInv, NEW p \in Project, Rebuild(p)
  PROVE  LET d == dialog[p]
             next == dialog'[p]
         IN /\ UNCHANGED saved /\ dialog' = [dialog EXCEPT ![p] = next]
            /\ next.phase = "open" /\ next.text = d.text /\ next.service = d.service
            /\ next.writes = Nothing /\ next.fields = d.got /\ next.stored = d.got
<1> DEFINE d == dialog[p]
           next == [d EXCEPT !.phase = "open", !.stored = d.got, !.fields = d.got,
                             !.got = Nothing, !.targets = {}, !.touched = {}]
<1>1. DialogInv(d) /\ dialog = [q \in Project |-> dialog[q]]
  BY DEF ListInv, Inv
<1>2. UNCHANGED saved /\ d.writes = Nothing /\ dialog' = [dialog EXCEPT ![p] = next]
  BY DEF Rebuild
<1>3. dialog'[p] = next
  BY <1>1, <1>2
<1>4. /\ next.phase = "open" /\ next.text = d.text /\ next.service = d.service
      /\ next.writes = d.writes /\ next.fields = d.got /\ next.stored = d.got
  BY <1>1 DEF DialogInv, Shape
<1> QED BY <1>2, <1>3, <1>4

LEMMA ListRebuild == ASSUME ListInv, NEW p \in Project, Rebuild(p) PROVE ListInv'
<1>1. [Next]_vars
  BY DEF Next, ProjectStep
<1>2. Busy(dialog[p]) /\ Shows(dialog[p], Queried(p), saved[p].service)
  BY DEF ListInv, Rebuild
<1>3. dialog[p].phase # "closed" /\ DOMAIN Nothing = {}
  BY <1>2 DEF Busy, Nothing
<1> DEFINE next == dialog'[p]
<1>4. /\ UNCHANGED saved /\ dialog' = [dialog EXCEPT ![p] = next]
      /\ next.phase = "open" /\ next.text = dialog[p].text /\ next.writes = Nothing
  BY RebuiltFacts
<1> HIDE DEF next
<1>5. Shows(next, Queried(p), saved[p].service)
  BY <1>2, <1>3, <1>4 DEF Shows
<1> QED BY <1>1, <1>4, <1>5, ListKeeps

\* What FailSync leaves of a dialog that was open.
LEMMA FailedFacts ==
  ASSUME ListInv, NEW p \in Project, FailSync(p), dialog[p].phase # "opening"
  PROVE  LET d == dialog[p]
             next == dialog'[p]
         IN /\ dialog' = [dialog EXCEPT ![p] = next]
            /\ next.phase = "open" /\ next.text = d.text /\ next.service = d.service
            /\ next.writes = Nothing /\ next.fields = d.fields /\ next.stored = d.stored
<1> DEFINE d == dialog[p]
           next == [d EXCEPT !.phase = "open", !.writes = Nothing, !.targets = {},
                             !.got = Nothing]
<1>1. DialogInv(d) /\ dialog = [q \in Project |-> dialog[q]]
  BY DEF ListInv, Inv
<1>2. dialog' = [dialog EXCEPT ![p] = next]
  BY DEF FailSync
<1>3. dialog'[p] = next
  BY <1>1, <1>2
<1>4. /\ next.phase = "open" /\ next.text = d.text /\ next.service = d.service
      /\ next.writes = Nothing /\ next.fields = d.fields /\ next.stored = d.stored
  BY <1>1 DEF DialogInv, Shape
<1> QED BY <1>2, <1>3, <1>4

LEMMA ListFail == ASSUME ListInv, NEW p \in Project, FailSync(p) PROVE ListInv'
<1>1. [Next]_vars /\ UNCHANGED saved
  BY DEF FailSync, Next, ProjectStep
<1>2. Busy(dialog[p]) /\ Shows(dialog[p], Queried(p), saved[p].service)
  BY DEF ListInv, FailSync
<1>3. DOMAIN Nothing = {} /\ Closed.phase = "closed" /\ Closed.writes = Nothing
  BY DEF Nothing, Closed
<1>4. CASE dialog[p].phase = "opening"
  <2>1. dialog' = [dialog EXCEPT ![p] = Closed]
    BY <1>4 DEF FailSync
  <2>2. Shows(Closed, Queried(p), saved[p].service)
    BY <1>3 DEF Shows
  <2> QED BY <1>1, <2>1, <2>2, ListKeeps
<1>5. CASE dialog[p].phase # "opening"
  <2> DEFINE next == dialog'[p]
  <2>1. /\ dialog' = [dialog EXCEPT ![p] = next]
        /\ next.phase = "open" /\ next.text = dialog[p].text /\ next.writes = Nothing
    BY <1>5, FailedFacts
  <2> HIDE DEF next
  <2>2. Shows(next, Queried(p), saved[p].service)
    BY <1>2, <1>3, <2>1 DEF Shows, Busy
  <2> QED BY <1>1, <2>1, <2>2, ListKeeps
<1> QED BY <1>4, <1>5

LEMMA ListStep == TextsSettle /\ ListInv /\ [Next]_vars => ListInv'
<1> SUFFICES ASSUME TextsSettle, ListInv, [Next]_vars PROVE ListInv'
  OBVIOUS
<1>1. CASE UNCHANGED vars
  <2>1. Inv'
    BY NextInv DEF ListInv
  <2> QED BY <1>1, <2>1 DEF vars, ListInv, Queried, Snapshot, Shows, Submitted
<1>2. ASSUME NEW p \in Project, ProjectStep(p) PROVE ListInv'
  BY <1>2, ListReset, ListEdit, ListApply, ListClose, ListWrite, ListReadBack, ListRebuild,
     ListFail DEF ProjectStep
<1> QED BY <1>1, <1>2 DEF Next

LEMMA ListHolds == TextsSettle /\ Spec => []ListInv
<1> SUFFICES ASSUME TextsSettle PROVE Spec => []ListInv
  OBVIOUS
<1>1. Init => ListInv
  BY ListInit
<1>2. ListInv /\ [Next]_vars => ListInv'
  BY ListStep
<1> QED BY <1>1, <1>2, PTL DEF Spec

\* A secret is stored for an endpoint some project queries, whatever was saved by others
\* between apply()'s update of the settings and the writes of syncCredentials.
THEOREM SecretAlwaysHasEndpoint == TextsSettle /\ Spec => SecretHasEndpoint
<1> SUFFICES ASSUME TextsSettle PROVE Spec => SecretHasEndpoint
  OBVIOUS
<1>1. ListInv /\ [Next]_vars
        => [\A u \in DOMAIN safe' :
              Get(safe, u) # safe'[u] => \E p \in Project : u \in ToSet(Queried(p))]_vars
  <2> SUFFICES ASSUME ListInv, [Next]_vars, NEW u \in DOMAIN safe', Get(safe, u) # safe'[u]
               PROVE  \E p \in Project : u \in ToSet(Queried(p))
    OBVIOUS
  <2>1. safe' # safe
    BY DEF Get
  <2>2. PICK p \in Project : Write(p)
    BY <2>1 DEF Next, ProjectStep, OpenDialog, PressReset, EditList, EditSecret, Apply,
           CloseDialog, ReadBack, Rebuild, FailSync, vars
  <2>3. PICK v \in DOMAIN dialog[p].writes : safe' = Put(safe, v, dialog[p].writes[v])
    BY <2>2 DEF Write
  <2>4. u = v /\ dialog[p].writes[u] # NoSecret
    BY <2>3 DEF Put, Get
  <2>5. Submitted(dialog[p], Queried(p), saved[p].service)
    BY <2>3 DEF ListInv, Shows
  <2>6. u \in ToSet(Queried(p))
    BY <2>3, <2>4, <2>5 DEF Submitted
  <2> QED BY <2>6
<1> QED BY <1>1, ListHolds, PTL DEF SecretHasEndpoint, Spec

LEMMA RebuiltIsApplied ==
  ASSUME ListInv, NEW p \in Project, dialog[p].phase = "applying", Rebuild(p)
  PROVE  ~IsModified(dialog'[p], saved'[p])
<1>1. Submitted(dialog[p], Queried(p), saved[p].service)
  BY DEF ListInv, Shows
<1> DEFINE d == dialog[p]
           next == dialog'[p]
<1>2. /\ UNCHANGED saved /\ next.text = d.text /\ next.service = d.service
      /\ next.fields = d.got /\ next.stored = d.got
  BY RebuiltFacts
<1>3. Queried(p)' = Queried(p)
  BY <1>2 DEF Queried, Snapshot
<1>4. DOMAIN Edited(next) = {}
  BY <1>2 DEF Edited, Get
<1>5. /\ Acceptable(next.text) /\ NormalizeEndpoints(next.text) = Queried(p)
      /\ next.service = saved[p].service
  BY <1>1, <1>2 DEF Submitted
<1> QED BY <1>2, <1>3, <1>4, <1>5 DEF IsModified, Queried, Snapshot

LEMMA FailedIsEdited ==
  ASSUME ListInv, NEW p \in Project, dialog[p].phase = "applying", FailSync(p),
         NEW u \in DOMAIN dialog[p].writes
  PROVE  u \in DOMAIN Edited(dialog'[p]) /\ Edited(dialog'[p])[u] = dialog[p].writes[u]
<1>1. Submitted(dialog[p], Queried(p), saved[p].service)
  BY DEF ListInv, Shows
<1>2. dialog'[p].fields = dialog[p].fields /\ dialog'[p].stored = dialog[p].stored
  BY FailedFacts
<1> QED BY <1>1, <1>2 DEF Submitted, Edited

\* After an apply() that went through there is nothing left to apply; where the safe failed
\* half way, what it did not store is still shown as edited, so that the next apply() writes it
\* (syncCredentials, rebuildCredentialFields).
THEOREM AppliedAlwaysSettled == TextsSettle /\ Spec => AppliedOrStillEdited
<1> SUFFICES ASSUME TextsSettle PROVE Spec => AppliedOrStillEdited
  OBVIOUS
<1>1. ListInv =>
        \A p \in Project : dialog[p].phase = "applying" =>
          /\ Rebuild(p) => ~IsModified(dialog'[p], saved'[p])
          /\ FailSync(p) => \A u \in DOMAIN dialog[p].writes :
               /\ u \in DOMAIN Edited(dialog'[p])
               /\ Edited(dialog'[p])[u] = dialog[p].writes[u]
  BY RebuiltIsApplied, FailedIsEdited
<1> QED BY <1>1, ListHolds, PTL DEF AppliedOrStillEdited

(***************************************************************************)
(* The CLI's token file.                                                   *)
(***************************************************************************)

\* The file's content has been seen, and a usable one was issued by the hub it names.
FileInv ==
  file # None =>
    /\ file.content \in seen
    /\ Usable(file.content) => file.content.issuer = HubOf(file.content.hub)

\* So is what the refresh has read of it.
CliInv ==
  refresh.cli # None =>
    /\ refresh.cli \in seen
    /\ refresh.cli.issuer = HubOf(refresh.cli.hub)

\* Nothing is read before the file is opened, nobody asked before the clock is read.
OrderInv ==
  /\ refresh.pc \in {"attributes", "mode", "open"} => refresh.cli = None
  /\ refresh.pc \in {"attributes", "mode", "open", "clock"} =>
       \A e \in Endpoint : outcome[e] = "not asked"

\* An answer is about the content that was read.
AnswerInv ==
  \A e \in Endpoint :
    /\ outcome[e] = "token" => refresh.cli # None /\ HubOf(refresh.cli.hub) = e
    /\ outcome[e] = "refused" =>
         \/ refresh.cli # None /\ HubOf(refresh.cli.hub) = e
         \/ ~CredentialAllowed(e)

TokenInv == TokenTypeOK /\ FileInv /\ CliInv /\ OrderInv /\ AnswerInv

LEMMA Bounds == MaxTime \in Nat /\ MaxChanges \in Nat /\ MaxRefreshes \in Nat
BY BoundsAssumption

\* The counters, apart from the rest.
LEMMA Counters ==
  ASSUME TokenTypeOK
  PROVE  now \in 0 .. MaxTime /\ changes \in 0 .. MaxChanges /\ refreshes \in 0 .. MaxRefreshes
BY DEF TokenTypeOK

LEMMA TokenInitInv == TokenInit => TokenInv
<1> SUFFICES ASSUME TokenInit PROVE TokenInv
  OBVIOUS
<1> now = 0 /\ changes = 0 /\ refreshes = 0 /\ refresh = Idle /\ file = None
  BY DEF TokenInit
<1>1. refresh \in [pc : {"idle", "attributes", "mode", "open", "clock", "asking"},
                   open : BOOLEAN, cli : (Content \ {Broken}) \cup {None},
                   startedAt : 0 .. MaxTime]
  BY Bounds DEF Idle
<1>2. now \in 0 .. MaxTime /\ changes \in 0 .. MaxChanges /\ refreshes \in 0 .. MaxRefreshes
  BY Bounds
<1>3. TokenTypeOK
  BY <1>1, <1>2 DEF TokenInit, TokenTypeOK
<1>4. refresh.pc = "idle" /\ refresh.cli = None /\ file = None
  BY DEF Idle
<1>5. outcome = [e \in Endpoint |-> "not asked"]
  BY DEF TokenInit
<1>6. FileInv /\ CliInv /\ OrderInv /\ AnswerInv
  BY <1>4, <1>5 DEF FileInv, CliInv, OrderInv, AnswerInv
<1> QED BY <1>3, <1>6 DEF TokenInv

\* What a step leaves alone.
LEMMA RefreshKept ==
  ASSUME TokenInv, UNCHANGED <<refresh, outcome>>, seen \subseteq seen'
  PROVE  (CliInv /\ OrderInv /\ AnswerInv)'
BY DEF TokenInv, CliInv, OrderInv, AnswerInv

\* A file that is put there, by a login or by hand.
LEMMA FilePut ==
  ASSUME TokenInv,
         NEW f \in [kind : {"regular", "link"}, private : BOOLEAN, content : Content] \cup {None},
         f # None /\ Usable(f.content) => f.content.issuer = HubOf(f.content.hub),
         PutFile(f)
  PROVE  TokenInv'
<1>1. seen \subseteq seen' /\ (f # None => f.content \in seen')
  BY DEF PutFile
<1>2. CliInv' /\ OrderInv' /\ AnswerInv'
  BY <1>1, RefreshKept DEF PutFile
<1>3. FileInv'
  BY <1>1 DEF FileInv, PutFile
<1>4. f # None => f.content \in Content
  OBVIOUS
<1>5. changes' \in 0 .. MaxChanges
  BY Bounds, Counters DEF TokenInv, PutFile
<1>6. TokenTypeOK'
  BY <1>4, <1>5 DEF TokenInv, TokenTypeOK, PutFile
<1> QED BY <1>2, <1>3, <1>6 DEF TokenInv

\* A login's token names the hub that issued it.
LEMMA LogInKeeps == TokenInv /\ LogIn => TokenInv'
<1> SUFFICES ASSUME TokenInv,
                    NEW url \in HubUrl,
                    PutFile(FileOf("regular", TRUE, Login(changes + 1, url, HubOf(url), now + 1)))
             PROVE  TokenInv'
  BY DEF LogIn
<1> DEFINE login == Login(changes + 1, url, HubOf(url), now + 1)
           f == FileOf("regular", TRUE, login)
<1>1. changes + 1 \in 1 .. MaxChanges /\ now + 1 \in 1 .. MaxTime + 1
  BY Bounds, Counters DEF TokenInv, PutFile
<1>2. login \in Content /\ login.hub = url /\ login.issuer = HubOf(url)
  BY <1>1 DEF Login, Content
<1> HIDE DEF login
<1>3. f \in [kind : {"regular", "link"}, private : BOOLEAN, content : Content] /\ f.content = login
  BY <1>2 DEF FileOf
<1> HIDE DEF f
<1>4. PutFile(f)
  BY DEF f, login
<1> QED BY <1>2, <1>3, <1>4, FilePut

LEMMA LogOutKeeps == TokenInv /\ LogOut => TokenInv'
BY FilePut DEF LogOut

\* What is done to the file by hand leaves a usable content as it was, or no usable one.
LEMMA TamperKeeps == TokenInv /\ Tamper => TokenInv'
<1> SUFFICES ASSUME TokenInv, Tamper PROVE TokenInv'
  OBVIOUS
<1> DEFINE Files == [kind : {"regular", "link"}, private : BOOLEAN, content : Content]
<1>1. file # None /\ file \in Files /\ file.content \in Content
  BY DEF Tamper, TokenInv, TokenTypeOK
<1>2. Usable(file.content) => file.content.issuer = HubOf(file.content.hub)
  BY <1>1 DEF TokenInv, FileInv
<1>3. CASE PutFile([file EXCEPT !.private = ~@])
  <2> DEFINE f == [file EXCEPT !.private = ~@]
  <2>1. f \in Files /\ f.content = file.content
    BY <1>1
  <2> HIDE DEF f
  <2>2. PutFile(f)
    BY <1>3 DEF f
  <2> QED BY <1>2, <2>1, <2>2, FilePut
<1>4. CASE PutFile([file EXCEPT !.kind = IF @ = "regular" THEN "link" ELSE "regular"])
  <2> DEFINE f == [file EXCEPT !.kind = IF @ = "regular" THEN "link" ELSE "regular"]
  <2>1. f \in Files /\ f.content = file.content
    BY <1>1
  <2> HIDE DEF f
  <2>2. PutFile(f)
    BY <1>4 DEF f
  <2> QED BY <1>2, <2>1, <2>2, FilePut
<1>5. CASE file.content.parses /\ PutFile([file EXCEPT !.content.hub = Blank])
  <2> DEFINE c == [file.content EXCEPT !.hub = Blank]
             f == [file EXCEPT !.content = c]
  <2>1. file.content # Broken
    BY <1>5 DEF Broken
  <2>2. c \in Content /\ c.hub = Blank
    BY <1>1, <2>1 DEF Content
  <2> HIDE DEF c
  <2>3. f \in Files /\ f.content = c
    BY <1>1, <2>2
  <2> HIDE DEF f
  <2>4. PutFile(f)
    BY <1>5 DEF f, c
  <2>5. ~Usable(c)
    BY <2>2 DEF Usable
  <2> QED BY <2>3, <2>4, <2>5, FilePut
<1>6. CASE PutFile([file EXCEPT !.content = Broken])
  <2> DEFINE f == [file EXCEPT !.content = Broken]
  <2>1. Broken \in Content /\ ~Usable(Broken)
    BY DEF Content, Usable, Broken
  <2>2. f \in Files /\ f.content = Broken
    BY <1>1, <2>1
  <2> HIDE DEF f
  <2>3. PutFile(f)
    BY <1>6 DEF f
  <2> QED BY <2>1, <2>2, <2>3, FilePut
<1> QED BY <1>3, <1>4, <1>5, <1>6 DEF Tamper

LEMMA ChangeOwnKeeps == ASSUME TokenInv, NEW e \in Endpoint, ChangeOwn(e) PROVE TokenInv'
<1>1. CliInv' /\ OrderInv' /\ AnswerInv'
  BY RefreshKept DEF ChangeOwn
<1>2. FileInv'
  BY DEF TokenInv, FileInv, ChangeOwn
<1>3. changes' \in 0 .. MaxChanges
  BY Bounds, Counters DEF TokenInv, ChangeOwn
<1>4. own' \in [Endpoint -> BOOLEAN]
  BY DEF TokenInv, TokenTypeOK, ChangeOwn
<1>5. TokenTypeOK'
  BY <1>3, <1>4 DEF TokenInv, TokenTypeOK, ChangeOwn
<1> QED BY <1>1, <1>2, <1>5 DEF TokenInv

LEMMA TickKeeps == TokenInv /\ Tick => TokenInv'
<1> SUFFICES ASSUME TokenInv, Tick PROVE TokenInv'
  OBVIOUS
<1>1. CliInv' /\ OrderInv' /\ AnswerInv'
  BY RefreshKept DEF Tick
<1>2. FileInv'
  BY DEF TokenInv, FileInv, Tick
<1>3. now' \in 0 .. MaxTime
  BY Bounds, Counters DEF TokenInv, Tick
<1>4. TokenTypeOK'
  BY <1>3 DEF TokenInv, TokenTypeOK, Tick
<1> QED BY <1>1, <1>2, <1>4 DEF TokenInv

Refreshing == [pc : {"idle", "attributes", "mode", "open", "clock", "asking"},
               open : BOOLEAN, cli : (Content \ {Broken}) \cup {None}, startedAt : 0 .. MaxTime]

\* A new refresh has asked nobody and knows no token; what it may find is the file that is there.
LEMMA BeginKeeps == TokenInv /\ Begin => TokenInv'
<1> SUFFICES ASSUME TokenInv, Begin PROVE TokenInv'
  OBVIOUS
<1> refresh' = [pc |-> "attributes", open |-> FALSE, cli |-> None, startedAt |-> 0]
  BY DEF Begin, Idle
<1> refreshes < MaxRefreshes /\ refreshes' = refreshes + 1
  BY DEF Begin
<1>1. refresh' \in Refreshing /\ refresh'.pc = "attributes" /\ refresh'.cli = None
  BY Bounds DEF Refreshing
<1>2. outcome' = [e \in Endpoint |-> "not asked"]
  BY DEF Begin
<1>3. seen' = {f.content : f \in {file} \ {None}} /\ UNCHANGED environment
  BY DEF Begin, environment
<1>4. UNCHANGED file
  BY <1>3 DEF environment
<1>5. refreshes' \in 0 .. MaxRefreshes
  BY Bounds, Counters DEF TokenInv
<1>6. file # None => file.content \in Content
  BY DEF TokenInv, TokenTypeOK
<1>7. seen' \subseteq Content
  BY <1>3, <1>6
<1>8. TokenTypeOK'
  BY <1>1, <1>2, <1>3, <1>5, <1>7 DEF TokenInv, TokenTypeOK, environment, Refreshing
<1>9. FileInv'
  BY <1>3, <1>4 DEF TokenInv, FileInv
<1>10. CliInv' /\ OrderInv' /\ AnswerInv'
  BY <1>1, <1>2 DEF CliInv, OrderInv, AnswerInv
<1> QED BY <1>8, <1>9, <1>10 DEF TokenInv

\* A step that reads something, and asks nobody.
LEMMA ReadingKeeps ==
  ASSUME TokenInv, NEW r \in Refreshing, refresh' = r,
         UNCHANGED <<environment, outcome, seen, refreshes>>,
         refresh.pc \in {"attributes", "mode", "open", "clock"},
         r.pc \in {"mode", "open"} => r.cli = None,
         r.pc # "attributes",
         r.cli # None => r.cli \in seen /\ r.cli.issuer = HubOf(r.cli.hub)
  PROVE  TokenInv'
<1>1. UNCHANGED <<file, own, now, changes>>
  BY DEF environment
<1>2. TokenTypeOK'
  BY <1>1 DEF TokenInv, TokenTypeOK, Refreshing
<1>3. FileInv'
  BY <1>1 DEF TokenInv, FileInv
<1>4. CliInv'
  BY DEF CliInv
<1>5. \A e \in Endpoint : outcome'[e] = "not asked"
  BY DEF TokenInv, OrderInv
<1>6. OrderInv'
  BY <1>5 DEF OrderInv
<1>7. AnswerInv'
  BY <1>5 DEF AnswerInv
<1> QED BY <1>2, <1>3, <1>4, <1>6, <1>7 DEF TokenInv

LEMMA RefreshTyped == TokenInv => refresh \in Refreshing
BY DEF TokenInv, TokenTypeOK, Refreshing

LEMMA ReadAttributesKeeps == TokenInv /\ ReadAttributes => TokenInv'
<1> SUFFICES ASSUME TokenInv, ReadAttributes PROVE TokenInv'
  OBVIOUS
<1> DEFINE r == [refresh EXCEPT !.pc = IF Regular THEN "mode" ELSE "clock"]
<1>1. r \in Refreshing /\ r.cli = refresh.cli /\ r.pc \in {"mode", "clock"}
  BY RefreshTyped DEF Refreshing
<1>2. refresh.pc = "attributes" /\ refresh.cli = None
  BY DEF ReadAttributes, At, TokenInv, OrderInv
<1>3. refresh' = r /\ UNCHANGED <<environment, outcome, seen, refreshes>>
  BY DEF ReadAttributes
<1> HIDE DEF r
<1> QED BY <1>1, <1>2, <1>3, ReadingKeeps

LEMMA ReadModeKeeps == TokenInv /\ ReadMode => TokenInv'
<1> SUFFICES ASSUME TokenInv, ReadMode PROVE TokenInv'
  OBVIOUS
<1> DEFINE r == IF file = None THEN [refresh EXCEPT !.pc = "clock"]
                ELSE [refresh EXCEPT !.pc = "open", !.open = Posix /\ ~file.private]
<1>1. (Posix /\ ~file.private) \in BOOLEAN
  OBVIOUS
<1>2. r \in Refreshing /\ r.cli = refresh.cli /\ r.pc \in {"open", "clock"}
  BY <1>1, RefreshTyped DEF Refreshing
<1>3. refresh.pc = "mode" /\ refresh.cli = None
  BY DEF ReadMode, At, TokenInv, OrderInv
<1>4. refresh' = r /\ UNCHANGED <<environment, outcome, seen, refreshes>>
  BY DEF ReadMode
<1> HIDE DEF r
<1> QED BY <1>2, <1>3, <1>4, ReadingKeeps

\* What is read is what the file holds then, if it is usable.
LEMMA ReadContentKeeps == TokenInv /\ ReadContent => TokenInv'
<1> SUFFICES ASSUME TokenInv, ReadContent PROVE TokenInv'
  OBVIOUS
<1> DEFINE cli == IF Regular /\ Usable(file.content) THEN file.content ELSE None
           r == [refresh EXCEPT !.pc = "clock", !.cli = cli]
<1>1. cli # None => Usable(file.content) /\ file # None /\ cli = file.content
  BY DEF Regular
<1>2. file # None => file.content \in Content
  BY DEF TokenInv, TokenTypeOK
<1>3. cli # None => cli # Broken
  BY <1>1 DEF Usable, Broken
<1>4. cli \in (Content \ {Broken}) \cup {None}
  BY <1>1, <1>2, <1>3
<1>5. cli # None => cli \in seen /\ cli.issuer = HubOf(cli.hub)
  BY <1>1 DEF TokenInv, FileInv
<1> HIDE DEF cli
<1>6. r \in Refreshing /\ r.cli = cli /\ r.pc = "clock"
  BY <1>4, RefreshTyped DEF Refreshing
<1>7. refresh.pc = "open"
  BY DEF ReadContent, At
<1>8. refresh' = r /\ UNCHANGED <<environment, outcome, seen, refreshes>>
  BY DEF ReadContent, cli
<1> HIDE DEF r
<1> QED BY <1>5, <1>6, <1>7, <1>8, ReadingKeeps

LEMMA ReadClockKeeps == TokenInv /\ ReadClock => TokenInv'
<1> SUFFICES ASSUME TokenInv, ReadClock PROVE TokenInv'
  OBVIOUS
<1> DEFINE r == [refresh EXCEPT !.pc = "asking", !.startedAt = now]
<1>1. now \in 0 .. MaxTime
  BY Counters DEF TokenInv
<1>2. r \in Refreshing /\ r.cli = refresh.cli /\ r.pc = "asking"
  BY <1>1, RefreshTyped DEF Refreshing
<1>3. refresh.pc = "clock"
  BY DEF ReadClock, At
<1>4. refresh' = r /\ UNCHANGED <<environment, outcome, seen, refreshes>>
  BY DEF ReadClock
<1>5. refresh.cli # None => refresh.cli \in seen /\ refresh.cli.issuer = HubOf(refresh.cli.hub)
  BY DEF TokenInv, CliInv
<1> HIDE DEF r
<1> QED BY <1>2, <1>3, <1>4, <1>5, ReadingKeeps

\* The token goes to the hub it names, and is refused there if at all.
LEMMA AskKeeps == ASSUME TokenInv, NEW e \in Endpoint, Ask(e) PROVE TokenInv'
<1> DEFINE Answers == {"not asked", "failed", "own", "token", "bare", "refused"}
<1>1. ForEndpoint(e) \in {"bare", "refused", "token"}
  BY DEF ForEndpoint
<1>2. ForEndpoint(e) # "bare" => refresh.cli # None /\ HubOf(refresh.cli.hub) = e
  BY DEF ForEndpoint
<1>3. PICK answer \in {"failed", SecretFor(e)} :
        outcome' = [outcome EXCEPT ![e] =
          IF answer \in {"own", "token"} /\ ~CredentialAllowed(e) THEN "refused" ELSE answer]
  BY DEF Ask
<1>4. answer \in {"failed", "own", "bare", "refused", "token"}
  BY <1>1, <1>3 DEF SecretFor
<1>5. answer \in {"token", "refused"} => answer = ForEndpoint(e)
  BY <1>3 DEF SecretFor
<1>6. UNCHANGED <<environment, refresh, seen, refreshes>> /\ refresh.pc = "asking"
  BY DEF Ask, At
<1>7. UNCHANGED <<file, own, now, changes>>
  BY <1>6 DEF environment
<1> DEFINE given == IF answer \in {"own", "token"} /\ ~CredentialAllowed(e) THEN "refused"
                    ELSE answer
<1>8. /\ given \in Answers
      /\ given = "token" => refresh.cli # None /\ HubOf(refresh.cli.hub) = e
      /\ given = "refused" =>
           \/ refresh.cli # None /\ HubOf(refresh.cli.hub) = e
           \/ ~CredentialAllowed(e)
  BY <1>2, <1>4, <1>5
<1>9. outcome' = [outcome EXCEPT ![e] = given]
  BY <1>3
<1> HIDE DEF given
<1>10. outcome \in [Endpoint -> Answers]
  BY DEF TokenInv, TokenTypeOK
<1>11. outcome' \in [Endpoint -> Answers]
  BY <1>8, <1>9, <1>10
<1>12. TokenTypeOK'
  BY <1>6, <1>7, <1>11 DEF TokenInv, TokenTypeOK
<1>13. FileInv' /\ CliInv'
  BY <1>6, <1>7 DEF TokenInv, FileInv, CliInv
<1>14. OrderInv'
  BY <1>6 DEF OrderInv
<1>15. \A d \in Endpoint : outcome'[d] = IF d = e THEN given ELSE outcome[d]
  BY <1>9, <1>10
<1>16. AnswerInv'
  BY <1>6, <1>8, <1>15 DEF TokenInv, AnswerInv
<1> QED BY <1>12, <1>13, <1>14, <1>16 DEF TokenInv

LEMMA FinishKeeps == TokenInv /\ Finish => TokenInv'
<1> SUFFICES ASSUME TokenInv, Finish PROVE TokenInv'
  OBVIOUS
<1>1. refresh' \in Refreshing /\ refresh'.cli = refresh.cli /\ refresh'.pc = "idle"
  BY RefreshTyped DEF Finish, Refreshing
<1>2. UNCHANGED <<file, own, now, changes, outcome, seen, refreshes>>
  BY DEF Finish, environment
<1>3. TokenTypeOK'
  BY <1>1, <1>2 DEF TokenInv, TokenTypeOK, Refreshing
<1>4. FileInv' /\ CliInv' /\ OrderInv' /\ AnswerInv'
  BY <1>1, <1>2 DEF TokenInv, FileInv, CliInv, OrderInv, AnswerInv
<1> QED BY <1>3, <1>4 DEF TokenInv

\* A refresh of the CLI's token is of the declared types throughout.
THEOREM TokenTypeCorrect == TokenSpec => []TokenInv
<1>1. TokenInv /\ UNCHANGED tokenVars => TokenInv'
  BY DEF tokenVars, TokenInv, TokenTypeOK, FileInv, CliInv, OrderInv, AnswerInv
<1>2. TokenInv /\ TokenNext => TokenInv'
  BY LogInKeeps, LogOutKeeps, TamperKeeps, TickKeeps, ChangeOwnKeeps, BeginKeeps,
     ReadAttributesKeeps, ReadModeKeeps, ReadContentKeeps, ReadClockKeeps, AskKeeps, FinishKeeps
  DEF TokenNext, Refresh
<1> QED BY <1>1, <1>2, TokenInitInv, PTL DEF TokenSpec

\* The login's token is sent to the hub that issued it and to no other endpoint, whatever is
\* done to the file between any two reads; nor is any other endpoint refused because of it.
THEOREM TokenAlwaysGoesHome == TokenSpec => []TokenGoesHome
<1>1. TokenInv => TokenGoesHome
  <2> SUFFICES ASSUME TokenInv, NEW e \in Endpoint
               PROVE  /\ outcome[e] = "token" => refresh.cli.issuer = e
                      /\ outcome[e] = "refused" =>
                           \/ refresh.cli # None /\ HubOf(refresh.cli.hub) = e
                           \/ ~CredentialAllowed(e)
    BY DEF TokenGoesHome
  <2> QED BY DEF TokenInv, AnswerInv, CliInv
<1> QED BY <1>1, TokenTypeCorrect, PTL

\* The token sent was in the file at some time since the refresh began: none is kept from an
\* earlier one.
THEOREM TokenAlwaysCurrent == TokenSpec => []TokenIsCurrent
<1>1. TokenInv => TokenIsCurrent
  BY DEF TokenInv, AnswerInv, CliInv, TokenIsCurrent
<1> QED BY <1>1, TokenTypeCorrect, PTL
=============================================================================
