---------------------------- MODULE EvidenceProofs ----------------------------
(***************************************************************************)
(* Proofs about what CI and the release make of a build: the gate of the   *)
(* jobs (Ci), the inspection of the archive (PluginZip), the coverage      *)
(* baseline (Coverage) and its reports (CoverageReport), and the audit of  *)
(* what was published (ReleaseAudit).                                      *)
(***************************************************************************)
EXTENDS Ci, PluginZip, Coverage, CoverageReport, ReleaseAudit, FiniteSetTheorems, WellFoundedInduction, TLAPS

-----------------------------------------------------------------------------
(* Induction over a finite set.  What holds is a set of subsets, not an    *)
(* operator, so that the fact can be cited: the smallest subset that is    *)
(* not good has an element to take away.                                   *)

LEMMA SetInduction ==
  ASSUME NEW S, IsFiniteSet(S), NEW Good, {} \in Good,
         \A T \in SUBSET S : \A x \in S \ T : T \in Good => T \cup {x} \in Good
  PROVE  S \in Good
<1> DEFINE Bad == {T \in SUBSET S : T \notin Good}
<1> SUFFICES ASSUME Bad # {} PROVE FALSE
  OBVIOUS
<1>1. Bad \subseteq FiniteSubsetsOf(S)
  BY FS_Subset DEF FiniteSubsetsOf
<1>2. PICK T \in Bad : \A U \in Bad : <<U, T>> \notin StrictSubsetOrdering(S)
  <2>1. IsWellFoundedOn(StrictSubsetOrdering(S), FiniteSubsetsOf(S))
    BY FS_StrictSubsetOrderingWellFounded
  <2> HIDE DEF Bad
  <2> QED BY <1>1, <2>1, WFMin
<1>3. PICK x \in T : TRUE
  BY <1>2
<1>4. T \ {x} \in Good
  <2>1. T \ {x} \in SUBSET S /\ T \ {x} # T /\ T \in SUBSET S
    BY <1>3
  <2>2. <<T \ {x}, T>> \in StrictSubsetOrdering(S)
    BY <2>1 DEF StrictSubsetOrdering
  <2> QED BY <1>2, <2>1, <2>2
<1>5. T = (T \ {x}) \cup {x}
  BY <1>3
<1> QED BY <1>2, <1>3, <1>4, <1>5

\* Of finitely many numbers one is the greatest.
LEMMA Greatest ==
  ASSUME NEW S, IsFiniteSet(S), S \subseteq Nat, S # {}
  PROVE  \E m \in S : \A n \in S : n <= m
<1> DEFINE Good == {T \in SUBSET S : T # {} => \E m \in T : \A n \in T : n <= m}
<1>1. {} \in Good
  OBVIOUS
<1>2. ASSUME NEW T \in SUBSET S, NEW x \in S \ T, T \in Good PROVE T \cup {x} \in Good
  <2>1. CASE T = {}
    <3>1. \A n \in T \cup {x} : n <= x
      BY <2>1
    <3> QED BY <3>1
  <2>2. CASE T # {}
    <3>1. PICK m \in T : \A n \in T : n <= m
      BY <1>2, <2>2
    <3>2. CASE m <= x
      <4>1. \A n \in T \cup {x} : n <= x
        BY <3>1, <3>2
      <4> QED BY <4>1
    <3>3. CASE ~(m <= x)
      <4>1. \A n \in T \cup {x} : n <= m
        BY <3>1, <3>3
      <4> QED BY <4>1
    <3> QED BY <3>2, <3>3
  <2> QED BY <2>1, <2>2
<1>3. S \in Good
  <2> HIDE DEF Good
  <2> QED BY <1>1, <1>2, SetInduction
<1> QED BY <1>3

-----------------------------------------------------------------------------
(* The inspection.  No marker passes it, however the entries come in       *)
(* chunks: the window reaches back as far as a marker that is not over yet *)
(* may have begun.                                                         *)

\* What the window holds are the last bytes that were read, and all of them as
\* long as they fit.  Before the content is read, nothing was.
ZipInv ==
  /\ zip \in Archive
  /\ inspection \in {"structure", "content", "accepted", "refused"}
  /\ entry \in Nat \ {0} /\ read \in Nat /\ kept = Limit(read, Overlap)
  /\ inspection = "structure" => entry = 1 /\ read = 0
  /\ MarkersAreSeen

\* What is known of entry i of an archive there may be.
LEMMA MarkerBounds ==
  ASSUME NEW z \in Archive, NEW i \in DOMAIN z.entries
  PROVE  LET e == z.entries[i] IN
         /\ e.marker.first \in Nat /\ e.marker.first >= 1
         /\ e.marker.size \in Nat /\ e.marker.size <= Longest
         /\ e.stream \in Nat /\ e.declared \in Nat
         /\ e.marker.size > 0 => e.marker.first + e.marker.size - 1 <= e.stream
<1>1. z.entries[i] \in Item
  BY ArchiveAssumption
<1>2. z.entries[i].marker \in [first : Nat \ {0}, size : 0 .. Longest]
  BY <1>1 DEF Item
<1>3. z.entries[i].stream \in Nat /\ z.entries[i].declared \in Nat
  BY <1>1 DEF Item
<1>4. /\ z.entries[i].marker.first \in Nat /\ z.entries[i].marker.first >= 1
      /\ z.entries[i].marker.size \in 0 .. Longest
  BY <1>2
<1>5. z.entries[i].marker.size > 0 =>
        z.entries[i].marker.first + z.entries[i].marker.size - 1 <= z.entries[i].stream
  BY ArchiveAssumption
<1> QED
  BY <1>3, <1>4, <1>5, OverlapAssumption

\* An entry nothing was read of has no marker that is over.
LEMMA NothingRead ==
  ASSUME NEW z \in Archive, NEW i \in DOMAIN z.entries
  PROVE  LET m == z.entries[i].marker IN m.size = 0 \/ m.first + m.size - 1 > 0
BY MarkerBounds

\* The window: a marker that ends in a chunk, and had not ended before it,
\* begins after what was dropped from the window.
LEMMA WindowReaches ==
  ASSUME NEW first \in Nat, NEW size \in Nat, NEW past \in Nat, NEW held \in Nat,
         size > 0, size <= Longest, held = Limit(past, Overlap),
         first >= 1, first + size - 1 > past
  PROVE  first > past - held
<1>1. CASE past <= Overlap
  BY <1>1, OverlapAssumption DEF Limit
<1>2. CASE past > Overlap
  BY <1>2, OverlapAssumption DEF Limit
<1> QED
  BY <1>1, <1>2, OverlapAssumption

LEMMA InitZipInv == ZipInit => ZipInv
<1> SUFFICES ASSUME ZipInit PROVE ZipInv
  OBVIOUS
<1>1. kept = Limit(read, Overlap)
  BY OverlapAssumption DEF ZipInit, Limit
<1> QED
  BY <1>1 DEF ZipInit, ZipInv, MarkersAreSeen

LEMMA StructureKeeps == ZipInv /\ CheckStructure => ZipInv'
<1> SUFFICES ASSUME ZipInv, CheckStructure PROVE ZipInv'
  OBVIOUS
<1>1. /\ inspection' \in {"content", "refused"}
      /\ UNCHANGED <<zip, entry, read, kept>> /\ entry = 1 /\ read = 0
  BY DEF CheckStructure, ZipInv
<1>2. kept' = Limit(read', Overlap)
  BY <1>1 DEF ZipInv, Limit
<1>3. MarkersAreSeen'
  <2>1. entry \in Index => Current.marker.size = 0 \/ Current.marker.first + Current.marker.size - 1 > read
    BY <1>1, NothingRead DEF ZipInv, Index, Current
  <2>2. 1 .. (entry - 1) = {}
    BY <1>1
  <2> QED
    BY <1>1, <2>1, <2>2 DEF MarkersAreSeen, Index, Current, Name
<1> QED
  BY <1>1, <1>2, <1>3 DEF ZipInv

LEMMA ChunkKeeps == ZipInv /\ ReadChunk => ZipInv'
<1> SUFFICES ASSUME ZipInv, ReadChunk PROVE ZipInv'
  OBVIOUS
<1>1. entry \in DOMAIN zip.entries /\ entry \in Index
  <2>1. zip.entries \in Seq(Item)
    BY ArchiveAssumption DEF ZipInv
  <2> QED
    BY <2>1 DEF ReadChunk, ZipInv, Index
<1>2. PICK chunk \in 1 .. (Current.stream - read) :
        IF read + chunk > Current.declared \/ InWindow(chunk)
        THEN inspection' = "refused" /\ UNCHANGED <<read, kept>>
        ELSE read' = read + chunk /\ kept' = KeptAfter(chunk) /\ UNCHANGED inspection
  BY DEF ReadChunk
<1>3. UNCHANGED <<zip, entry>> /\ inspection = "content"
  BY DEF ReadChunk
<1>4. CASE read + chunk > Current.declared \/ InWindow(chunk)
  BY <1>2, <1>3, <1>4 DEF ZipInv, MarkersAreSeen, Limit
<1>5. CASE ~(read + chunk > Current.declared \/ InWindow(chunk))
  <2>1. read' = read + chunk /\ kept' = KeptAfter(chunk) /\ inspection' = "content"
    BY <1>2, <1>3, <1>5
  <2> DEFINE m == Current.marker
  <2>2. /\ m.first \in Nat /\ m.first >= 1 /\ m.size \in Nat /\ m.size <= Longest
        /\ Current.stream \in Nat
    BY <1>1, MarkerBounds DEF ZipInv, Current
  <2>3. chunk \in Nat /\ read \in Nat /\ read' \in Nat
    BY <1>2, <2>1, <2>2 DEF ZipInv
  <2>4. kept' = Limit(read', Overlap)
    BY <2>1, <2>3, OverlapAssumption DEF ZipInv, KeptAfter, Limit
  <2>5. m.size = 0 \/ m.first + m.size - 1 > read'
    <3> SUFFICES ASSUME m.size # 0, m.first + m.size - 1 <= read + chunk PROVE FALSE
      BY <2>1, <2>2, <2>3
    <3>1. m.first + m.size - 1 > read
      BY <1>1, <1>3 DEF ZipInv, MarkersAreSeen
    <3>2. kept \in Nat /\ kept = Limit(read, Overlap)
      BY <2>3, OverlapAssumption DEF ZipInv, Limit
    <3>3. m.first > read - kept
      <4> HIDE DEF m
      <4>1. m.size > 0
        BY <2>2
      <4> QED
        BY <2>2, <2>3, <3>1, <3>2, <4>1, WindowReaches
    <3>4. ~InWindow(chunk)
      BY <1>5
    <3> QED
      BY <2>2, <3>3, <3>4 DEF InWindow
  <2>6. MarkersAreSeen'
    BY <1>3, <2>1, <2>5 DEF ZipInv, MarkersAreSeen, Index, Current, Name
  <2> QED
    BY <1>3, <2>1, <2>3, <2>4, <2>6 DEF ZipInv
<1> QED
  BY <1>4, <1>5

LEMMA NextEntryKeeps == ZipInv /\ NextEntry => ZipInv'
<1> SUFFICES ASSUME ZipInv, NextEntry PROVE ZipInv'
  OBVIOUS
<1>1. /\ zip' = zip /\ inspection = "content" /\ zip \in Archive
      /\ entry \in Nat \ {0} /\ read \in Nat /\ kept = Limit(read, Overlap)
  BY DEF NextEntry, ZipInv
<1>2. entry \in DOMAIN zip.entries /\ entry \in Index
  <2>1. zip.entries \in Seq(Item)
    BY <1>1, ArchiveAssumption
  <2> QED
    BY <1>1, <2>1 DEF NextEntry, Index
<1>3. CASE EndFits(Current.name) /\ JarFits(Current.name, Current.inside)
  <2>1. entry' = entry + 1 /\ read' = 0 /\ kept' = 0 /\ inspection' = "content"
    BY <1>1, <1>3 DEF NextEntry
  <2>2. kept' = Limit(read', Overlap)
    BY <2>1, OverlapAssumption DEF Limit
  <2>3. ASSUME NEW i \in 1 .. entry, Name(i) \notin Directories
        PROVE  zip.entries[i].marker.size = 0 /\ zip.entries[i].stream = zip.entries[i].declared
    <3>1. CASE i < entry
      BY <1>1, <2>3, <3>1 DEF ZipInv, MarkersAreSeen
    <3>2. CASE i = entry
      <4>1. read = Current.stream /\ read = Current.declared
        BY <1>3, <2>3, <3>2 DEF NextEntry, EndFits, Name, Current
      <4>2. Current.marker.size = 0 \/ Current.marker.first + Current.marker.size - 1 > read
        BY <1>1, <1>2 DEF ZipInv, MarkersAreSeen
      <4>3. /\ Current.marker.first \in Nat /\ Current.marker.size \in Nat /\ Current.stream \in Nat
            /\ Current.marker.size > 0 =>
                 Current.marker.first + Current.marker.size - 1 <= Current.stream
        BY <1>1, <1>2, MarkerBounds DEF Current
      <4>4. Current.marker.size = 0
        BY <4>1, <4>2, <4>3
      <4> QED
        BY <3>2, <4>1, <4>4 DEF Current
    <3> QED
      BY <1>1, <3>1, <3>2
  <2>4. ASSUME entry + 1 \in DOMAIN zip.entries
        PROVE  LET m == zip.entries[entry + 1].marker IN m.size = 0 \/ m.first + m.size - 1 > 0
    BY <1>1, <2>4, NothingRead
  <2>5. entry' - 1 = entry
    BY <1>1, <2>1
  <2>6. MarkersAreSeen'
    BY <1>1, <2>1, <2>3, <2>4, <2>5 DEF MarkersAreSeen, Index, Current, Name
  <2> QED
    BY <1>1, <2>1, <2>2, <2>6 DEF ZipInv
<1>4. CASE ~(EndFits(Current.name) /\ JarFits(Current.name, Current.inside))
  <2>1. inspection' = "refused" /\ UNCHANGED <<entry, read, kept>>
    BY <1>4 DEF NextEntry
  <2> QED
    BY <1>1, <2>1 DEF ZipInv, MarkersAreSeen, Limit
<1> QED
  BY <1>3, <1>4

LEMMA ManifestKeeps == ZipInv /\ Manifest => ZipInv'
<1> SUFFICES ASSUME ZipInv, Manifest PROVE ZipInv'
  OBVIOUS
<1>1. inspection = "content" /\ inspection' = "accepted" /\ UNCHANGED <<zip, entry, read, kept>>
  BY DEF Manifest
<1> QED
  BY <1>1 DEF ZipInv, MarkersAreSeen, Index, Current, Name, Limit

LEMMA StutterKeeps == ZipInv /\ UNCHANGED zipVars => ZipInv'
BY DEF ZipInv, zipVars, MarkersAreSeen, Index, Current, Name, Limit

\* Whatever has been read of an entry contains no marker, however long it may be up to the
\* overlap and wherever the chunks end (inspect-plugin-zip.py: stream_entry), for every
\* archive, every overlap and every length.
THEOREM MarkersAlwaysSeen == ZipSpec => []MarkersAreSeen
<1>1. ZipInv /\ [ZipNext]_zipVars => ZipInv'
  BY StructureKeeps, ChunkKeeps, NextEntryKeeps, ManifestKeeps, StutterKeeps DEF ZipNext
<1>2. ZipInv => MarkersAreSeen
  BY DEF ZipInv
<1> QED
  BY InitZipInv, <1>1, <1>2, PTL DEF ZipSpec

\* What the structure has shown stays true while the content is read.
StructureInv ==
  /\ zip \in Archive
  /\ inspection \in {"content", "accepted"} => Canonical /\ Tiled /\ ClosedAndOrdered

LEMMA StructureInvariant == ZipSpec => []StructureInv
<1>1. ZipInit => StructureInv
  BY DEF ZipInit, StructureInv
<1>2. StructureInv /\ [ZipNext]_zipVars => StructureInv'
  <2> SUFFICES ASSUME StructureInv, [ZipNext]_zipVars PROVE StructureInv'
    OBVIOUS
  <2>1. /\ UNCHANGED zip
        /\ \/ inspection' = inspection \/ inspection' = "refused"
           \/ inspection = "content"
           \/ Canonical /\ Tiled /\ ClosedAndOrdered
    BY DEF ZipNext, CheckStructure, ReadChunk, NextEntry, Manifest, zipVars
  <2>2. /\ Canonical' = Canonical /\ Tiled' = Tiled /\ ClosedAndOrdered' = ClosedAndOrdered
    <3>1. Index' = Index /\ Names' = Names /\ \A i : Name(i)' = Name(i)
      BY <2>1 DEF Index, Name, Names
    <3>2. \A i, j : Before(i, j)' <=> Before(i, j)
      BY <2>1 DEF Before
    <3>3. \A i : Previous(i)' = Previous(i)
      BY <3>1, <3>2 DEF Previous
    <3>4. Canonical' = Canonical /\ ClosedAndOrdered' = ClosedAndOrdered
      BY <2>1, <3>1 DEF Canonical, ClosedAndOrdered
    <3>5. Tiled' = Tiled
      <4> DEFINE last == CHOOSE i \in Index : \A j \in Index : ~Before(i, j)
      <4>1. last' = last
        BY <3>1, <3>2
      <4>2. Tiled = /\ \A i \in Index :
                         zip.entries[i].start =
                           IF \E j \in Index : Before(j, i) THEN zip.entries[Previous(i)].end ELSE 0
                    /\ zip.directory = IF Index = {} THEN 0 ELSE zip.entries[last].end
        BY DEF Tiled
      <4>3. Tiled' = /\ \A i \in Index' :
                          zip'.entries[i].start =
                            IF \E j \in Index' : Before(j, i)'
                            THEN zip'.entries[Previous(i)'].end ELSE 0
                     /\ zip'.directory = IF Index' = {} THEN 0 ELSE zip'.entries[last'].end
        BY DEF Tiled
      <4> HIDE DEF last
      <4> QED BY <2>1, <3>1, <3>2, <3>3, <4>1, <4>2, <4>3
    <3> QED BY <3>4, <3>5
  <2> QED BY <2>1, <2>2 DEF StructureInv
<1> QED BY <1>1, <1>2, PTL DEF ZipSpec

LEMMA EntryFacts ==
  ASSUME zip \in Archive
  PROVE  /\ Index \subseteq Nat /\ IsFiniteSet(Index)
         /\ \A i \in Index : zip.entries[i].start \in Nat /\ zip.entries[i].end \in Nat
<1>1. zip.entries \in Seq(Item)
  BY ArchiveAssumption
<1>2. Index = 1 .. Len(zip.entries) /\ Len(zip.entries) \in Nat
  BY <1>1 DEF Index
<1>3. \A i \in Index : zip.entries[i] \in Item
  BY <1>1, <1>2
<1>4. IsFiniteSet(Index)
  BY <1>2, FS_Interval
<1> QED BY <1>2, <1>3, <1>4 DEF Item

\* The order of the local headers is total.
LEMMA BeforeFacts ==
  ASSUME zip \in Archive
  PROVE  /\ \A i \in Index : ~Before(i, i)
         /\ \A i, j \in Index : i = j \/ Before(i, j) \/ Before(j, i)
         /\ \A i, j, k \in Index : Before(i, j) /\ Before(j, k) => Before(i, k)
         /\ \A i, j \in Index : Before(i, j) => zip.entries[i].start <= zip.entries[j].start
BY EntryFacts DEF Before

\* Some of the entries have a first and a last one.
LEMMA FirstAndLast ==
  ASSUME zip \in Archive, NEW some \in SUBSET Index, some # {}
  PROVE  /\ \E m \in some : \A n \in some : n = m \/ Before(m, n)
         /\ \E m \in some : \A n \in some : n = m \/ Before(n, m)
<1> DEFINE Good == {T \in SUBSET some : T # {} =>
                      /\ \E m \in T : \A n \in T : n = m \/ Before(m, n)
                      /\ \E m \in T : \A n \in T : n = m \/ Before(n, m)}
<1>1. {} \in Good
  OBVIOUS
<1>2. ASSUME NEW T \in SUBSET some, NEW x \in some \ T, T \in Good PROVE T \cup {x} \in Good
  <2>1. CASE T = {}
    <3>1. \A n \in T \cup {x} : n = x
      BY <2>1
    <3> QED BY <3>1
  <2>2. CASE T # {}
    <3>1. PICK first \in T : \A n \in T : n = first \/ Before(first, n)
      BY <1>2, <2>2
    <3>2. PICK last \in T : \A n \in T : n = last \/ Before(n, last)
      BY <1>2, <2>2
    <3>3. \E m \in T \cup {x} : \A n \in T \cup {x} : n = m \/ Before(m, n)
      <4>1. CASE Before(x, first)
        <5>1. \A n \in T \cup {x} : n = x \/ Before(x, n)
          BY <3>1, <4>1, BeforeFacts
        <5> QED BY <5>1
      <4>2. CASE ~Before(x, first)
        <5>1. \A n \in T \cup {x} : n = first \/ Before(first, n)
          BY <3>1, <4>2, BeforeFacts
        <5> QED BY <5>1
      <4> QED BY <4>1, <4>2
    <3>4. \E m \in T \cup {x} : \A n \in T \cup {x} : n = m \/ Before(n, m)
      <4>1. CASE Before(last, x)
        <5>1. \A n \in T \cup {x} : n = x \/ Before(n, x)
          BY <3>2, <4>1, BeforeFacts
        <5> QED BY <5>1
      <4>2. CASE ~Before(last, x)
        <5>1. \A n \in T \cup {x} : n = last \/ Before(n, last)
          BY <3>2, <4>2, BeforeFacts
        <5> QED BY <5>1
      <4> QED BY <4>1, <4>2
    <3> QED BY <3>3, <3>4
  <2> QED BY <2>1, <2>2
<1>3. IsFiniteSet(some)
  BY EntryFacts, FS_Subset
<1>4. some \in Good
  <2> HIDE DEF Good
  <2> QED BY <1>1, <1>2, <1>3, SetInduction
<1> QED BY <1>4

\* Where one entry ends, the next one starts.
LEMMA NextStarts ==
  ASSUME zip \in Archive, Tiled, NEW i \in Index, NEW j \in Index, Before(i, j)
  PROVE  \E k \in Index : /\ Before(i, k) /\ (k = j \/ Before(k, j))
                          /\ zip.entries[k].start = zip.entries[i].end
<1> DEFINE after == {k \in Index : Before(i, k)}
<1>1. PICK k \in after : \A n \in after : n = k \/ Before(k, n)
  <2>1. after \in SUBSET Index /\ after # {}
    OBVIOUS
  <2> HIDE DEF after
  <2> QED BY <2>1, FirstAndLast
<1>2. k \in Index /\ Before(i, k) /\ \A n \in Index : Before(n, k) => ~Before(i, n)
  BY <1>1, BeforeFacts
<1>3. ASSUME NEW l \in Index, Before(l, k), \A n \in Index : Before(n, k) => ~Before(l, n)
      PROVE  l = i
  BY <1>2, <1>3, BeforeFacts
<1>4. Previous(k) = i
  BY <1>2, <1>3 DEF Previous
<1>5. zip.entries[k].start = zip.entries[i].end
  BY <1>2, <1>4 DEF Tiled
<1> QED BY <1>1, <1>2, <1>5

\* Every byte before the central directory is one entry's.
LEMMA TiledIsPartition ==
  ASSUME zip \in Archive, Tiled, NEW byte \in 0 .. (zip.directory - 1)
  PROVE  Cardinality({i \in Index : zip.entries[i].start <= byte /\ byte < zip.entries[i].end}) = 1
<1> DEFINE begun == {i \in Index : zip.entries[i].start <= byte}
           inside == {i \in Index : zip.entries[i].start <= byte /\ byte < zip.entries[i].end}
<1>1. PICK last \in Index : \A j \in Index : j = last \/ Before(j, last)
  <2>1. Index # {}
    BY DEF Tiled
  <2> QED BY <2>1, FirstAndLast
<1>2. zip.directory = zip.entries[last].end
  <2>1. \A i \in Index : (\A j \in Index : ~Before(i, j)) => i = last
    BY <1>1
  <2>2. \A j \in Index : ~Before(last, j)
    BY <1>1, BeforeFacts
  <2>3. (CHOOSE i \in Index : \A j \in Index : ~Before(i, j)) = last
    BY <2>1, <2>2
  <2> QED BY <2>3 DEF Tiled
<1>3. zip.directory \in Nat /\ byte \in Nat /\ byte < zip.directory
  BY <1>2, EntryFacts
<1>4. PICK first \in Index : \A j \in Index : j = first \/ Before(first, j)
  BY <1>1, FirstAndLast
<1>5. first \in begun
  <2>1. ~\E j \in Index : Before(j, first)
    BY <1>4, BeforeFacts
  <2> QED BY <1>3, <2>1 DEF Tiled
<1>6. PICK m \in begun : \A n \in begun : n = m \/ Before(n, m)
  <2>1. begun \in SUBSET Index
    OBVIOUS
  <2> HIDE DEF begun
  <2> QED BY <1>5, <2>1, FirstAndLast
<1>7. byte < zip.entries[m].end
  <2>1. CASE m = last
    BY <1>2, <1>3, <2>1
  <2>2. CASE m # last
    <3>1. PICK k \in Index : Before(m, k) /\ zip.entries[k].start = zip.entries[m].end
      BY <1>1, <2>2, NextStarts
    <3>2. k \notin begun
      BY <1>6, <3>1, BeforeFacts
    <3> QED BY <1>3, <3>1, <3>2, EntryFacts
  <2> QED BY <2>1, <2>2
<1>8. ASSUME NEW i \in inside PROVE i = m
  <2> SUFFICES ASSUME i # m PROVE FALSE
    OBVIOUS
  <2>1. i \in begun /\ i \in Index /\ m \in Index /\ Before(i, m)
    BY <1>6
  <2>2. PICK k \in Index : /\ k = m \/ Before(k, m)
                           /\ zip.entries[k].start = zip.entries[i].end
    BY <2>1, NextStarts
  <2>3. zip.entries[k].start <= zip.entries[m].start
    BY <2>1, <2>2, BeforeFacts, EntryFacts
  <2>4. zip.entries[m].start <= byte /\ byte < zip.entries[i].end
    BY <1>6
  <2> QED BY <1>3, <2>1, <2>2, <2>3, <2>4, EntryFacts
<1>9. inside = {m}
  BY <1>6, <1>7, <1>8
<1> HIDE DEF inside
<1>10. Cardinality(inside) = 1
  BY <1>9, FS_Singleton
<1> QED BY <1>10 DEF inside

\* A directory is before all that is below it, however deep.
LEMMA AncestorsFirst ==
  ASSUME zip \in Archive, ClosedAndOrdered, NEW i \in Index, NEW d \in Ancestors(Name(i))
  PROVE  \E j \in Index : Name(j) = d /\ j <= i
<1> DEFINE way == {Name(j) : j \in {k \in Index : k <= i}} \cap Directories
<1>1. \A j \in Index : Name(j) \in Closed /\ j \in Nat
  BY EntryFacts DEF ClosedAndOrdered, Names
<1>2. ASSUME NEW j \in Index, j <= i PROVE Parent[Name(j)] \in way
  <2>1. Parent[Name(j)] \in Directories
    BY <1>1 DEF Directories
  <2>2. \E k \in Index : Name(k) = Parent[Name(j)] /\ k <= j
    <3>1. CASE Name(j) = Root
      BY <1>1, <3>1, RootAssumption
    <3>2. CASE Name(j) # Root
      BY <3>2 DEF ClosedAndOrdered
    <3> QED BY <3>1, <3>2
  <2>3. PICK k \in Index : Name(k) = Parent[Name(j)] /\ k <= j
    BY <2>2
  <2>4. k <= i
    BY <1>1, <1>2, <2>3
  <2> QED BY <2>1, <2>3, <2>4
<1>3. Parent[Name(i)] \in way
  <2>1. i <= i
    BY <1>1
  <2> QED BY <1>2, <2>1
<1>4. \A e \in way : Parent[e] \in way
  BY <1>2
<1>5. way \in SUBSET Directories
  OBVIOUS
<1>6. d \in way
  <2> HIDE DEF way
  <2> QED BY <1>3, <1>4, <1>5 DEF Ancestors
<1> QED BY <1>6

\* inspect-plugin-zip.py: an archive that is accepted has no byte outside of its entries or in two
\* of them, and every directory before what is in it, for any archive whatever.
THEOREM AcceptedAlwaysClosed == ZipSpec => []AcceptedIsClosed
<1>1. StructureInv => AcceptedIsClosed
  BY TiledIsPartition, AncestorsFirst DEF StructureInv, AcceptedIsClosed
<1> QED BY <1>1, StructureInvariant, PTL

-----------------------------------------------------------------------------
(* The coverage baseline                                                   *)

\* The committed values are what they were established from.
OriginInv ==
  /\ code \in [Surfaces -> Rates] /\ changed \in {Pending} \cup Rates
  /\ origin \in [Surfaces -> Rates \cup {Pending}]
  /\ baseline = IF \A s \in Surfaces : origin[s] = Pending THEN Absent ELSE origin

\* A build's file has the Rider value it measured, next to values of the committed file.
EvidenceInv ==
  /\ DOMAIN evidence = Windows
  /\ \A w \in Windows : evidence[w] # NoEvidence =>
       evidence[w].measured \in Rates /\ evidence[w].file["rider"] = evidence[w].measured

\* What was said still holds of what it was said of.
VerdictInv ==
  /\ verdict.said = "merge" =>
       /\ EvidenceMatches /\ baseline # Absent
       /\ \A w \in Windows : evidence[w] # NoEvidence
  /\ verdict.said = "ok" =>
       /\ verdict.of \in Surfaces /\ baseline # Absent
       /\ Same(verdict.rate, baseline[verdict.of])
       /\ ~Less(code[verdict.of], baseline[verdict.of])
       /\ EnoughNewCode(verdict.of)

CovInv == OriginInv /\ EvidenceInv /\ VerdictInv

\* Fractions with a denominator that are equal to a third are equal.
LEMMA SameTransitive ==
  ASSUME NEW p \in Rates \cup {Pending}, NEW q \in Rates, NEW r \in Rates, Same(p, q), Same(q, r)
  PROVE  Same(p, r)
<1>1. /\ p.covered \in Nat /\ p.lines \in Nat /\ q.covered \in Nat /\ q.lines \in Nat \ {0}
      /\ r.covered \in Nat /\ r.lines \in Nat \ {0} /\ q # Pending /\ r # Pending
  BY RatesAssumption DEF Pending
<1>2. p # Pending
  BY <1>1 DEF Same
<1>3. p.covered * q.lines = q.covered * p.lines /\ q.covered * r.lines = r.covered * q.lines
  BY DEF Same
<1>4. q.lines * (p.covered * r.lines) = q.lines * (r.covered * p.lines)
  <2>1. q.lines * (p.covered * r.lines) = (p.covered * q.lines) * r.lines
    BY <1>1
  <2>2. (q.covered * p.lines) * r.lines = (q.covered * r.lines) * p.lines
    BY <1>1
  <2>3. (r.covered * q.lines) * p.lines = q.lines * (r.covered * p.lines)
    BY <1>1
  <2> QED BY <1>3, <2>1, <2>2, <2>3
<1>5. \A n \in Nat \ {0} : \A a, b \in Nat : n * a = n * b => a = b
  OBVIOUS
<1>6. p.covered * r.lines \in Nat /\ r.covered * p.lines \in Nat
  BY <1>1
<1> QED BY <1>1, <1>2, <1>4, <1>5, <1>6 DEF Same

LEMMA RateFacts ==
  /\ Pending \notin Rates /\ \A s \in Surfaces : Absent[s] \notin Rates /\ Absent[s] # Pending
  /\ Surfaces # {}
BY RatesAssumption DEF Pending, Absent, Surfaces

LEMMA InitCovInv == CovInit => CovInv
BY DEF CovInit, CovInv, OriginInv, EvidenceInv, VerdictInv, NoVerdict, NoEvidence

\* What a maintainer commits has the origin it is given.
LEMMA EstablishKeeps ==
  ASSUME CovInv, NEW surface \in Surfaces, NEW onWindows \in BOOLEAN, Establish(surface, onWindows)
  PROVE  CovInv'
<1>1. /\ baseline' = Established(baseline, surface, code[surface])
      /\ origin' = [origin EXCEPT ![surface] = code[surface]] /\ verdict' = NoVerdict
      /\ UNCHANGED <<code, changed, evidence>> /\ code[surface] \in Rates
  BY DEF Establish, CovInv, OriginInv
<1>2. origin' \in [Surfaces -> Rates \cup {Pending}] /\ origin'[surface] # Pending
  BY <1>1, RateFacts DEF CovInv, OriginInv
<1>3. baseline' = origin'
  <2>1. ASSUME NEW s \in Surfaces PROVE baseline'[s] = origin'[s]
    <3>1. CASE s = surface
      BY <1>1, <3>1 DEF Established, CovInv, OriginInv
    <3>2. CASE s # surface /\ baseline = Absent
      BY <1>1, <3>2, RateFacts DEF Established, CovInv, OriginInv
    <3>3. CASE s # surface /\ baseline # Absent
      BY <1>1, <3>3 DEF Established, CovInv, OriginInv
    <3> QED BY <3>1, <3>2, <3>3
  <2>2. baseline' = [s \in Surfaces |-> baseline'[s]]
    BY <1>1 DEF Established
  <2> QED BY <1>2, <2>1, <2>2
<1> QED BY <1>1, <1>2, <1>3
        DEF CovInv, OriginInv, EvidenceInv, VerdictInv, NoVerdict

LEMMA BuildEvidenceKeeps ==
  ASSUME CovInv, NEW w \in Windows, BuildEvidence(w) PROVE CovInv'
<1>1. PICK rate \in Rates :
        evidence' = [evidence EXCEPT ![w] =
          [file |-> Established(baseline, "rider", rate), measured |-> rate]]
  BY DEF BuildEvidence
<1>2. UNCHANGED <<code, changed, baseline, origin, verdict>> /\ evidence[w] = NoEvidence
  BY DEF BuildEvidence
<1>3. Established(baseline, "rider", rate)["rider"] = rate
  BY DEF Established, Surfaces
<1>4. EvidenceInv'
  BY <1>1, <1>3 DEF CovInv, EvidenceInv
<1>5. verdict.said # "merge"
  BY <1>2 DEF CovInv, VerdictInv
<1> QED BY <1>2, <1>4, <1>5 DEF CovInv, OriginInv, VerdictInv, EnoughNewCode

LEMMA NextCovInv == CovInv /\ [CovNext]_covVars => CovInv'
<1> SUFFICES ASSUME CovInv, [CovNext]_covVars PROVE CovInv'
  OBVIOUS
<1>1. ASSUME NEW s \in Surfaces, NEW onWindows \in BOOLEAN, Establish(s, onWindows) PROVE CovInv'
  BY <1>1, EstablishKeeps
<1>2. ASSUME NEW w \in Windows, BuildEvidence(w) PROVE CovInv'
  BY <1>2, BuildEvidenceKeeps
<1>3. CASE ChangeCode
  BY <1>3 DEF ChangeCode, CovInv, OriginInv, EvidenceInv, VerdictInv, NoVerdict
<1>4. CASE CompareEvidence
  <2>1. /\ UNCHANGED <<code, changed, baseline, origin, evidence>>
        /\ \A w \in Windows : evidence[w] # NoEvidence
        /\ verdict' = IF EvidenceMatches
                      THEN [said |-> "merge", of |-> "rider", rate |-> baseline["rider"],
                            changed |-> Pending]
                      ELSE NoVerdict
    BY <1>4 DEF CompareEvidence
  <2>2. EvidenceMatches => baseline # Absent
    <3>1. "a" \in Windows /\ "rider" \in Surfaces
      BY DEF Windows, Surfaces
    <3>2. evidence["a"].file["rider"] \in Rates
      BY <2>1, <3>1 DEF CovInv, EvidenceInv
    <3>3. Absent["rider"] = [covered |-> 1, lines |-> 0]
      BY <3>1 DEF Absent
    <3>4. ~Same(Absent["rider"], evidence["a"].file["rider"])
      BY <3>2, <3>3, RatesAssumption DEF Same
    <3> QED BY <3>1, <3>4 DEF EvidenceMatches, SameFile
  <2> QED BY <2>1, <2>2 DEF CovInv, OriginInv, EvidenceInv, VerdictInv, NoVerdict, EvidenceMatches
<1>5. ASSUME NEW surface \in Surfaces, Check(surface) PROVE CovInv'
  <2>1. PICK reference \in Rates :
          verdict' =
            IF /\ baseline[surface] # Pending
               /\ Same(reference, baseline[surface])
               /\ ~Less(code[surface], baseline[surface])
               /\ EnoughNewCode(surface)
            THEN [said |-> "ok", of |-> surface, rate |-> reference, changed |-> changed]
            ELSE NoVerdict
    BY <1>5 DEF Check
  <2>2. UNCHANGED <<code, changed, baseline, origin, evidence>> /\ baseline # Absent
    BY <1>5 DEF Check
  <2>3. VerdictInv'
    BY <1>5, <2>1, <2>2 DEF VerdictInv, NoVerdict, EnoughNewCode
  <2> QED BY <2>2, <2>3 DEF CovInv, OriginInv, EvidenceInv
<1>6. CASE UNCHANGED covVars
  BY <1>6 DEF covVars, CovInv, OriginInv, EvidenceInv, VerdictInv, EvidenceMatches, EnoughNewCode
<1> QED BY <1>1, <1>2, <1>3, <1>4, <1>5, <1>6 DEF CovNext

LEMMA CoverageInvariant == CovSpec => []CovInv
BY InitCovInv, NextCovInv, PTL DEF CovSpec

\* ci.yml, the windows-rider job: what is merged is what both Windows builds measured, whatever
\* coverage a baseline, a build or a flaky test may give.
THEOREM MergedAlwaysMeasured == CovSpec => []MergedIsMeasured
<1>1. CovInv => MergedIsMeasured
  <2> SUFFICES ASSUME CovInv, verdict.said = "merge", NEW w \in Windows
               PROVE  Same(evidence[w].measured, origin["rider"])
    BY DEF MergedIsMeasured
  <2>1. /\ Same(evidence["a"].file["rider"], evidence["b"].file["rider"])
        /\ Same(baseline["rider"], evidence["a"].file["rider"])
        /\ baseline = origin
    BY DEF CovInv, OriginInv, VerdictInv, EvidenceMatches, SameFile, Surfaces
  <2>2. \A v \in Windows :
          evidence[v].measured \in Rates /\ evidence[v].file["rider"] = evidence[v].measured
    BY DEF CovInv, EvidenceInv, VerdictInv
  <2>3. origin["rider"] \in Rates \cup {Pending}
    BY DEF CovInv, OriginInv, Surfaces
  <2>4. Same(origin["rider"], evidence["a"].measured)
        /\ Same(evidence["a"].measured, evidence["b"].measured)
    BY <2>1, <2>2 DEF Windows
  <2>5. Same(origin["rider"], evidence["b"].measured)
    BY <2>2, <2>3, <2>4, SameTransitive DEF Windows
  <2>6. Same(origin["rider"], evidence[w].measured)
    BY <2>4, <2>5 DEF Windows
  <2> QED BY <2>6 DEF Same
<1> QED BY <1>1, CoverageInvariant, PTL

\* check-coverage.py: a check that passes has compared with the coverage the surface's own
\* baseline was established from, and has found four fifths of the new lines covered.
THEOREM CheckedAlwaysHolds == CovSpec => []CheckedHolds
<1>1. CovInv => CheckedHolds
  <2> SUFFICES ASSUME CovInv, verdict.said = "ok" PROVE CheckedHolds
    BY DEF CheckedHolds
  <2>1. /\ Same(verdict.rate, baseline[verdict.of]) /\ ~Less(code[verdict.of], baseline[verdict.of])
        /\ EnoughNewCode(verdict.of) /\ baseline = origin
    BY DEF CovInv, OriginInv, VerdictInv
  <2>2. 5 * changed.covered >= 4 * changed.lines
    <3>1. changed.covered \in Nat /\ changed.lines \in Nat
      BY RatesAssumption DEF CovInv, OriginInv, Pending
    <3>2. CASE changed = Pending
      BY <3>2 DEF Pending
    <3>3. CASE changed # Pending
      BY <2>1, <3>1, <3>3 DEF EnoughNewCode
    <3> QED BY <3>2, <3>3
  <2> QED BY <2>1, <2>2 DEF CheckedHolds
<1> QED BY <1>1, CoverageInvariant, PTL


-----------------------------------------------------------------------------
(* The audit                                                               *)

ReleaseFiles ==
  [zip : Plugin, sbom : Build \cup {None}, certificate : Certificate \cup {None},
   manifest : ReleaseManifest]
Desk == [version : Version \cup {0}, unsigned : Plugin, files : ReleaseFiles]

AuditTypeOK ==
  /\ identity \in Certificate \cup {None} /\ secret \in Certificate
  /\ desk \in Desk /\ stage \in {"idle", "create", "upload", "publish"}
  /\ github \in [Version -> ReleaseFiles] /\ market \in [Version -> Plugin]
  /\ audit \in {"none", "fine", "failed"} /\ mishaps \in Nat
  /\ published \in [Version -> ReleaseManifest]

\* What a manifest says of the unsigned build, which is not published.
Vouched(m) ==
  /\ m.zip.author # None /\ ~m.zip.jetbrains
  /\ Unsigned(m.zip.build) = m.unsigned /\ m.sbom = m.zip.build

\* Files that are what their manifest says.
Whole(v, files) ==
  /\ files.manifest.version = v /\ files.manifest.certificate = files.certificate
  /\ files.manifest.zip = files.zip /\ files.manifest.sbom = files.sbom
  /\ files.zip.author = files.certificate

\* What the Marketplace gives is what it was given, countersigned or not.
Fits(plugin, files) == plugin.build = files.zip.build /\ plugin.author = files.zip.author

DeskInv ==
  /\ stage = "create" =>
       /\ desk.version \in Version /\ desk.files.sbom = desk.files.zip.build
       /\ desk.files.zip.author = desk.files.certificate
  /\ stage \in {"upload", "publish"} =>
       /\ desk.version \in Version /\ Vouched(desk.files.manifest)
       /\ Whole(desk.version, desk.files)

PublicInv ==
  /\ \A v \in Version : github[v] # Nothing => Vouched(published[v])
  /\ mishaps = 0 =>
       /\ stage = "publish" => Fits(market[desk.version], desk.files)
       /\ \A v \in Version : github[v] # Nothing =>
            /\ github[v].manifest = published[v]
            /\ Whole(v, github[v]) /\ Fits(market[v], github[v])

\* What the audit said still holds.
AuditSaid ==
  /\ audit = "fine" => Released # {} /\ AuditFinds
  /\ audit = "failed" => ~AuditFinds

AuditInv == AuditTypeOK /\ DeskInv /\ PublicInv /\ AuditSaid

LEMMA InitAuditInv == AuditInit => AuditInv
<1> SUFFICES ASSUME AuditInit PROVE AuditInv
  OBVIOUS
<1>1. NoPlugin \in Plugin
  BY DEF NoPlugin, Unsigned, Plugin
<1>2. NoManifest \in ReleaseManifest
  BY <1>1 DEF NoManifest, ReleaseManifest
<1>3. Nothing \in ReleaseFiles
  BY <1>1, <1>2 DEF Nothing, ReleaseFiles
<1>4. NoDesk \in Desk
  BY <1>1, <1>3 DEF NoDesk, Desk
<1>5. AuditTypeOK
  BY <1>1, <1>2, <1>3, <1>4 DEF AuditInit, AuditTypeOK
<1> QED BY <1>5 DEF AuditInit, AuditInv, DeskInv, PublicInv, AuditSaid

LEMMA NothingFacts ==
  /\ NoPlugin \in Plugin /\ Nothing \in ReleaseFiles /\ NoDesk \in Desk
  /\ Nothing.zip.author = None /\ ~Vouched(Nothing.manifest)
<1>1. NoPlugin \in Plugin /\ NoPlugin.author = None
  BY DEF NoPlugin, Unsigned, Plugin
<1>2. NoManifest \in ReleaseManifest /\ NoManifest.zip = NoPlugin
  BY <1>1 DEF NoManifest, ReleaseManifest
<1>3. Nothing \in ReleaseFiles /\ Nothing.zip = NoPlugin /\ Nothing.manifest = NoManifest
  BY <1>1, <1>2 DEF Nothing, ReleaseFiles
<1>4. NoDesk \in Desk
  BY <1>1, <1>3 DEF NoDesk, Desk
<1> QED BY <1>1, <1>2, <1>3, <1>4 DEF Vouched

\* What is done at the desk is not public yet.
LEMMA AtTheDesk ==
  ASSUME AuditInv, UNCHANGED <<day, identity, secret, github, market, mishaps, published>>,
         desk' \in Desk, stage' \in {"idle", "create", "upload"}, DeskInv',
         audit' \in {audit, "none"}
  PROVE  AuditInv'
<1>1. AuditTypeOK'
  BY DEF AuditInv, AuditTypeOK
<1>2. PublicInv'
  BY DEF AuditInv, PublicInv
<1>3. Released' = Released /\ AuditFinds' = AuditFinds
  BY DEF Released, AuditFinds, LatestReleased, Verifies, CertificateFits
<1>4. AuditSaid'
  BY <1>3 DEF AuditInv, AuditSaid
<1> QED BY <1>1, <1>2, <1>4 DEF AuditInv

LEMMA SignKeeps == ASSUME AuditInv, NEW v \in Version, Sign(v) PROVE AuditInv'
<1>1. PICK unsigned \in Build, b \in Build :
        desk' = [version |-> v, unsigned |-> Unsigned(unsigned),
                 files |-> [zip |-> [build |-> b, author |-> secret, jetbrains |-> FALSE],
                            sbom |-> b, certificate |-> secret, manifest |-> NoManifest]]
  BY DEF Sign
<1>2. /\ stage' = "create" /\ UNCHANGED <<day, identity, secret, github, market, mishaps, published>>
      /\ audit' = "none" /\ secret \in Certificate
  BY DEF Sign, Step, Quiet, AuditInv, AuditTypeOK
<1> DEFINE zip1 == [build |-> b, author |-> secret, jetbrains |-> FALSE]
           files1 == [zip |-> zip1, sbom |-> b, certificate |-> secret, manifest |-> NoManifest]
<1>3. zip1 \in Plugin /\ Unsigned(unsigned) \in Plugin /\ NoManifest \in ReleaseManifest
  <2>1. NoPlugin \in Plugin
    BY NothingFacts
  <2> QED BY <1>2, <2>1 DEF Plugin, Unsigned, NoManifest, ReleaseManifest
<1>4. zip1.build = b /\ zip1.author = secret
  OBVIOUS
<1>5. desk' = [version |-> v, unsigned |-> Unsigned(unsigned), files |-> files1]
  BY <1>1
<1> HIDE DEF zip1
<1>6. files1 \in ReleaseFiles /\ files1.zip = zip1 /\ files1.sbom = b /\ files1.certificate = secret
  BY <1>2, <1>3 DEF ReleaseFiles
<1> HIDE DEF files1
<1>7. desk' \in Desk /\ desk'.version = v /\ desk'.files = files1
  BY <1>3, <1>5, <1>6 DEF Desk
<1>8. DeskInv'
  BY <1>2, <1>4, <1>6, <1>7 DEF DeskInv
<1> QED BY <1>2, <1>7, <1>8, AtTheDesk

LEMMA CreateKeeps == ASSUME AuditInv, Create PROVE AuditInv'
<1>1. /\ stage = "create" /\ stage' = "upload" /\ MayCreate(desk)
      /\ UNCHANGED <<day, identity, secret, github, market, audit, mishaps, published>>
      /\ desk' = [desk EXCEPT !.files.manifest = ManifestOf(desk.version, desk.unsigned, desk.files)]
  BY DEF Create, Step
<1>2. /\ desk \in Desk /\ desk.files \in ReleaseFiles /\ desk.version \in Version
      /\ desk.files.sbom = desk.files.zip.build
      /\ desk.files.zip.author = desk.files.certificate
  BY <1>1 DEF AuditInv, AuditTypeOK, DeskInv, Desk
<1> DEFINE m == ManifestOf(desk.version, desk.unsigned, desk.files)
           files1 == [desk.files EXCEPT !.manifest = m]
<1>3. /\ m \in ReleaseManifest /\ m.version = desk.version /\ m.unsigned = desk.unsigned
      /\ m.certificate = desk.files.certificate /\ m.zip = desk.files.zip
      /\ m.sbom = desk.files.sbom
  BY <1>2 DEF ManifestOf, ReleaseManifest, ReleaseFiles, Desk
<1>4. desk' = [desk EXCEPT !.files = files1]
  BY <1>1, <1>2 DEF Desk, ReleaseFiles
<1> HIDE DEF m
<1>5. /\ files1 \in ReleaseFiles /\ files1.manifest = m /\ files1.zip = desk.files.zip
      /\ files1.certificate = desk.files.certificate /\ files1.sbom = desk.files.sbom
  BY <1>2, <1>3 DEF ReleaseFiles
<1> HIDE DEF files1
<1>6. desk' \in Desk /\ desk'.version = desk.version /\ desk'.files = files1
  BY <1>2, <1>4, <1>5 DEF Desk
<1>7. Vouched(m)
  BY <1>1, <1>2, <1>3 DEF MayCreate, SamePayload, Vouched
<1>8. DeskInv'
  BY <1>1, <1>2, <1>3, <1>5, <1>6, <1>7 DEF DeskInv, Whole
<1> QED BY <1>1, <1>6, <1>8, AtTheDesk

LEMMA GiveUpKeeps == ASSUME AuditInv, GiveUp PROVE AuditInv'
<1>1. stage' = "idle" /\ desk' = NoDesk
      /\ UNCHANGED <<day, identity, secret, github, market, audit, mishaps, published>>
  BY DEF GiveUp
<1>2. DeskInv'
  BY <1>1 DEF DeskInv
<1> QED BY <1>1, <1>2, NothingFacts, AtTheDesk


\* What becomes public, or of what is: nothing was said of it yet.
LEMMA InPublic ==
  ASSUME AuditInv, github' \in [Version -> ReleaseFiles], market' \in [Version -> Plugin],
         identity' \in Certificate \cup {None}, secret' \in Certificate, desk' \in Desk,
         stage' \in {"idle", "create", "upload", "publish"}, mishaps' \in Nat,
         published' \in [Version -> ReleaseManifest], audit' = "none", DeskInv', PublicInv'
  PROVE  AuditInv'
BY DEF AuditInv, AuditTypeOK, AuditSaid

LEMMA UploadKeeps == ASSUME AuditInv, Upload PROVE AuditInv'
<1>1. /\ stage = "upload" /\ stage' = "publish" /\ audit' = "none"
      /\ market[desk.version] = NoPlugin
      /\ market' = [market EXCEPT ![desk.version] = desk.files.zip]
      /\ UNCHANGED <<day, identity, secret, desk, github, mishaps, published>>
  BY DEF Upload, Step, Quiet
<1>2. AuditTypeOK /\ desk.files.zip \in Plugin /\ desk.version \in Version
  BY <1>1 DEF AuditInv, AuditTypeOK, DeskInv, Desk, ReleaseFiles
<1>3. market' \in [Version -> Plugin] /\ market'[desk.version] = desk.files.zip
      /\ \A v \in Version \ {desk.version} : market'[v] = market[v]
  BY <1>1, <1>2 DEF AuditTypeOK
<1>4. DeskInv'
  BY <1>1 DEF AuditInv, DeskInv
<1>5. mishaps = 0 => github[desk.version] = Nothing
  <2> SUFFICES ASSUME mishaps = 0, github[desk.version] # Nothing PROVE FALSE
    OBVIOUS
  <2>1. /\ Vouched(github[desk.version].manifest)
        /\ Whole(desk.version, github[desk.version])
        /\ Fits(market[desk.version], github[desk.version])
    BY <1>2 DEF AuditInv, PublicInv
  <2>2. market[desk.version].author # None
    BY <2>1 DEF Vouched, Whole, Fits
  <2> QED BY <1>1, <2>2 DEF NoPlugin, Unsigned
<1>6. PublicInv'
  BY <1>1, <1>2, <1>3, <1>5 DEF AuditInv, PublicInv, Fits
<1> QED BY <1>1, <1>2, <1>3, <1>4, <1>6, InPublic DEF AuditTypeOK

LEMMA PublishKeeps == ASSUME AuditInv, Publish PROVE AuditInv'
<1>1. /\ stage = "publish" /\ stage' = "idle" /\ audit' = "none" /\ desk' = NoDesk
      /\ github' = [github EXCEPT ![desk.version] = desk.files]
      /\ published' = [published EXCEPT ![desk.version] = desk.files.manifest]
      /\ UNCHANGED <<day, identity, secret, market, mishaps>>
  BY DEF Publish, Step, Quiet
<1>2. /\ AuditTypeOK /\ desk.files \in ReleaseFiles /\ desk.version \in Version
      /\ Vouched(desk.files.manifest) /\ Whole(desk.version, desk.files)
  BY <1>1 DEF AuditInv, AuditTypeOK, DeskInv, Desk
<1>3. github' \in [Version -> ReleaseFiles] /\ github'[desk.version] = desk.files
      /\ \A v \in Version \ {desk.version} : github'[v] = github[v]
  BY <1>1, <1>2 DEF AuditTypeOK
<1>4. DeskInv'
  BY <1>1 DEF DeskInv
<1>5. published' \in [Version -> ReleaseManifest]
      /\ published'[desk.version] = desk.files.manifest
      /\ \A v \in Version \ {desk.version} : published'[v] = published[v]
  BY <1>1, <1>2 DEF AuditTypeOK, ReleaseFiles
<1>6. PublicInv'
  BY <1>1, <1>2, <1>3, <1>5 DEF AuditInv, PublicInv
<1> QED BY <1>1, <1>2, <1>3, <1>4, <1>5, <1>6, InPublic, NothingFacts DEF AuditTypeOK

LEMMA CountersignKeeps ==
  ASSUME AuditInv, NEW v \in Version, Countersign(v) PROVE AuditInv'
<1>1. /\ market' = [market EXCEPT ![v].jetbrains = TRUE] /\ audit' = "none"
      /\ UNCHANGED <<day, identity, secret, desk, stage, github, mishaps, published>>
  BY DEF Countersign, Quiet
<1>2. AuditTypeOK /\ market[v] \in Plugin
  BY DEF AuditInv, AuditTypeOK
<1> DEFINE signed == [market[v] EXCEPT !.jetbrains = TRUE]
<1>3. signed \in Plugin /\ signed.build = market[v].build /\ signed.author = market[v].author
  BY <1>2 DEF Plugin
<1>4. market' = [market EXCEPT ![v] = signed]
  BY <1>1
<1> HIDE DEF signed
<1>5. market' \in [Version -> Plugin]
  BY <1>2, <1>3, <1>4 DEF AuditTypeOK
<1>6. \A w \in Version : market'[w].build = market[w].build /\ market'[w].author = market[w].author
  BY <1>2, <1>3, <1>4 DEF AuditTypeOK
<1>7. DeskInv'
  BY <1>1 DEF AuditInv, DeskInv
<1>8. PublicInv'
  <2>1. stage = "publish" => desk.version \in Version
    BY DEF AuditInv, DeskInv
  <2> QED BY <1>1, <1>6, <2>1 DEF AuditInv, PublicInv, Fits
<1> QED BY <1>1, <1>2, <1>5, <1>7, <1>8, InPublic DEF AuditTypeOK

LEMMA MishapKeeps ==
  ASSUME AuditInv, NEW v \in Version, Mishap(v) PROVE AuditInv'
<1>1. /\ mishaps' = mishaps + 1 /\ audit' = "none"
      /\ UNCHANGED <<day, identity, secret, desk, stage, published>>
  BY DEF Mishap, Quiet
<1>2. AuditTypeOK /\ github[v] \in ReleaseFiles /\ mishaps' \in Nat /\ mishaps' # 0
  BY <1>1 DEF AuditInv, AuditTypeOK
<1>3. DeskInv'
  BY <1>1 DEF AuditInv, DeskInv
<1>4. ASSUME NEW z \in StrayZip, market' = [market EXCEPT ![v] = z], UNCHANGED github
      PROVE  AuditInv'
  <2>1. market' \in [Version -> Plugin]
    BY <1>2, <1>4, AuditAssumption DEF AuditTypeOK
  <2>2. PublicInv'
    BY <1>1, <1>2, <1>4 DEF AuditInv, PublicInv
  <2> QED BY <1>1, <1>2, <1>3, <1>4, <2>1, <2>2, InPublic DEF AuditTypeOK
<1>5. ASSUME NEW files \in ReleaseFiles, github' = [github EXCEPT ![v] = files],
             github[v] # Nothing, UNCHANGED market
      PROVE  AuditInv'
  <2>1. github' \in [Version -> ReleaseFiles]
    BY <1>2, <1>5 DEF AuditTypeOK
  <2>2. \A w \in Version : github'[w] # Nothing => github[w] # Nothing
    BY <1>2, <1>5 DEF AuditTypeOK
  <2>3. PublicInv'
    BY <1>1, <1>2, <2>2 DEF AuditInv, PublicInv
  <2> QED BY <1>1, <1>2, <1>3, <1>5, <2>1, <2>3, InPublic DEF AuditTypeOK
<1>6. ASSUME NEW z \in StrayZip, github' = [github EXCEPT ![v].zip = z], github[v] # Nothing,
             UNCHANGED market
      PROVE  AuditInv'
  <2>1. [github[v] EXCEPT !.zip = z] \in ReleaseFiles
    BY <1>2, AuditAssumption DEF ReleaseFiles
  <2> QED BY <1>5, <1>6, <2>1
<1>7. ASSUME NEW b \in Build, github' = [github EXCEPT ![v].sbom = b], github[v] # Nothing,
             UNCHANGED market
      PROVE  AuditInv'
  <2>1. [github[v] EXCEPT !.sbom = b] \in ReleaseFiles
    BY <1>2 DEF ReleaseFiles
  <2> QED BY <1>5, <1>7, <2>1
<1>8. ASSUME NEW c \in Certificate, github' = [github EXCEPT ![v].certificate = c],
             github[v] # Nothing, UNCHANGED market
      PROVE  AuditInv'
  <2>1. [github[v] EXCEPT !.certificate = c] \in ReleaseFiles
    BY <1>2 DEF ReleaseFiles
  <2> QED BY <1>5, <1>8, <2>1
<1>9. ASSUME NEW m \in StrayManifest, github' = [github EXCEPT ![v].manifest = m],
             github[v] # Nothing, UNCHANGED market
      PROVE  AuditInv'
  <2>1. [github[v] EXCEPT !.manifest = m] \in ReleaseFiles
    BY <1>2, AuditAssumption DEF ReleaseFiles
  <2> QED BY <1>5, <1>9, <2>1
<1> QED BY <1>4, <1>6, <1>7, <1>8, <1>9 DEF Mishap

LEMMA NextAuditInv == AuditInv /\ [AuditNext]_auditVars => AuditInv'
<1> SUFFICES ASSUME AuditInv, [AuditNext]_auditVars PROVE AuditInv'
  OBVIOUS
<1>1. CASE Tomorrow
  <2>1. audit' = "none" /\ UNCHANGED <<identity, secret, desk, stage, github, market, mishaps, published>>
    BY <1>1 DEF Tomorrow, Quiet
  <2> QED BY <2>1 DEF AuditInv, AuditTypeOK, DeskInv, PublicInv, AuditSaid
<1>2. CASE Rotate
  <2>1. audit' = "none" /\ UNCHANGED <<day, desk, stage, github, market, mishaps, published>>
        /\ secret' \in Certificate /\ identity' \in Certificate \cup {None}
    BY <1>2 DEF Rotate, Quiet, AuditInv, AuditTypeOK
  <2> QED BY <2>1 DEF AuditInv, AuditTypeOK, DeskInv, PublicInv, AuditSaid
<1>3. CASE Create
  BY <1>3, CreateKeeps
<1>4. CASE Upload
  BY <1>4, UploadKeeps
<1>5. CASE Publish
  BY <1>5, PublishKeeps
<1>6. CASE GiveUp
  BY <1>6, GiveUpKeeps
<1>7. CASE Audit
  <2>1. /\ Released # {} /\ audit' = (IF AuditFinds THEN "fine" ELSE "failed")
        /\ UNCHANGED <<day, identity, secret, desk, stage, github, market, mishaps, published>>
    BY <1>7 DEF Audit
  <2>2. Released' = Released /\ AuditFinds' = AuditFinds
    BY <2>1 DEF Released, AuditFinds, LatestReleased, Verifies, CertificateFits
  <2>3. AuditTypeOK' /\ DeskInv' /\ PublicInv'
    BY <2>1 DEF AuditInv, AuditTypeOK, DeskInv, PublicInv
  <2> QED BY <2>1, <2>2, <2>3 DEF AuditInv, AuditSaid
<1>8. ASSUME NEW v \in Version, Sign(v) PROVE AuditInv'
  BY <1>8, SignKeeps
<1>9. ASSUME NEW v \in Version, Countersign(v) PROVE AuditInv'
  BY <1>9, CountersignKeeps
<1>10. ASSUME NEW v \in Version, Mishap(v) PROVE AuditInv'
  BY <1>10, MishapKeeps
<1>11. CASE UNCHANGED auditVars
  <2>1. UNCHANGED <<day, identity, secret, desk, stage, github, market, audit, mishaps, published>>
    BY <1>11 DEF auditVars
  <2>2. Released' = Released /\ AuditFinds' = AuditFinds
    BY <2>1 DEF Released, AuditFinds, LatestReleased, Verifies, CertificateFits
  <2> QED BY <2>1, <2>2 DEF AuditInv, AuditTypeOK, DeskInv, PublicInv, AuditSaid
<1> QED BY <1>1, <1>2, <1>3, <1>4, <1>5, <1>6, <1>7, <1>8, <1>9, <1>10, <1>11 DEF AuditNext

LEMMA AuditInvariant == AuditSpec => []AuditInv
BY InitAuditInv, NextAuditInv, PTL DEF AuditSpec


\* The audit looks at the one release that is the latest.
LEMMA LatestFacts ==
  /\ Released # {} => /\ LatestReleased \in Released
                      /\ \A w \in Released : w <= LatestReleased
  /\ \A v \in Released : (\A w \in Released : w <= v) => LatestReleased = v
<1>1. Released \in SUBSET Version /\ Released \subseteq Nat /\ IsFiniteSet(Released)
  BY AuditAssumption, FS_Subset DEF Released
<1>2. Released # {} => \E v \in Released : \A w \in Released : w <= v
  BY <1>1, Greatest
<1>3. \A v \in Released, w \in Released : v <= w /\ w <= v => v = w
  BY <1>1
<1> QED BY <1>2, <1>3 DEF LatestReleased

\* verify-release.py: what a fine audit binds, for any versions, builds, certificates and days,
\* and whichever of the four assets and of the Marketplace's ZIPs were replaced by whatever.
THEOREM AuditAlwaysBinds == AuditSpec => []AuditBindsPublic
<1>1. AuditInv => AuditBindsPublic
  <2> SUFFICES ASSUME AuditInv, audit = "fine" PROVE AuditBindsPublic
    BY DEF AuditBindsPublic
  <2> DEFINE v == LatestReleased
  <2>1. Released # {} /\ AuditFinds
    BY DEF AuditInv, AuditSaid
  <2>2. v \in Released /\ (\A w \in Released : w <= v)
    BY <2>1, LatestFacts
  <2>3. v \in Version /\ github[v] # Nothing /\ github[v] \in ReleaseFiles /\ market[v] \in Plugin
    BY <2>2 DEF Released, AuditInv, AuditTypeOK
  <2>4. Verifies(v, github[v], market[v], TRUE)
    BY <2>1 DEF AuditFinds
  <2> HIDE DEF v
  <2>5. /\ CertificateFits(github[v].certificate) /\ github[v].zip = github[v].manifest.zip
        /\ market[v] # github[v].zip /\ github[v].sbom = github[v].manifest.sbom
        /\ github[v].zip.author = github[v].certificate
        /\ market[v].author = github[v].certificate
        /\ github[v].zip.build = market[v].build
    BY <2>4 DEF Verifies, VerifiesWith, SameEntries
  <2>6. /\ market[v].author = identity /\ github[v].zip.author = identity
        /\ day <= ExpiresAt[identity]
    BY <2>5 DEF CertificateFits
  <2>7. ASSUME github[v].manifest = published[v]
        PROVE  /\ Unsigned(market[v].build) = published[v].unsigned
               /\ github[v].sbom = market[v].build
               /\ market[v].jetbrains
    <3>1. Vouched(published[v])
      BY <2>3 DEF AuditInv, PublicInv
    <3>2. github[v].sbom = market[v].build /\ Unsigned(market[v].build) = published[v].unsigned
      BY <2>5, <2>7, <3>1 DEF Vouched
    <3>3. github[v].zip \in Plugin /\ ~github[v].zip.jetbrains
      BY <2>3, <2>5, <2>7, <3>1 DEF Vouched, ReleaseFiles
    <3>4. ASSUME ~market[v].jetbrains PROVE FALSE
      <4>1. market[v].jetbrains = github[v].zip.jetbrains
        BY <2>3, <3>3, <3>4 DEF Plugin
      <4>2. market[v] = github[v].zip
        BY <2>3, <2>5, <3>3, <4>1 DEF Plugin
      <4> QED BY <2>5, <4>2
    <3> QED BY <3>2, <3>4
  <2> QED BY <2>2, <2>5, <2>6, <2>7 DEF AuditBindsPublic
<1> QED BY <1>1, AuditInvariant, PTL

\* release-verification.yml: what was published as the workflow publishes it, countersigned, and
\* signed with a certificate that is still good, never fails an audit.
THEOREM HealthyAlwaysFine == AuditSpec => []HealthyIsFine
<1>1. AuditInv => HealthyIsFine
  <2> SUFFICES ASSUME AuditInv, NEW v \in Released, \A w \in Released : w <= v,
                      mishaps = 0, market[v].jetbrains, github[v].zip.author = identity,
                      day <= ExpiresAt[identity]
               PROVE  audit # "failed"
    BY DEF HealthyIsFine
  <2>1. v = LatestReleased
    BY LatestFacts
  <2>2. /\ v \in Version /\ Vouched(github[v].manifest) /\ Whole(v, github[v])
        /\ Fits(market[v], github[v])
    BY DEF Released, AuditInv, PublicInv
  <2>3. github[v].zip.author # None /\ ~github[v].zip.jetbrains
    BY <2>2 DEF Vouched, Whole
  <2>4. CertificateFits(github[v].certificate)
    BY <2>2, <2>3 DEF CertificateFits, Whole
  <2>5. market[v] # github[v].zip
    BY <2>3
  <2>6. Verifies(v, github[v], market[v], TRUE)
    BY <2>2, <2>4, <2>5 DEF Verifies, Whole, Fits, VerifiesWith, SameEntries
  <2>7. AuditFinds
    BY <2>1, <2>6 DEF AuditFinds
  <2> QED BY <2>7 DEF AuditInv, AuditSaid
<1> QED BY <1>1, AuditInvariant, PTL


-----------------------------------------------------------------------------
(* The gate of CI.                                                         *)

\* What a green gate of run d, the r-th, means when c has succeeded.
Green(r, d, c) ==
  \/ r # Dispatched /\ d.scope = "docs"
  \/ \A j \in Required : <<j, d.sha>> \in c

\* What a run reports is so: a job that succeeded did, artifacts that are there were built,
\* what was dispatched is code, and the gate is green for a reason.
Sound(r, d, c) ==
  /\ \A j \in Job : d.result[j] = "success" => <<j, d.sha>> \in c
  /\ d.uploaded \/ d.result["rider_windows"] = "success" => <<"windows_build", d.sha>> \in c
  /\ d.scope = "fork" => source = "fork"
  /\ d.scope = "docs" => r # Dispatched
  /\ d.gate = "success" => Green(r, d, c)
  /\ d.changes = "pending" => d.gate = "pending"

GateInv == TypeOK /\ \A r \in Run : Sound(r, run[r], checked)

LEMMA CiBounds ==
  /\ MaxCommits \in Nat \ {0} /\ MaxReruns \in Nat
  /\ Commit = 1 .. MaxCommits /\ Dispatched = 0
  /\ Commit \subseteq Run /\ Dispatched \in Run /\ Dispatched \notin Commit
BY BoundAssumption DEF Commit, Run, Dispatched

LEMMA Jobs ==
  /\ "rider_windows" \in Judged /\ "windows_build" \in Job
  /\ Judged \subseteq Job /\ Job \ Judged = {"windows_build"}
BY DEF Job, Judged, Special

\* A new run, or one that starts again, has nothing to show but the artifacts it keeps.
LEMMA NewRunFacts ==
  ASSUME NEW sha, NEW base
  PROVE  /\ ~NewRun(sha, base).uploaded
         /\ NewRun(sha, base).scope = ""
         /\ NewRun(sha, base).gate = "pending"
         /\ \A j \in Job : NewRun(sha, base).result[j] = "pending"
BY DEF NewRun

LEMMA NewRunTyped ==
  ASSUME NEW sha \in 0 .. MaxCommits, NEW base \in 0 .. MaxCommits
  PROVE  NewRun(sha, base) \in RunRecord /\ NewRun(sha, base).sha = sha
BY DEF NewRun, RunRecord

LEMMA NewRunSound ==
  ASSUME NEW sha \in 0 .. MaxCommits, NEW base \in 0 .. MaxCommits, NEW r, NEW c
  PROVE  Sound(r, NewRun(sha, base), c)
<1> DEFINE d == NewRun(sha, base)
<1>1. /\ ~d.uploaded /\ d.scope = "" /\ d.gate = "pending"
      /\ \A j \in Job : d.result[j] = "pending"
  BY NewRunFacts
<1>2. d.result["rider_windows"] = "pending"
  BY <1>1, Jobs
<1> HIDE DEF d
<1>3. Sound(r, d, c)
  BY <1>1, <1>2 DEF Sound
<1> QED BY <1>3 DEF d

LEMMA CiInitInv == Init => GateInv
<1> SUFFICES ASSUME Init PROVE GateInv
  OBVIOUS
<1>1. 0 \in 0 .. MaxCommits /\ head \in Commit /\ reruns \in 0 .. MaxReruns
  BY CiBounds DEF Init
<1>2. run = [r \in Run |-> NewRun(0, 0)] /\ checked = {}
  BY DEF Init
<1>3. run \in [Run -> RunRecord]
  BY <1>1, <1>2, NewRunTyped
<1>4. \A r \in Run : run[r].sha <= head
  <2> SUFFICES ASSUME NEW r \in Run PROVE run[r].sha <= head
    OBVIOUS
  <2>1. run[r].sha = 0
    BY <1>1, <1>2, NewRunTyped
  <2> QED BY <1>1, <2>1, CiBounds
<1>5. source \in Source /\ codeOf \in [Commit -> Code] /\ checked \subseteq Job \X Commit
  BY DEF Init
<1>6. TypeOK
  BY <1>1, <1>3, <1>4, <1>5 DEF TypeOK
<1>7. \A r \in Run : Sound(r, run[r], checked)
  BY <1>1, <1>2, NewRunSound
<1> QED BY <1>6, <1>7 DEF GateInv

\* Every action changes runs; the rest of the state it changes is told here.
LEMMA RunsMove ==
  ASSUME GateInv, UNCHANGED <<source, codeOf>>,
         head' \in Commit, head <= head', reruns' \in 0 .. MaxReruns,
         checked' \subseteq Job \X Commit,
         run' \in [Run -> RunRecord],
         \A r \in Run : run'[r].sha <= head' /\ Sound(r, run'[r], checked')
  PROVE  GateInv'
<1>1. TypeOK'
  BY DEF GateInv, TypeOK
<1>2. \A r \in Run : Sound(r, run[r], checked)'
  BY DEF Sound, Green, Required
<1> QED BY <1>1, <1>2 DEF GateInv

\* What has succeeded stays so.
LEMMA SoundLater ==
  ASSUME NEW r, NEW d, NEW c, NEW later, c \subseteq later, Sound(r, d, c)
  PROVE  Sound(r, d, later)
BY DEF Sound, Green

\* One run moves on.
LEMMA RunMoves ==
  ASSUME GateInv, UNCHANGED <<source, codeOf, head, reruns>>,
         NEW r \in Run, NEW d \in RunRecord, d.sha <= head,
         run' = [run EXCEPT ![r] = d],
         checked \subseteq checked', checked' \subseteq Job \X Commit,
         Sound(r, d, checked')
  PROVE  GateInv'
<1>1. run \in [Run -> RunRecord] /\ head \in Commit /\ reruns \in 0 .. MaxReruns
  BY DEF GateInv, TypeOK
<1>2. run' \in [Run -> RunRecord] /\ \A s \in Run : run'[s] = IF s = r THEN d ELSE run[s]
  BY <1>1
<1>3. \A s \in Run : run[s].sha <= head /\ Sound(s, run[s], checked')
  BY SoundLater DEF GateInv, TypeOK
<1>4. \A s \in Run : run'[s].sha <= head' /\ Sound(s, run'[s], checked')
  BY <1>2, <1>3
<1>5. head <= head'
  BY <1>1, CiBounds
<1> QED BY <1>1, <1>2, <1>4, <1>5, RunsMove

\* A run that is cancelled loses nothing it had to show, and gets no job that succeeds.
LEMMA CancelledFacts ==
  ASSUME NEW d \in RunRecord, d.gate = "pending", NEW r, NEW c, Sound(r, d, c)
  PROVE  /\ Cancelled(d) \in RunRecord /\ Cancelled(d).sha = d.sha
         /\ Sound(r, Cancelled(d), c)
<1> DEFINE result == [j \in Job |-> IF d.result[j] = "pending" /\ j \notin Always
                                    THEN "failure" ELSE d.result[j]]
           changes == IF d.changes = "pending" THEN "failure" ELSE d.changes
           over == [d EXCEPT !.changes = changes, !.result = result]
<1>1. d.result \in [Job -> {"pending", "success", "failure", "skipped"}]
  BY DEF RunRecord
<1>2. /\ result \in [Job -> {"pending", "success", "failure", "skipped"}]
      /\ \A j \in Job : result[j] = "success" => d.result[j] = "success"
  BY <1>1
<1>3. changes \in {"pending", "success", "failure"}
  BY DEF RunRecord
<1>4. Cancelled(d) = over
  BY DEF Cancelled, RunRecord
<1> HIDE DEF result, changes
<1>5. /\ over \in RunRecord /\ over.sha = d.sha /\ over.result = result
      /\ over.uploaded = d.uploaded /\ over.scope = d.scope /\ over.gate = d.gate
      /\ over.base = d.base
  BY <1>2, <1>3 DEF RunRecord
<1> HIDE DEF over
<1>6. Sound(r, over, c)
  BY <1>2, <1>5, Jobs DEF Sound
<1> QED BY <1>4, <1>5, <1>6

LEMMA CiTyped ==
  ASSUME GateInv
  PROVE  /\ run \in [Run -> RunRecord] /\ head \in 1 .. MaxCommits
         /\ checked \subseteq Job \X Commit /\ reruns \in 0 .. MaxReruns
         /\ \A r \in Run : /\ run[r] \in RunRecord
                           /\ run[r].sha \in 0 .. MaxCommits /\ run[r].base \in 0 .. MaxCommits
                           /\ run[r].sha <= head /\ Sound(r, run[r], checked)
BY DEF GateInv, TypeOK, RunRecord, Commit

\* A run begins, and those that were going on are cancelled.
LEMMA RunBegins ==
  ASSUME GateInv, UNCHANGED <<source, codeOf, checked>>,
         head' \in Commit, head <= head', reruns' \in 0 .. MaxReruns,
         NEW r \in Run, NEW d \in RunRecord, d.sha <= head', Sound(r, d, checked),
         Superseded(r, d)
  PROVE  GateInv'
<1>1. /\ run \in [Run -> RunRecord] /\ head \in Commit /\ checked \subseteq Job \X Commit
      /\ \A s \in Run : run[s].sha <= head /\ Sound(s, run[s], checked)
  BY DEF GateInv, TypeOK
<1>2. \A s \in Run : run'[s] \in {d : x \in {s} \cap {r}} \cup {run[s]}
                                  \cup {Cancelled(run[s]) : x \in {y \in {s} : run[s].gate = "pending"}}
  BY DEF Superseded
<1>3. run' = [s \in Run |-> run'[s]]
  BY DEF Superseded
<1>4. ASSUME NEW s \in Run
      PROVE  run'[s] \in RunRecord /\ run'[s].sha <= head' /\ Sound(s, run'[s], checked')
  <2>1. run[s].sha <= head'
    BY CiTyped, CiBounds
  <2>2. CASE s = r /\ run'[s] = d
    BY <2>2
  <2>3. CASE run'[s] = run[s]
    BY <1>1, <2>1, <2>3
  <2>4. CASE run[s].gate = "pending" /\ run'[s] = Cancelled(run[s])
    BY <1>1, <2>1, <2>4, CancelledFacts
  <2> QED BY <1>2, <2>2, <2>3, <2>4
<1>5. run' \in [Run -> RunRecord]
  BY <1>3, <1>4
<1>6. checked' \subseteq Job \X Commit
  BY <1>1
<1> QED BY <1>4, <1>5, <1>6, RunsMove

LEMMA PushKeeps == GateInv /\ Push => GateInv'
<1> SUFFICES ASSUME GateInv, Push PROVE GateInv'
  OBVIOUS
<1> DEFINE base == IF source = "main" THEN head ELSE 1
           d == NewRun(head + 1, base)
<1>1. head < MaxCommits /\ head' = head + 1 /\ UNCHANGED <<source, codeOf, checked, reruns>>
  BY DEF Push
<1>2. head + 1 \in 0 .. MaxCommits /\ base \in 0 .. MaxCommits /\ head + 1 \in 1 .. MaxCommits
  BY <1>1, CiBounds, CiTyped
<1>3. head + 1 \in Run /\ head' \in Commit /\ head <= head' /\ head + 1 <= head'
  BY <1>1, <1>2, CiBounds, CiTyped
<1>4. Superseded(head + 1, d)
  BY DEF Push
<1> HIDE DEF base
<1>5. d \in RunRecord /\ d.sha = head + 1 /\ Sound(head + 1, d, checked)
  BY <1>2, NewRunTyped, NewRunSound
<1> HIDE DEF d
<1>6. reruns' \in 0 .. MaxReruns
  BY <1>1, CiTyped
<1> QED BY <1>1, <1>3, <1>4, <1>5, <1>6, RunBegins

LEMMA DispatchKeeps == GateInv /\ Dispatch => GateInv'
<1> SUFFICES ASSUME GateInv, Dispatch PROVE GateInv'
  OBVIOUS
<1> DEFINE d == NewRun(head, 0)
<1>1. UNCHANGED <<source, head, codeOf, checked, reruns>> /\ Superseded(Dispatched, d)
  BY DEF Dispatch
<1>2. head \in 0 .. MaxCommits /\ 0 \in 0 .. MaxCommits /\ head \in Commit /\ head <= head
  BY CiBounds, CiTyped
<1>3. d \in RunRecord /\ d.sha = head /\ Sound(Dispatched, d, checked)
  BY <1>2, NewRunTyped, NewRunSound
<1> HIDE DEF d
<1> QED BY <1>1, <1>2, <1>3, CiBounds, CiTyped, RunBegins

\* What is run again starts anew, with the artifacts of the former attempts.
LEMMA RestartedFacts ==
  ASSUME GateInv, NEW r \in Run
  PROVE  /\ Restarted(r) \in RunRecord /\ Restarted(r).sha = run[r].sha
         /\ Sound(r, Restarted(r), checked)
<1> DEFINE sha == run[r].sha
           base == run[r].base
           new == NewRun(sha, base)
           d == [new EXCEPT !.uploaded = run[r].uploaded]
<1>0. sha \in 0 .. MaxCommits /\ base \in 0 .. MaxCommits
  BY CiTyped
<1> HIDE DEF sha, base
<1>1. /\ new \in RunRecord /\ new.sha = sha
  BY <1>0, NewRunTyped
<1> /\ new.scope = "" /\ new.gate = "pending"
    /\ \A j \in Job : new.result[j] = "pending"
  BY NewRunFacts
<1>2. run[r].uploaded \in BOOLEAN /\ Sound(r, run[r], checked)
  BY CiTyped DEF RunRecord
<1> HIDE DEF new
<1>3. /\ d \in RunRecord /\ d.sha = sha /\ d.uploaded = run[r].uploaded
      /\ d.scope = "" /\ d.gate = "pending" /\ d.result = new.result
  BY <1>1, <1>2 DEF RunRecord
<1>4. Restarted(r) = d
  BY DEF Restarted, new, sha, base
<1> HIDE DEF d
<1>5. d.result["rider_windows"] = "pending"
  BY <1>1, <1>3, Jobs
<1>6. Sound(r, d, checked)
  BY <1>1, <1>2, <1>3, <1>5 DEF Sound, sha
<1> QED BY <1>3, <1>4, <1>6 DEF sha

LEMMA RerunCounted ==
  ASSUME GateInv, reruns < MaxReruns, reruns' = reruns + 1
  PROVE  reruns' \in 0 .. MaxReruns /\ head \in Commit /\ head <= head
BY CiBounds, CiTyped

LEMMA RerunAllKeeps == ASSUME GateInv, NEW r \in Run, RerunAll(r) PROVE GateInv'
<1>1. /\ UNCHANGED <<source, head, codeOf, checked>> /\ Superseded(r, Restarted(r))
      /\ reruns < MaxReruns /\ reruns' = reruns + 1
  BY DEF RerunAll
<1>2. Restarted(r).sha <= head
  BY CiTyped, RestartedFacts
<1> QED BY <1>1, <1>2, RerunCounted, RestartedFacts, RunBegins

\* Jobs that did not fail keep their result, and that is true of the commit already.
LEMMA RerunFailedKeeps == ASSUME GateInv, NEW r \in Run, RerunFailed(r) PROVE GateInv'
<1> DEFINE result == [j \in Job |-> IF Again(r, j) THEN "pending" ELSE run[r].result[j]]
           d == [run[r] EXCEPT !.gate = "pending", !.result = result]
<1>1. /\ UNCHANGED <<source, head, codeOf, checked>> /\ reruns < MaxReruns /\ reruns' = reruns + 1
  BY DEF RerunFailed
<1>2. CASE run[r].changes = "failure"
  <2>1. Superseded(r, Restarted(r)) /\ Restarted(r).sha <= head
    BY <1>2, CiTyped, RestartedFacts DEF RerunFailed
  <2> QED BY <1>1, <2>1, RerunCounted, RestartedFacts, RunBegins
<1>3. CASE run[r].changes # "failure"
  <2>1. Superseded(r, d)
    BY <1>3, CiTyped DEF RerunFailed, RunRecord
  <2>2. run[r].result \in [Job -> {"pending", "success", "failure", "skipped"}]
    BY CiTyped DEF RunRecord
  <2>3. /\ result \in [Job -> {"pending", "success", "failure", "skipped"}]
        /\ \A j \in Job : result[j] = "success" => run[r].result[j] = "success"
    BY <2>2
  <2> HIDE DEF result
  <2>4. /\ d \in RunRecord /\ d.sha = run[r].sha /\ d.base = run[r].base
        /\ d.uploaded = run[r].uploaded /\ d.scope = run[r].scope
        /\ d.gate = "pending" /\ d.result = result
    <3>1. run[r] \in RunRecord
      BY CiTyped
    <3>2. d \in RunRecord
      BY <2>3, <3>1 DEF RunRecord
    <3> QED BY <3>1, <3>2 DEF RunRecord
  <2> HIDE DEF d
  <2>5. Sound(r, d, checked)
    BY <2>3, <2>4, CiTyped, Jobs DEF Sound
  <2>6. d.sha <= head
    BY <2>4, CiTyped
  <2> QED BY <1>1, <2>1, <2>4, <2>5, <2>6, RerunCounted, RunBegins
<1> QED BY <1>2, <1>3

\* The classification is the one thing that says what the change is.
LEMMA ClassifyKeeps == ASSUME GateInv, NEW r \in Run, Classify(r) PROVE GateInv'
<1>1. PICK seen \in BOOLEAN :
        /\ r # Dispatched => SeesCode(r, seen)
        /\ run' = [run EXCEPT ![r].changes = "success", ![r].scope = Scope(r, seen)]
  BY DEF Classify
<1> DEFINE scope == Scope(r, seen)
           d == [run[r] EXCEPT !.changes = "success", !.scope = scope]
<1>2. /\ UNCHANGED <<source, head, codeOf, checked, reruns>>
      /\ run[r].sha # 0
  BY DEF Classify, Exists
<1>6. run[r].changes = "pending" /\ run[r].gate = "pending"
  BY CiTyped DEF Classify, Sound
<1>3. run' = [run EXCEPT ![r] = d]
  BY <1>1, CiTyped
<1>4. scope \in {"code", "docs", "fork"} /\ (scope = "fork" => source = "fork")
  BY DEF Scope
<1>5. scope = "docs" => r # Dispatched /\ ~seen
  BY DEF Scope
<1> HIDE DEF scope
<1>7. /\ d \in RunRecord /\ d.sha = run[r].sha /\ d.base = run[r].base
      /\ d.uploaded = run[r].uploaded /\ d.scope = scope
      /\ d.gate = run[r].gate /\ d.result = run[r].result /\ d.changes = "success"
  <2>1. run[r] \in RunRecord
    BY CiTyped
  <2>2. d \in RunRecord
    BY <1>4, <2>1 DEF RunRecord
  <2> QED BY <2>1, <2>2 DEF RunRecord
<1> HIDE DEF d
<1>8. Sound(r, run[r], checked)
  BY CiTyped
<1>9. Sound(r, d, checked)
  BY <1>4, <1>5, <1>6, <1>7, <1>8 DEF Sound
<1> QED BY <1>2, <1>3, <1>7, <1>9, CiTyped, RunMoves

LEMMA FailChangesKeeps == ASSUME GateInv, NEW r \in Run, FailChanges(r) PROVE GateInv'
<1> DEFINE d == [run[r] EXCEPT !.changes = "failure"]
<1>1. UNCHANGED <<source, head, codeOf, checked, reruns>> /\ run' = [run EXCEPT ![r] = d]
  BY CiTyped DEF FailChanges
<1>2. /\ d \in RunRecord /\ d.sha = run[r].sha /\ d.base = run[r].base
      /\ d.uploaded = run[r].uploaded /\ d.scope = run[r].scope
      /\ d.gate = run[r].gate /\ d.result = run[r].result /\ d.changes = "failure"
  BY CiTyped DEF RunRecord
<1> HIDE DEF d
<1>3. Sound(r, d, checked)
  BY <1>2, CiTyped DEF Sound, Green
<1> QED BY <1>1, <1>2, <1>3, CiTyped, RunMoves

\* A job ends, without success unless that is among what succeeded.
LEMMA JobEnds ==
  ASSUME GateInv, NEW r \in Run, NEW j \in Job, UNCHANGED <<source, head, codeOf, reruns>>,
         NEW result \in {"success", "failure", "skipped"}, NEW uploaded \in BOOLEAN,
         run' = [run EXCEPT ![r].result[j] = result, ![r].uploaded = uploaded],
         checked \subseteq checked', checked' \subseteq Job \X Commit,
         result = "success" => <<j, run[r].sha>> \in checked',
         uploaded \/ (j = "rider_windows" /\ result = "success")
           => <<"windows_build", run[r].sha>> \in checked'
  PROVE  GateInv'
<1> DEFINE results == [run[r].result EXCEPT ![j] = result]
           d == [run[r] EXCEPT !.result = results, !.uploaded = uploaded]
<1>1. run[r].result \in [Job -> {"pending", "success", "failure", "skipped"}]
  BY CiTyped DEF RunRecord
<1>2. /\ results \in [Job -> {"pending", "success", "failure", "skipped"}]
      /\ \A k \in Job : results[k] = IF k = j THEN result ELSE run[r].result[k]
  BY <1>1
<1>3. run' = [run EXCEPT ![r] = d]
  BY CiTyped
<1> HIDE DEF results
<1>4. /\ d \in RunRecord /\ d.sha = run[r].sha /\ d.base = run[r].base
      /\ d.uploaded = uploaded /\ d.scope = run[r].scope
      /\ d.gate = run[r].gate /\ d.result = results /\ d.changes = run[r].changes
  <2>1. run[r] \in RunRecord
    BY CiTyped
  <2>2. d \in RunRecord
    BY <1>2, <2>1 DEF RunRecord
  <2>3. /\ d.sha = run[r].sha /\ d.base = run[r].base /\ d.scope = run[r].scope
        /\ d.gate = run[r].gate /\ d.result = results /\ d.changes = run[r].changes
    BY <2>1 DEF RunRecord
  <2>4. d.uploaded = uploaded
    BY <2>1 DEF RunRecord
  <2> QED BY <2>2, <2>3, <2>4
<1> HIDE DEF d
<1>5. Sound(r, run[r], checked')
  BY CiTyped, SoundLater
<1>6. \A k \in Job : d.result[k] = "success" => <<k, d.sha>> \in checked'
  BY <1>2, <1>4, <1>5 DEF Sound
<1>7. d.uploaded \/ d.result["rider_windows"] = "success" => <<"windows_build", d.sha>> \in checked'
  BY <1>2, <1>4, <1>5, Jobs DEF Sound
<1>8. Sound(r, d, checked')
  BY <1>4, <1>5, <1>6, <1>7 DEF Sound, Green
<1> QED BY <1>3, <1>4, <1>8, CiTyped, RunMoves

LEMMA JobRunTyped ==
  ASSUME GateInv, NEW r \in Run, NEW j \in Job, Exists(r)
  PROVE  /\ run[r].sha \in Commit /\ <<j, run[r].sha>> \in Job \X Commit
         /\ run[r].uploaded \in BOOLEAN
         /\ run[r].uploaded => <<"windows_build", run[r].sha>> \in checked
<1>1. run[r].sha \in Commit
  BY CiTyped, CiBounds DEF Exists
<1>2. run[r].uploaded \in BOOLEAN
  BY CiTyped DEF RunRecord
<1>3. Sound(r, run[r], checked)
  BY CiTyped
<1> QED BY <1>1, <1>2, <1>3 DEF Sound

LEMMA SkipKeeps == ASSUME GateInv, NEW r \in Run, NEW j \in Job, Skip(r, j) PROVE GateInv'
<1>1. UNCHANGED <<source, head, codeOf, checked, reruns>> /\ Exists(r)
  BY DEF Skip
<1>2. run' = [run EXCEPT ![r].result[j] = "skipped", ![r].uploaded = run[r].uploaded]
  <2> DEFINE d == run[r]
  <2>1. d \in RunRecord
    BY CiTyped
  <2>2. run' = [run EXCEPT ![r].result[j] = "skipped"]
    BY DEF Skip
  <2> HIDE DEF d
  <2>3. [d EXCEPT !.result[j] = "skipped"]
          = [d EXCEPT !.result[j] = "skipped", !.uploaded = d.uploaded]
    BY <2>1 DEF RunRecord
  <2> QED BY <2>2, <2>3 DEF d
<1> QED BY <1>1, <1>2, JobRunTyped, JobEnds, CiTyped

\* The Windows builds are compared once their artifacts are there.
LEMMA PassKeeps == ASSUME GateInv, NEW r \in Run, NEW j \in Job, Pass(r, j) PROVE GateInv'
<1> DEFINE uploaded == run[r].uploaded \/ j = "windows_build"
<1>1. /\ UNCHANGED <<source, head, codeOf, reruns>> /\ Exists(r)
      /\ checked' = checked \cup {<<j, run[r].sha>>}
      /\ j = "rider_windows" => run[r].uploaded
  BY DEF Pass, MaySucceed
<1>2. run' = [run EXCEPT ![r].result[j] = "success", ![r].uploaded = uploaded]
  BY DEF Pass
<1>3. checked' \subseteq Job \X Commit /\ checked \subseteq checked'
  BY <1>1, JobRunTyped, CiTyped
<1>4. uploaded \in BOOLEAN
  OBVIOUS
<1>5. uploaded \/ j = "rider_windows" => <<"windows_build", run[r].sha>> \in checked'
  BY <1>1, JobRunTyped
<1> HIDE DEF uploaded
<1> QED BY <1>1, <1>2, <1>3, <1>4, <1>5, JobEnds

LEMMA FailKeeps == ASSUME GateInv, NEW r \in Run, NEW j \in Job, Fail(r, j) PROVE GateInv'
<1>1. PICK late \in BOOLEAN :
        /\ late => j = "windows_build"
        /\ run' = [run EXCEPT ![r].result[j] = "failure", ![r].uploaded = @ \/ late]
        /\ checked' = IF late THEN checked \cup {<<j, run[r].sha>>} ELSE checked
  BY DEF Fail
<1> DEFINE uploaded == run[r].uploaded \/ late
<1>2. UNCHANGED <<source, head, codeOf, reruns>> /\ Exists(r)
  BY DEF Fail
<1>3. run' = [run EXCEPT ![r].result[j] = "failure", ![r].uploaded = uploaded]
  BY <1>1
<1>4. checked' \subseteq Job \X Commit /\ checked \subseteq checked'
  BY <1>1, <1>2, JobRunTyped, CiTyped
<1>5. uploaded \in BOOLEAN
  OBVIOUS
<1>6. uploaded => <<"windows_build", run[r].sha>> \in checked'
  BY <1>1, <1>2, JobRunTyped
<1> HIDE DEF uploaded
<1> QED BY <1>2, <1>3, <1>4, <1>5, <1>6, JobEnds

\* The gate judges what the jobs report: a job whose skip the class of the change allows is
\* not required for it, and the comparison stands for the builds it compares.
LEMMA AcceptableIsGreen ==
  ASSUME NEW r, NEW d \in RunRecord, NEW c, Sound(r, d, c), Acceptable(d)
  PROVE  Green(r, d, c)
<1>1. CASE d.scope = "docs"
  BY <1>1 DEF Sound, Green
<1>2. CASE d.scope = "code"
  <2>1. \A j \in Judged : d.result[j] = "success"
    BY <1>2 DEF Acceptable, AllowedSkips
  <2>2. \A j \in Job : <<j, d.sha>> \in c
    BY <2>1, Jobs DEF Sound
  <2> QED BY <2>2 DEF Green, Required
<1>3. CASE d.scope = "fork"
  <2>1. \A j \in Judged \ {"qodana_jvm"} : d.result[j] = "success"
    BY <1>3 DEF Acceptable, AllowedSkips
  <2>2. "rider_windows" \in Judged \ {"qodana_jvm"}
    BY Jobs
  <2>3. \A j \in Job \ {"qodana_jvm"} : <<j, d.sha>> \in c
    BY <2>1, <2>2, Jobs DEF Sound
  <2>4. source = "fork"
    BY <1>3 DEF Sound
  <2> QED BY <2>3, <2>4 DEF Green, Required
<1> QED BY <1>1, <1>2, <1>3 DEF Acceptable

LEMMA GateKeeps == ASSUME GateInv, NEW r \in Run, Gate(r) PROVE GateInv'
<1>1. PICK said \in {"failure"} \cup {v \in {"success"} : Acceptable(run[r])} :
        run' = [run EXCEPT ![r].gate = said]
  BY DEF Gate
<1> DEFINE d == [run[r] EXCEPT !.gate = said]
<1>2. UNCHANGED <<source, head, codeOf, checked, reruns>> /\ run[r].changes # "pending"
  BY DEF Gate, GateRuns
<1>3. run' = [run EXCEPT ![r] = d]
  BY <1>1, CiTyped
<1>4. /\ d \in RunRecord /\ d.sha = run[r].sha /\ d.base = run[r].base
      /\ d.uploaded = run[r].uploaded /\ d.scope = run[r].scope
      /\ d.gate = said /\ d.result = run[r].result /\ d.changes = run[r].changes
  BY CiTyped DEF RunRecord
<1> HIDE DEF d
<1>5. said = "success" => Green(r, run[r], checked)
  BY CiTyped, AcceptableIsGreen
<1>6. Sound(r, d, checked)
  BY <1>2, <1>4, <1>5, CiTyped DEF Sound, Green
<1> QED BY <1>2, <1>3, <1>4, <1>6, CiTyped, RunMoves

\* Runs, results and the gate stay of their types, and a run's reports stay true.
THEOREM GateTypeCorrect == Spec => []GateInv
<1>1. GateInv /\ UNCHANGED vars => GateInv'
  BY DEF vars, GateInv, TypeOK, Sound, Green, Required
<1>2. GateInv /\ Next => GateInv'
  BY PushKeeps, DispatchKeeps, RerunAllKeeps, RerunFailedKeeps, ClassifyKeeps, FailChangesKeeps,
     GateKeeps, SkipKeeps, PassKeeps, FailKeeps
  DEF Next, JobStep
<1> QED BY <1>1, <1>2, CiInitInv, PTL DEF Spec

\* A green gate means that every required job succeeded on its commit, or that the change was
\* classified as documentation, whatever was cancelled, skipped and run again.
THEOREM GreenAlwaysPassed == Spec => []GreenMeansPassed
<1>1. GateInv => GreenMeansPassed
  BY DEF GateInv, Sound, Green, GreenMeansPassed
<1> QED BY <1>1, GateTypeCorrect, PTL

-----------------------------------------------------------------------------
(* Sums.  A sum over a finite set takes its terms one by one, and some     *)
(* function says what is added up so far: there is one, and what it says   *)
(* of a set does not depend on the larger set it was defined over, nor on  *)
(* the order of the terms.                                                 *)

\* Of the finite sets that are not good, one has only good subsets.
LEMMA SmallestBad ==
  ASSUME NEW S, IsFiniteSet(S), NEW Bad, Bad \subseteq SUBSET S, Bad # {}
  PROVE  \E T \in Bad : \A U \in Bad : ~(U \subseteq T /\ U # T)
<1>1. Bad \subseteq FiniteSubsetsOf(S)
  BY FS_Subset DEF FiniteSubsetsOf
<1>2. PICK T \in Bad : \A U \in Bad : <<U, T>> \notin StrictSubsetOrdering(S)
  <2>1. IsWellFoundedOn(StrictSubsetOrdering(S), FiniteSubsetsOf(S))
    BY FS_StrictSubsetOrderingWellFounded
  <2> QED BY <1>1, <2>1, WFMin
<1>3. ASSUME NEW U \in Bad, U \subseteq T, U # T PROVE FALSE
  <2>1. <<U, T>> \in StrictSubsetOrdering(S)
    BY <1>3 DEF StrictSubsetOrdering
  <2> QED BY <1>2, <2>1
<1> QED BY <1>3

First(s) == CHOOSE x \in s : TRUE

Sums(f, S, g) ==
  g = [s \in SUBSET S |-> IF s = {} THEN 0 ELSE f[First(s)] + g[s \ {First(s)}]]

SumOf(f, S) == (CHOOSE g : Sums(f, S, g))[S]

LEMMA FirstIn == \A s : s # {} => First(s) \in s
BY DEF First

LEMMA SumsStep ==
  ASSUME NEW f, NEW S, NEW g, Sums(f, S, g), NEW s \in SUBSET S
  PROVE  /\ s = {} => g[s] = 0
         /\ s # {} => g[s] = f[First(s)] + g[s \ {First(s)}]
<1> DEFINE body(t) == IF t = {} THEN 0 ELSE f[First(t)] + g[t \ {First(t)}]
<1>1. g = [t \in SUBSET S |-> body(t)]
  BY DEF Sums
<1>2. g[s] = body(s)
  <2> HIDE DEF body
  <2> QED BY <1>1
<1> QED BY <1>2

LEMMA SumOfNone == ASSUME NEW f, NEW S, NEW g, Sums(f, S, g) PROVE g[{}] = 0
<1>1. {} \in SUBSET S
  OBVIOUS
<1> QED BY <1>1, SumsStep

LEMMA SumsAgree ==
  ASSUME NEW S, IsFiniteSet(S), NEW f, NEW h, \A x \in S : f[x] = h[x],
         NEW A, NEW B, S \subseteq A, S \subseteq B, NEW a, NEW b, Sums(f, A, a), Sums(h, B, b)
  PROVE  a[S] = b[S]
<1> DEFINE Bad == {s \in SUBSET S : a[s] # b[s]}
<1> SUFFICES ASSUME Bad # {} PROVE FALSE
  OBVIOUS
<1>1. PICK s \in Bad : \A u \in Bad : ~(u \subseteq s /\ u # s)
  <2>1. Bad \subseteq SUBSET S
    OBVIOUS
  <2> HIDE DEF Bad
  <2> QED BY <2>1, SmallestBad
<1>2. s # {}
  <2>1. a[{}] = 0
    BY SumOfNone
  <2>2. b[{}] = 0
    BY SumOfNone
  <2>3. a[s] # b[s]
    BY <1>1
  <2> QED BY <2>1, <2>2, <2>3
<1> DEFINE x == First(s)
<1>3. x \in s /\ s \ {x} \subseteq s /\ s \ {x} # s
  BY <1>2, FirstIn
<1>4. a[s \ {x}] = b[s \ {x}]
  BY <1>1, <1>3
<1>5. a[s] = f[x] + a[s \ {x}] /\ b[s] = h[x] + b[s \ {x}]
  <2>1. s \in SUBSET A /\ s \in SUBSET B
    BY <1>1
  <2> HIDE DEF Bad
  <2>2. a[s] = f[First(s)] + a[s \ {First(s)}]
    BY <1>2, <2>1, SumsStep
  <2>3. b[s] = h[First(s)] + b[s \ {First(s)}]
    BY <1>2, <2>1, SumsStep
  <2> QED BY <2>2, <2>3
<1>6. f[x] = h[x]
  BY <1>1, <1>3
<1> QED BY <1>1, <1>4, <1>5, <1>6

LEMMA SumsExist ==
  ASSUME NEW f, NEW S, IsFiniteSet(S)
  PROVE  \E g : Sums(f, S, g)
<1> DEFINE Bad == {T \in SUBSET S : ~ \E g : Sums(f, T, g)}
<1> SUFFICES ASSUME Bad # {} PROVE FALSE
  OBVIOUS
<1>1. PICK T \in Bad : \A U \in Bad : ~(U \subseteq T /\ U # T)
  <2>1. Bad \subseteq SUBSET S
    OBVIOUS
  <2> HIDE DEF Bad
  <2> QED BY <2>1, SmallestBad
<1> DEFINE part(s) == CHOOSE g : Sums(f, s, g)
           whole(s) == IF s = {} THEN 0 ELSE f[First(s)] + part(s \ {First(s)})[s \ {First(s)}]
           sum == [s \in SUBSET T |-> whole(s)]
<1>2. ASSUME NEW s \in SUBSET T, s # T PROVE Sums(f, s, part(s))
  <2>1. s \in SUBSET S /\ s \notin Bad
    BY <1>1, <1>2
  <2>2. \E g : Sums(f, s, g)
    BY <2>1
  <2> QED BY <2>2
<1>3. ASSUME NEW s \in SUBSET T, s # {}
      PROVE  part(s \ {First(s)})[s \ {First(s)}] = sum[s \ {First(s)}]
  <2> DEFINE u == s \ {First(s)}
  <2>1. u \in SUBSET T /\ u # T /\ IsFiniteSet(u)
    BY <1>1, <1>3, FirstIn, FS_Subset
  <2>2. Sums(f, u, part(u))
    BY <1>2, <2>1
  <2>3. sum[u] = whole(u)
    BY <2>1
  <2>4. CASE u = {}
    BY <2>2, <2>3, <2>4, SumsStep
  <2>5. CASE u # {}
    <3> DEFINE v == u \ {First(u)}
    <3>1. v \in SUBSET u /\ v \in SUBSET T /\ v # T /\ IsFiniteSet(v)
      BY <2>1, <2>5, FirstIn, FS_Subset
    <3>2. Sums(f, v, part(v))
      BY <1>2, <3>1
    <3> HIDE DEF part
    <3>3. part(u)[u] = f[First(u)] + part(u)[v]
      <4>1. u \in SUBSET u
        OBVIOUS
      <4> HIDE DEF u
      <4> QED BY <2>2, <2>5, <4>1, SumsStep
    <3>4. part(u)[v] = part(v)[v]
      <4> HIDE DEF v, u
      <4> QED BY <2>2, <3>1, <3>2, SumsAgree
    <3> QED BY <2>3, <2>5, <3>3, <3>4
  <2> QED BY <2>4, <2>5
<1>4. Sums(f, T, sum)
  <2> HIDE DEF part
  <2>1. ASSUME NEW s \in SUBSET T
        PROVE  sum[s] = IF s = {} THEN 0 ELSE f[First(s)] + sum[s \ {First(s)}]
    BY <1>3
  <2>2. sum = [s \in SUBSET T |-> sum[s]]
    OBVIOUS
  <2> HIDE DEF sum
  <2> QED BY <2>1, <2>2 DEF Sums
<1> QED BY <1>1, <1>4

LEMMA SumFacts ==
  ASSUME NEW f, NEW S, IsFiniteSet(S)
  PROVE  /\ S = {} => SumOf(f, S) = 0
         /\ S # {} => SumOf(f, S) = f[First(S)] + SumOf(f, S \ {First(S)})
<1> DEFINE g == CHOOSE g : Sums(f, S, g)
<1>1. Sums(f, S, g)
  BY SumsExist
<1>2. SumOf(f, S) = g[S]
  BY DEF SumOf
<1> HIDE DEF g
<1>3. CASE S = {}
  BY <1>1, <1>2, <1>3, SumsStep
<1>4. CASE S # {}
  <2> DEFINE T == S \ {First(S)}
             h == CHOOSE h : Sums(f, T, h)
  <2>1. IsFiniteSet(T) /\ T \subseteq S
    BY FS_Subset
  <2>2. Sums(f, T, h)
    BY <2>1, SumsExist
  <2>3. SumOf(f, T) = h[T]
    BY DEF SumOf
  <2> HIDE DEF h
  <2>4. g[S] = f[First(S)] + g[T]
    BY <1>1, <1>4, SumsStep
  <2>5. g[T] = h[T]
    <3> HIDE DEF T
    <3> QED BY <1>1, <2>1, <2>2, SumsAgree
  <2> QED BY <1>2, <1>4, <2>3, <2>4, <2>5
<1> QED BY <1>3, <1>4

LEMMA SumIsNat ==
  ASSUME NEW f, NEW S, IsFiniteSet(S), \A x \in S : f[x] \in Nat
  PROVE  SumOf(f, S) \in Nat
<1> DEFINE Bad == {T \in SUBSET S : SumOf(f, T) \notin Nat}
<1> SUFFICES ASSUME Bad # {} PROVE FALSE
  OBVIOUS
<1>1. PICK T \in Bad : \A U \in Bad : ~(U \subseteq T /\ U # T)
  <2>1. Bad \subseteq SUBSET S
    OBVIOUS
  <2> HIDE DEF Bad
  <2> QED BY <2>1, SmallestBad
<1>2. T \in SUBSET S /\ SumOf(f, T) \notin Nat /\ IsFiniteSet(T)
  BY <1>1, FS_Subset
<1>3. T # {}
  <2>1. IsFiniteSet({}) /\ 0 \in Nat
    BY FS_EmptySet
  <2>2. SumOf(f, {}) = 0
    BY <2>1, SumFacts
  <2> QED BY <1>2, <2>1, <2>2
<1> DEFINE U == T \ {First(T)}
<1>4. First(T) \in T /\ U \in SUBSET S /\ U \subseteq T /\ U # T
  BY <1>2, <1>3, FirstIn
<1>5. SumOf(f, U) \in Nat
  BY <1>1, <1>4
<1>6. SumOf(f, T) = f[First(T)] + SumOf(f, U)
  BY <1>2, <1>3, SumFacts
<1> HIDE DEF U
<1>7. f[First(T)] \in Nat
  BY <1>2, <1>4
<1> QED BY <1>2, <1>5, <1>6, <1>7

\* The order in which a sum takes its terms does not matter.
LEMMA SumAnyOrder ==
  ASSUME NEW f, NEW S, IsFiniteSet(S), \A x \in S : f[x] \in Nat,
         NEW R \in SUBSET S, NEW y \in S \ R
  PROVE  SumOf(f, R \cup {y}) = f[y] + SumOf(f, R)
<1> DEFINE Bad == {T \in SUBSET S : \E x \in S \ T : SumOf(f, T \cup {x}) # f[x] + SumOf(f, T)}
<1> SUFFICES ASSUME Bad # {} PROVE FALSE
  OBVIOUS
<1>1. PICK T \in Bad : \A U \in Bad : ~(U \subseteq T /\ U # T)
  <2>1. Bad \subseteq SUBSET S
    OBVIOUS
  <2> HIDE DEF Bad
  <2> QED BY <2>1, SmallestBad
<1>2. PICK x \in S \ T : SumOf(f, T \cup {x}) # f[x] + SumOf(f, T)
  BY <1>1
<1>3. T \in SUBSET S
  BY <1>1
<1> DEFINE W == T \cup {x}
           c == First(W)
<1>4. W # {} /\ W \in SUBSET S /\ IsFiniteSet(W) /\ c \in W
  BY <1>2, <1>3, FirstIn, FS_Subset
<1>5. SumOf(f, W) = f[c] + SumOf(f, W \ {c})
  BY <1>4, SumFacts
<1>6. CASE c = x
  <2>1. W \ {c} = T
    BY <1>2, <1>6
  <2> HIDE DEF c
  <2> QED BY <1>2, <1>5, <1>6, <2>1
<1>7. CASE c # x
  <2> DEFINE V == T \ {c}
  <2> HIDE DEF c
  <2>1. c \in T /\ c \in S /\ V \in SUBSET S /\ V \subseteq T /\ V # T
    BY <1>3, <1>4, <1>7
  <2>2. V \notin Bad
    BY <1>1, <2>1
  <2>3. \A z \in S \ V : SumOf(f, V \cup {z}) = f[z] + SumOf(f, V)
    BY <2>1, <2>2
  <2>4. W \ {c} = V \cup {x} /\ V \cup {c} = T /\ x \in S \ V /\ c \in S \ V
    BY <1>2, <1>7, <2>1
  <2>5. SumOf(f, V \cup {x}) = f[x] + SumOf(f, V) /\ SumOf(f, V \cup {c}) = f[c] + SumOf(f, V)
    BY <2>3, <2>4
  <2>6. SumOf(f, V) \in Nat
    <3>1. IsFiniteSet(V)
      BY <2>1, FS_Subset
    <3> HIDE DEF V
    <3> QED BY <2>1, <3>1, SumIsNat
  <2>7. f[x] \in Nat /\ f[c] \in Nat
    BY <1>2, <2>1
  <2>8. SumOf(f, W) = f[c] + (f[x] + SumOf(f, V)) /\ SumOf(f, T) = f[c] + SumOf(f, V)
    BY <1>5, <2>4, <2>5
  <2> HIDE DEF V, W
  <2>9. SumOf(f, W) = f[x] + SumOf(f, T)
    BY <2>6, <2>7, <2>8
  <2> QED BY <1>2, <2>9 DEF W
<1> QED BY <1>6, <1>7

LEMMA SumUnion ==
  ASSUME NEW f, NEW S, IsFiniteSet(S), \A x \in S : f[x] \in Nat,
         NEW A \in SUBSET S, NEW B \in SUBSET S, A \cap B = {}
  PROVE  SumOf(f, A \cup B) = SumOf(f, A) + SumOf(f, B)
<1> DEFINE Good == {T \in SUBSET B : SumOf(f, A \cup T) = SumOf(f, A) + SumOf(f, T)}
<1>1. \A T \in SUBSET S : SumOf(f, T) \in Nat
  <2> SUFFICES ASSUME NEW T \in SUBSET S PROVE SumOf(f, T) \in Nat
    OBVIOUS
  <2>1. IsFiniteSet(T) /\ \A x \in T : f[x] \in Nat
    BY FS_Subset
  <2> QED BY <2>1, SumIsNat
<1>2. {} \in Good
  <2>1. SumOf(f, {}) = 0 /\ A \cup {} = A
    BY SumFacts, FS_EmptySet
  <2> QED BY <1>1, <2>1
<1>3. ASSUME NEW T \in SUBSET B, NEW x \in B \ T, T \in Good PROVE T \cup {x} \in Good
  <2>1. A \cup T \in SUBSET S /\ x \in S \ (A \cup T) /\ T \in SUBSET S /\ x \in S \ T
    OBVIOUS
  <2>2. SumOf(f, T \cup {x}) = f[x] + SumOf(f, T)
    BY <2>1, SumAnyOrder
  <2>3. SumOf(f, (A \cup T) \cup {x}) = f[x] + SumOf(f, A \cup T)
    BY <2>1, SumAnyOrder
  <2>4. A \cup (T \cup {x}) = (A \cup T) \cup {x}
    OBVIOUS
  <2>5. SumOf(f, A) \in Nat /\ SumOf(f, T) \in Nat /\ f[x] \in Nat
    BY <1>1, <2>1
  <2>6. SumOf(f, A \cup T) = SumOf(f, A) + SumOf(f, T)
    BY <1>3
  <2>7. SumOf(f, A \cup (T \cup {x})) = SumOf(f, A) + SumOf(f, T \cup {x})
    <3>1. SumOf(f, A \cup (T \cup {x})) = f[x] + (SumOf(f, A) + SumOf(f, T))
      BY <2>3, <2>4, <2>6
    <3>2. \A a, b, c \in Nat : c + (a + b) = a + (c + b)
      OBVIOUS
    <3>3. f[x] + (SumOf(f, A) + SumOf(f, T)) = SumOf(f, A) + (f[x] + SumOf(f, T))
      BY <2>5, <3>2
    <3> QED BY <2>2, <3>1, <3>3
  <2> QED BY <2>7
<1> HIDE DEF Good
<1>4. IsFiniteSet(B)
  BY FS_Subset
<1>5. B \in Good
  BY <1>2, <1>3, <1>4, SetInduction
<1> QED BY <1>5 DEF Good

LEMMA SumAtLeast ==
  ASSUME NEW f, NEW S, IsFiniteSet(S), \A x \in S : f[x] \in Nat, NEW y \in S
  PROVE  f[y] <= SumOf(f, S)
<1>1. S = (S \ {y}) \cup {y} /\ S \ {y} \in SUBSET S /\ y \in S \ (S \ {y})
  OBVIOUS
<1>2. SumOf(f, S) = f[y] + SumOf(f, S \ {y})
  BY <1>1, SumAnyOrder
<1>3. SumOf(f, S \ {y}) \in Nat
  <2>1. IsFiniteSet(S \ {y})
    BY <1>1, FS_Subset
  <2> QED BY <2>1, SumIsNat
<1> QED BY <1>2, <1>3

LEMMA SumMonotone ==
  ASSUME NEW f, NEW h, NEW S, IsFiniteSet(S),
         \A x \in S : f[x] \in Nat /\ h[x] \in Nat /\ f[x] <= h[x]
  PROVE  SumOf(f, S) <= SumOf(h, S)
<1> DEFINE Good == {T \in SUBSET S : SumOf(f, T) <= SumOf(h, T)}
<1>1. {} \in Good
  <2>1. SumOf(f, {}) = 0 /\ SumOf(h, {}) = 0
    BY SumFacts, FS_EmptySet
  <2> QED BY <2>1
<1>2. ASSUME NEW T \in SUBSET S, NEW x \in S \ T, T \in Good PROVE T \cup {x} \in Good
  <2>1. SumOf(f, T \cup {x}) = f[x] + SumOf(f, T) /\ SumOf(h, T \cup {x}) = h[x] + SumOf(h, T)
    BY SumAnyOrder
  <2>2. SumOf(f, T) \in Nat /\ SumOf(h, T) \in Nat
    BY SumIsNat, FS_Subset
  <2>3. SumOf(f, T \cup {x}) <= SumOf(h, T \cup {x})
    BY <1>2, <2>1, <2>2
  <2> QED BY <2>3
<1> HIDE DEF Good
<1>3. S \in Good
  BY <1>1, <1>2, SetInduction
<1> QED BY <1>3 DEF Good

\* Groups may be summed one after the other.
LEMMA SumOfSums ==
  ASSUME NEW h, NEW M, IsFiniteSet(M), \A m \in M : h[m] \in Nat,
         NEW k, NEW F, NEW C, IsFiniteSet(C),
         \A c \in C : F[c] = SumOf(h, {m \in M : k[m] = c})
  PROVE  SumOf(F, C) = SumOf(h, {m \in M : k[m] \in C})
<1> DEFINE of(T) == {m \in M : k[m] \in T}
           Good == {T \in SUBSET C : SumOf(F, T) = SumOf(h, of(T))}
<1>1. \A T : of(T) \in SUBSET M
  OBVIOUS
<1>2. {} \in Good
  <2>1. of({}) = {}
    OBVIOUS
  <2>2. SumOf(h, {}) = 0 /\ SumOf(F, {}) = 0
    BY SumFacts, FS_EmptySet
  <2> QED BY <2>1, <2>2
<1>0. \A c \in C : F[c] \in Nat
  <2> SUFFICES ASSUME NEW c \in C PROVE SumOf(h, {m \in M : k[m] = c}) \in Nat
    OBVIOUS
  <2>1. IsFiniteSet({m \in M : k[m] = c})
    BY FS_Subset
  <2> QED BY <2>1, SumIsNat
<1>3. ASSUME NEW T \in SUBSET C, NEW c \in C \ T, T \in Good PROVE T \cup {c} \in Good
  <2> DEFINE group == {m \in M : k[m] = c}
  <2>1. of(T \cup {c}) = of(T) \cup group /\ of(T) \cap group = {} /\ group \in SUBSET M
    OBVIOUS
  <2>2. SumOf(F, T \cup {c}) = F[c] + SumOf(F, T)
    BY <1>0, SumAnyOrder
  <2>3. F[c] = SumOf(h, group) /\ SumOf(F, T) = SumOf(h, of(T))
    BY <1>3
  <2>4. SumOf(h, of(T)) \in Nat /\ SumOf(h, group) \in Nat
    BY <1>1, <2>1, SumIsNat, FS_Subset
  <2> HIDE DEF of, group
  <2>5. SumOf(h, of(T) \cup group) = SumOf(h, of(T)) + SumOf(h, group)
    BY <1>1, <2>1, SumUnion
  <2>6. SumOf(F, T \cup {c}) = SumOf(h, of(T \cup {c}))
    <3>1. \A a, b \in Nat : a + b = b + a
      OBVIOUS
    <3>2. SumOf(h, group) + SumOf(h, of(T)) = SumOf(h, of(T)) + SumOf(h, group)
      BY <2>4, <3>1
    <3>3. SumOf(F, T \cup {c}) = SumOf(h, group) + SumOf(h, of(T))
      BY <2>2, <2>3
    <3>4. SumOf(h, of(T \cup {c})) = SumOf(h, of(T) \cup group)
      BY <2>1
    <3> QED BY <2>5, <3>2, <3>3, <3>4
  <2> QED BY <2>6
<1> HIDE DEF Good
<1>4. C \in Good
  BY <1>2, <1>3, SetInduction
<1> QED BY <1>4 DEF Good

-----------------------------------------------------------------------------
(* The counts of the coverage reports.                                     *)

\* The sum of the community modules is this one: what it folds is what Sums says.
LEMMA IterIsSum ==
  ASSUME NEW f, NEW P, IsFiniteSet(P), NEW iter, Sums(f, P, iter)
  PROVE  SumOf(f, P) = iter[P]
<1> DEFINE h == CHOOSE g : Sums(f, P, g)
<1>1. Sums(f, P, h) /\ SumOf(f, P) = h[P]
  BY DEF SumOf
<1> HIDE DEF h
<1> QED BY <1>1, SumsAgree

LEMMA MissedTotal ==
  ASSUME NEW counter, NEW P, IsFiniteSet(P), NEW f, \A p \in P : f[p] = counter[p].missed
  PROVE  Total(counter, P).missed = SumOf(f, P)
<1> DEFINE body(g) == [s \in SUBSET P |->
                         IF s = {} THEN 0
                         ELSE LET x == CHOOSE x \in s : TRUE
                              IN  counter[x].missed + g[s \ {x}]]
           iter == CHOOSE g : g = body(g)
<1>1. Total(counter, P).missed = iter[P]
  BY DEF Total, MapThenSumSet, MapThenFoldSet
<1>2. ASSUME NEW g PROVE Sums(f, P, g) <=> g = body(g)
  <2>1. \A s \in SUBSET P : s # {} => f[First(s)] = counter[First(s)].missed
    BY FirstIn
  <2>2. body(g) = [s \in SUBSET P |-> IF s = {} THEN 0 ELSE f[First(s)] + g[s \ {First(s)}]]
    BY <2>1 DEF First
  <2> QED BY <2>2 DEF Sums
<1> HIDE DEF body
<1>3. iter = body(iter)
  BY <1>2, SumsExist
<1> HIDE DEF iter
<1> QED BY <1>1, <1>2, <1>3, IterIsSum

LEMMA CoveredTotal ==
  ASSUME NEW counter, NEW P, IsFiniteSet(P), NEW f, \A p \in P : f[p] = counter[p].covered
  PROVE  Total(counter, P).covered = SumOf(f, P)
<1> DEFINE body(g) == [s \in SUBSET P |->
                         IF s = {} THEN 0
                         ELSE LET x == CHOOSE x \in s : TRUE
                              IN  counter[x].covered + g[s \ {x}]]
           iter == CHOOSE g : g = body(g)
<1>1. Total(counter, P).covered = iter[P]
  BY DEF Total, MapThenSumSet, MapThenFoldSet
<1>2. ASSUME NEW g PROVE Sums(f, P, g) <=> g = body(g)
  <2>1. \A s \in SUBSET P : s # {} => f[First(s)] = counter[First(s)].covered
    BY FirstIn
  <2>2. body(g) = [s \in SUBSET P |-> IF s = {} THEN 0 ELSE f[First(s)] + g[s \ {First(s)}]]
    BY <2>1 DEF First
  <2> QED BY <2>2 DEF Sums
<1> HIDE DEF body
<1>3. iter = body(iter)
  BY <1>2, SumsExist
<1> HIDE DEF iter
<1> QED BY <1>1, <1>2, <1>3, IterIsSum

LEMMA SizesTotal ==
  ASSUME NEW records, NEW P, IsFiniteSet(P), NEW f, \A p \in P : f[p] = Cardinality(records[p])
  PROVE  MapThenSumSet(LAMBDA c : Cardinality(records[c]), P) = SumOf(f, P)
<1> DEFINE body(g) == [s \in SUBSET P |->
                         IF s = {} THEN 0
                         ELSE LET x == CHOOSE x \in s : TRUE
                              IN  Cardinality(records[x]) + g[s \ {x}]]
           iter == CHOOSE g : g = body(g)
<1>1. MapThenSumSet(LAMBDA c : Cardinality(records[c]), P) = iter[P]
  BY DEF MapThenSumSet, MapThenFoldSet
<1>2. ASSUME NEW g PROVE Sums(f, P, g) <=> g = body(g)
  <2>1. \A s \in SUBSET P : s # {} => f[First(s)] = Cardinality(records[First(s)])
    BY FirstIn
  <2>2. body(g) = [s \in SUBSET P |-> IF s = {} THEN 0 ELSE f[First(s)] + g[s \ {First(s)}]]
    BY <2>1 DEF First
  <2> QED BY <2>2 DEF Sums
<1> HIDE DEF body
<1>3. iter = body(iter)
  BY <1>2, SumsExist
<1> HIDE DEF iter
<1>4. SumOf(f, P) = iter[P]
  BY <1>2, <1>3, IterIsSum
<1> HIDE <1>1
<1> QED BY <1>1, <1>4

LEMMA TotalFields ==
  ASSUME NEW counter, NEW P
  PROVE  Total(counter, P) = [missed |-> Total(counter, P).missed,
                              covered |-> Total(counter, P).covered]
BY DEF Total

LEMMA TotalOfTotals ==
  ASSUME NEW M, IsFiniteSet(M), NEW counter, \A m \in M : counter[m] \in Counter,
         NEW k, NEW C, IsFiniteSet(C), NEW group,
         \A c \in C : group[c] = Total(counter, {m \in M : k[m] = c})
  PROVE  Total(group, C) = Total(counter, {m \in M : k[m] \in C})
<1> DEFINE N == {m \in M : k[m] \in C}
           of(c) == {m \in M : k[m] = c}
<1>1. IsFiniteSet(N) /\ \A c : IsFiniteSet(of(c)) /\ of(c) \subseteq M
  BY FS_Subset
<1>2. Total(group, C).missed = Total(counter, N).missed
  <2> DEFINE h == [m \in M |-> counter[m].missed]
             F == [c \in C |-> group[c].missed]
  <2>1. \A m \in M : h[m] \in Nat /\ h[m] = counter[m].missed
    BY DEF Counter
  <2>2. ASSUME NEW c \in C PROVE F[c] = SumOf(h, of(c)) /\ F[c] = group[c].missed
    <3>1. group[c] = Total(counter, of(c)) /\ F[c] = group[c].missed
      OBVIOUS
    <3>2. \A m \in of(c) : h[m] = counter[m].missed
      BY <1>1, <2>1
    <3> HIDE DEF of, F, h
    <3>3. Total(counter, of(c)).missed = SumOf(h, of(c))
      BY <1>1, <3>2, MissedTotal
    <3> QED BY <3>1, <3>3
  <2> HIDE DEF F, h
  <2>3. SumOf(F, C) = SumOf(h, N)
    BY <2>1, <2>2, SumOfSums
  <2>4. \A m \in N : h[m] = counter[m].missed
    BY <2>1
  <2>5. Total(group, C).missed = SumOf(F, C)
    <3>1. \A c \in C : F[c] = group[c].missed
      BY <2>2
    <3> QED BY ONLY IsFiniteSet(C), <3>1, MissedTotal
  <2> HIDE DEF N
  <2>6. Total(counter, N).missed = SumOf(h, N)
    BY <1>1, <2>4, MissedTotal
  <2> QED BY <2>3, <2>5, <2>6
<1>3. Total(group, C).covered = Total(counter, N).covered
  <2> DEFINE h == [m \in M |-> counter[m].covered]
             F == [c \in C |-> group[c].covered]
  <2>1. \A m \in M : h[m] \in Nat /\ h[m] = counter[m].covered
    BY DEF Counter
  <2>2. ASSUME NEW c \in C PROVE F[c] = SumOf(h, of(c)) /\ F[c] = group[c].covered
    <3>1. group[c] = Total(counter, of(c)) /\ F[c] = group[c].covered
      OBVIOUS
    <3>2. \A m \in of(c) : h[m] = counter[m].covered
      BY <1>1, <2>1
    <3> HIDE DEF of, F, h
    <3>3. Total(counter, of(c)).covered = SumOf(h, of(c))
      BY <1>1, <3>2, CoveredTotal
    <3> QED BY <3>1, <3>3
  <2> HIDE DEF F, h
  <2>3. SumOf(F, C) = SumOf(h, N)
    BY <2>1, <2>2, SumOfSums
  <2>4. \A m \in N : h[m] = counter[m].covered
    BY <2>1
  <2>5. Total(group, C).covered = SumOf(F, C)
    <3>1. \A c \in C : F[c] = group[c].covered
      BY <2>2
    <3> QED BY ONLY IsFiniteSet(C), <3>1, CoveredTotal
  <2> HIDE DEF N
  <2>6. Total(counter, N).covered = SumOf(h, N)
    BY <1>1, <2>4, CoveredTotal
  <2> QED BY <2>3, <2>5, <2>6
<1> HIDE DEF N
<1>4. Total(group, C) = Total(counter, N)
  BY <1>2, <1>3, TotalFields
<1> QED BY <1>4 DEF N

-----------------------------------------------------------------------------
\* The line records of a report are finitely many, so that they can be counted.
LEMMA FewLines ==
  ASSUME NEW records, IsFiniteSet(DOMAIN records),
         \A c \in DOMAIN records : IsFiniteSet(records[c])
  PROVE  /\ IsFiniteSet(Lines(records)) /\ Records(records) \in Nat
         /\ Cardinality(Lines(records)) <= Records(records)
<1> DEFINE P == DOMAIN records
           f == [c \in P |-> Cardinality(records[c])]
           file(c) == {SourceOf[c]} \X records[c]
           of(T) == UNION {file(c) : c \in T}
           Good == {T \in SUBSET P : IsFiniteSet(of(T)) /\ Cardinality(of(T)) <= SumOf(f, T)}
<1>1. \A c \in P : f[c] \in Nat /\ f[c] = Cardinality(records[c])
  BY FS_CardinalityType
<1>2. ASSUME NEW c \in P PROVE IsFiniteSet(file(c)) /\ Cardinality(file(c)) = f[c]
  <2>1. IsFiniteSet({SourceOf[c]}) /\ Cardinality({SourceOf[c]}) = 1
    BY FS_Singleton
  <2>2. /\ IsFiniteSet(file(c))
        /\ Cardinality(file(c)) = Cardinality({SourceOf[c]}) * Cardinality(records[c])
    BY <2>1, FS_Product
  <2>3. f[c] \in Nat /\ f[c] = Cardinality(records[c])
    BY <1>1
  <2> HIDE DEF file, f
  <2> QED BY <2>1, <2>2, <2>3
<1>3. Records(records) = SumOf(f, P)
  BY <1>1, SizesTotal DEF Records
<1> HIDE DEF f, file
<1>4. {} \in Good
  <2>1. SumOf(f, {}) = 0
    BY SumFacts, FS_EmptySet
  <2>2. of({}) = {} /\ IsFiniteSet({}) /\ Cardinality({}) = 0
    BY FS_EmptySet
  <2> QED BY <2>1, <2>2
<1>5. ASSUME NEW T \in SUBSET P, NEW c \in P \ T, T \in Good PROVE T \cup {c} \in Good
  <2>1. of(T \cup {c}) = of(T) \cup file(c)
    OBVIOUS
  <2>2. SumOf(f, T \cup {c}) = f[c] + SumOf(f, T)
    BY <1>1, SumAnyOrder
  <2>3. IsFiniteSet(of(T)) /\ Cardinality(of(T)) <= SumOf(f, T)
    BY <1>5
  <2>4. SumOf(f, T) \in Nat
    BY <1>1, SumIsNat, FS_Subset
  <2> HIDE DEF of
  <2>5. /\ IsFiniteSet(of(T) \cup file(c))
        /\ Cardinality(of(T) \cup file(c)) <= Cardinality(of(T)) + Cardinality(file(c))
    <3>1. /\ IsFiniteSet(of(T) \cup file(c))
          /\ Cardinality(of(T) \cup file(c)) =
               Cardinality(of(T)) + Cardinality(file(c)) - Cardinality(of(T) \cap file(c))
      BY <1>2, <2>3, FS_Union
    <3>2. IsFiniteSet(of(T) \cap file(c))
      BY <2>3, FS_Intersection
    <3>3. /\ Cardinality(of(T) \cap file(c)) \in Nat /\ Cardinality(of(T)) \in Nat
          /\ Cardinality(file(c)) \in Nat
      BY <1>2, <2>3, <3>2, FS_CardinalityType
    <3> QED BY <3>1, <3>3
  <2>6. /\ Cardinality(of(T) \cup file(c)) \in Nat /\ Cardinality(of(T)) \in Nat
        /\ Cardinality(file(c)) = f[c] /\ f[c] \in Nat
    BY <1>1, <1>2, <2>3, <2>5, FS_CardinalityType
  <2>7. Cardinality(of(T) \cup file(c)) <= f[c] + SumOf(f, T)
    BY <2>3, <2>4, <2>5, <2>6
  <2>8. IsFiniteSet(of(T \cup {c})) /\ Cardinality(of(T \cup {c})) <= SumOf(f, T \cup {c})
    BY <2>1, <2>2, <2>5, <2>7
  <2> QED BY <2>8
<1>6. P \in Good
  <2> HIDE DEF Good, P
  <2> QED BY <1>4, <1>5, SetInduction DEF P
<1>7. Lines(records) = of(P)
  BY DEF Lines, file
<1>8. SumOf(f, P) \in Nat
  <2> HIDE DEF P
  <2> QED BY <1>1, SumIsNat DEF P
<1> QED BY <1>3, <1>6, <1>7, <1>8

\* What makes a Cobertura report count each line once.
LEMMA CoberturaCounts ==
  ASSUME NEW hits, NEW unhits, IsFiniteSet(DOMAIN hits), IsFiniteSet(DOMAIN unhits),
         \A c \in DOMAIN hits : IsFiniteSet(hits[c]),
         \A c \in DOMAIN unhits : IsFiniteSet(unhits[c]),
         Cardinality(Lines(hits) \cup Lines(unhits)) = Records(hits) + Records(unhits)
  PROVE  /\ Records(hits) = Cardinality(Lines(hits))
         /\ Records(unhits) = Cardinality(Lines(unhits))
         /\ Records(hits) \in Nat /\ Records(unhits) \in Nat
         /\ Lines(hits) \cap Lines(unhits) = {}
<1> DEFINE A == Lines(hits)
           B == Lines(unhits)
           a == Records(hits)
           b == Records(unhits)
<1>1. IsFiniteSet(A) /\ a \in Nat /\ Cardinality(A) <= a
  BY FewLines
<1>2. IsFiniteSet(B) /\ b \in Nat /\ Cardinality(B) <= b
  BY FewLines
<1>3. Cardinality(A \cup B) = a + b
  OBVIOUS
<1> HIDE DEF A, B, a, b
<1>4. Cardinality(A \cup B) = Cardinality(A) + Cardinality(B) - Cardinality(A \cap B)
  BY <1>1, <1>2, FS_Union
<1>5. IsFiniteSet(A \cap B)
  BY <1>1, FS_Intersection
<1>6. Cardinality(A \cap B) \in Nat /\ Cardinality(A) \in Nat /\ Cardinality(B) \in Nat
  BY <1>1, <1>2, <1>5, FS_CardinalityType
<1>7. Cardinality(A) = a /\ Cardinality(B) = b /\ Cardinality(A \cap B) = 0
  BY <1>1, <1>2, <1>3, <1>4, <1>6
<1>8. A \cap B = {}
  BY <1>5, <1>7, FS_EmptySet
<1> QED BY <1>1, <1>2, <1>7, <1>8 DEF A, B, a, b

KoverTyped(r) ==
  /\ IsFiniteSet(DOMAIN r.class) /\ IsFiniteSet(DOMAIN r.source)
  /\ \A m \in Methods : r.method[m] \in Counter
  /\ \A c \in DOMAIN r.class : r.class[c] \in Counter
  /\ \A s \in DOMAIN r.source :
       r.source[s] \in Counter /\ IsFiniteSet(r.hit[s]) /\ IsFiniteSet(r.unhit[s])

\* The total of the source files has at least the lines that are recorded.
LEMMA RecordedLines ==
  ASSUME KoverTyped(report), \A s \in DOMAIN report.source : RecordsFit(s)
  PROVE  LET total == Total(report.source, DOMAIN report.source) IN
         /\ total.missed \in Nat /\ total.covered \in Nat
         /\ MapThenSumSet(LAMBDA s : Cardinality(report.hit[s]), DOMAIN report.source)
              <= total.covered
         /\ \A s \in DOMAIN report.source :
              /\ Cardinality(report.unhit[s]) <= total.missed
              /\ Cardinality(report.hit[s]) <= total.covered
<1> DEFINE S == DOMAIN report.source
           total == Total(report.source, S)
           sizes == [s \in S |-> Cardinality(report.hit[s])]
           missed == [s \in S |-> report.source[s].missed]
           covered == [s \in S |-> report.source[s].covered]
<1>1. IsFiniteSet(S)
  BY DEF KoverTyped
<1>2. \A s \in S : /\ sizes[s] = Cardinality(report.hit[s]) /\ sizes[s] \in Nat
                   /\ missed[s] = report.source[s].missed /\ missed[s] \in Nat
                   /\ covered[s] = report.source[s].covered /\ covered[s] \in Nat
                   /\ Cardinality(report.unhit[s]) \in Nat
  BY FS_CardinalityType DEF KoverTyped, Counter
<1>3. \A s \in S : sizes[s] <= covered[s] /\ Cardinality(report.unhit[s]) <= missed[s]
  BY <1>2 DEF RecordsFit
<1> HIDE DEF S, sizes, missed, covered
<1>4. total.missed = SumOf(missed, S) /\ total.covered = SumOf(covered, S)
  BY <1>1, <1>2, MissedTotal, CoveredTotal
<1> HIDE DEF total
<1>5. total.missed \in Nat /\ total.covered \in Nat
  BY <1>1, <1>2, <1>4, SumIsNat
<1>6. \A s \in S : missed[s] <= total.missed /\ covered[s] <= total.covered
  BY <1>1, <1>2, <1>4, SumAtLeast
<1>7. \A s \in S : /\ Cardinality(report.unhit[s]) <= total.missed
                   /\ Cardinality(report.hit[s]) <= total.covered
  BY <1>2, <1>3, <1>5, <1>6
<1>8. SumOf(sizes, S) <= total.covered
  BY <1>1, <1>2, <1>3, <1>4, SumMonotone
<1>9. MapThenSumSet(LAMBDA s : Cardinality(report.hit[s]), S) = SumOf(sizes, S)
  <2>1. \A s \in S : sizes[s] = Cardinality(report.hit[s])
    BY <1>2
  <2> QED BY <1>1, <2>1, SizesTotal
<1>10. MapThenSumSet(LAMBDA s : Cardinality(report.hit[s]), S) <= total.covered
  BY <1>8, <1>9
<1> QED BY <1>5, <1>7, <1>10 DEF S, total

LEMMA KoverCounts ==
  ASSUME KoverTyped(report), KoverReads, IsFiniteSet(Methods)
  PROVE  LET methods == {m \in Methods : ClassOf[m] \in DOMAIN report.class} IN
         /\ report.total = Total(report.method, methods)
         /\ report.total.missed + report.total.covered > 0
         /\ MapThenSumSet(LAMBDA s : Cardinality(report.hit[s]), DOMAIN report.source)
              <= report.total.covered
<1> DEFINE classes == DOMAIN report.class
           files == DOMAIN report.source
           methods == {m \in Methods : ClassOf[m] \in classes}
<1>1. /\ IsFiniteSet(classes) /\ IsFiniteSet(files)
      /\ \A m \in Methods : report.method[m] \in Counter
      /\ \A c \in classes : report.class[c] \in Counter
  BY DEF KoverTyped
<1>2. Total(report.class, classes) = Total(report.method, methods)
  <2>1. \A c \in classes : report.class[c] = Total(report.method, {m \in Methods : ClassOf[m] = c})
    BY DEF KoverReads, ClassAgrees
  <2>2. IsFiniteSet(classes) /\ \A m \in Methods : report.method[m] \in Counter
    BY <1>1
  <2> HIDE DEF classes, methods
  <2>3. Total(report.class, classes) = Total(report.method, {m \in Methods : ClassOf[m] \in classes})
    BY ONLY IsFiniteSet(Methods), <2>1, <2>2, TotalOfTotals
  <2> QED BY <2>3 DEF methods
<1>3. Total(report.source, files) = Total(report.class, classes)
  <2>1. \A s \in files : report.source[s] = Total(report.class, {c \in classes : SourceOf[c] = s})
    BY DEF KoverReads, SourcesAgree
  <2>2. {c \in classes : SourceOf[c] \in files} = classes
    BY DEF KoverReads, SourcesAgree
  <2> HIDE DEF classes, files
  <2>3. Total(report.source, files) = Total(report.class, {c \in classes : SourceOf[c] \in files})
    BY ONLY <1>1, <2>1, TotalOfTotals
  <2> QED BY <2>2, <2>3
<1>4. report.total = Total(report.source, files)
  BY DEF KoverReads
<1>5. \A s \in files : RecordsFit(s)
  BY DEF KoverReads, SourcesAgree
<1> HIDE DEF classes, files
<1>6. report.total.missed + report.total.covered > 0
  <2>1. PICK s \in files : report.hit[s] \cup report.unhit[s] # {}
    BY DEF KoverReads, files
  <2>2. IsFiniteSet(report.hit[s]) /\ IsFiniteSet(report.unhit[s])
    BY <2>1 DEF KoverTyped, files
  <2>3. /\ Cardinality(report.hit[s]) \in Nat /\ Cardinality(report.unhit[s]) \in Nat
        /\ Cardinality(report.hit[s]) # 0 \/ Cardinality(report.unhit[s]) # 0
    BY <2>1, <2>2, FS_CardinalityType, FS_EmptySet
  <2>4. /\ report.total.missed \in Nat /\ report.total.covered \in Nat
        /\ Cardinality(report.unhit[s]) <= report.total.missed
        /\ Cardinality(report.hit[s]) <= report.total.covered
    BY <1>4, <1>5, <2>1, RecordedLines DEF files
  <2> QED BY <2>3, <2>4
<1>7. MapThenSumSet(LAMBDA s : Cardinality(report.hit[s]), files) <= report.total.covered
  BY <1>4, <1>5, RecordedLines DEF files
<1> HIDE <1>7
<1>8. report.total = Total(report.method, methods)
  BY <1>2, <1>3, <1>4
<1> QED BY <1>6, <1>7, <1>8 DEF classes, files

\* A report is never changed, and one that was read passed its checks.
ReadInv ==
  /\ report \in Reports
  /\ reading = "read" => \/ report.tool = "kover" /\ KoverReads
                         \/ report.tool = "cobertura" /\ CoberturaReads

LEMMA ReadInvHolds == ReportSpec => []ReadInv
<1>1. ReportInit => ReadInv
  BY DEF ReportInit, ReadInv
<1>2. ReadInv /\ [ReadReport]_reportVars => ReadInv'
  <2> SUFFICES ASSUME ReadInv, [ReadReport]_reportVars PROVE ReadInv'
    OBVIOUS
  <2>1. report' = report
    BY DEF ReadReport, reportVars
  <2>2. KoverReads' = KoverReads /\ CoberturaReads' = CoberturaReads
    BY <2>1 DEF KoverReads, CoberturaReads, ClassAgrees, SourcesAgree, RecordsFit
  <2>3. CASE ReadReport
    <3>1. reading' = "read" => \/ report.tool = "kover" /\ KoverReads
                               \/ report.tool = "cobertura" /\ CoberturaReads
      BY <2>3 DEF ReadReport
    <3> QED BY <2>1, <2>2, <3>1 DEF ReadInv
  <2>4. CASE UNCHANGED reportVars
    BY <2>1, <2>2, <2>4 DEF ReadInv, reportVars
  <2> QED BY <2>3, <2>4
<1> QED BY <1>1, <1>2, PTL DEF ReportSpec

\* Whatever a report holds, one that is read counts every method of its classes,
\* or every line of its files, once (parse_kover_container, read_cobertura).
THEOREM CountsAlwaysAgree == ReportSpec => []CountsAgree
<1>1. ReadInv => CountsAgree
  <2> SUFFICES ASSUME ReadInv, reading = "read" PROVE CountsAgree
    BY DEF CountsAgree
  <2>1. CASE report.tool = "kover" /\ KoverReads
    <3>1. KoverTyped(report) /\ IsFiniteSet(Methods)
      BY <2>1, ReportAssumption DEF ReadInv, KoverTyped
    <3> QED BY <2>1, <3>1, KoverCounts DEF CountsAgree
  <2>2. CASE report.tool = "cobertura" /\ CoberturaReads
    <3>1. /\ IsFiniteSet(DOMAIN report.hit) /\ IsFiniteSet(DOMAIN report.unhit)
          /\ \A c \in DOMAIN report.hit : IsFiniteSet(report.hit[c])
          /\ \A c \in DOMAIN report.unhit : IsFiniteSet(report.unhit[c])
      BY <2>2, ReportAssumption DEF ReadInv
    <3>2. /\ Cardinality(Lines(report.hit) \cup Lines(report.unhit))
               = Records(report.hit) + Records(report.unhit)
          /\ report.valid = Records(report.hit) + Records(report.unhit)
          /\ report.covered = Records(report.hit)
      BY <2>2 DEF CoberturaReads
    <3>3. /\ Records(report.hit) = Cardinality(Lines(report.hit))
          /\ Records(report.unhit) = Cardinality(Lines(report.unhit))
          /\ Records(report.hit) \in Nat /\ Records(report.unhit) \in Nat
          /\ Lines(report.hit) \cap Lines(report.unhit) = {}
      BY <3>1, <3>2, CoberturaCounts
    <3>4. report.valid - report.covered = Records(report.unhit)
      BY <3>2, <3>3
    <3>5. report.tool # "kover"
      BY <2>2
    <3> QED BY <3>2, <3>3, <3>4, <3>5 DEF CountsAgree
  <2> QED BY <2>1, <2>2 DEF ReadInv
<1> QED BY <1>1, ReadInvHolds, PTL
=============================================================================
