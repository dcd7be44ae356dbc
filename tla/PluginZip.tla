------------------------------ MODULE PluginZip ------------------------------
(***************************************************************************)
(* inspect-plugin-zip.py, which every Windows build runs on the plugin it  *)
(* has packaged: first the structure of the archive, then its entries one  *)
(* after the other, read in chunks whose sizes are not ours to choose.     *)
(*                                                                         *)
(* The bytes of an entry are numbered from 1.  What must not be in them, a *)
(* secret or a path of the build machine, is a marker: the interval of     *)
(* bytes that makes one of the patterns match.                             *)
(***************************************************************************)
EXTENDS Naturals, Sequences, FiniteSets

CONSTANTS
  Parent,   \* the closed set of entries: the directory each is in
  Root,     \* "perf-sentinel/", its own parent
  Optional, \* licences, which may be missing
  Main, Frontend, Options,  \* the three JARs
  Overlap,  \* how many bytes of the former window are looked at again
  Longest,  \* the longest marker that is looked for
  Archive   \* the archives there may be

Closed == DOMAIN Parent
Directories == {Parent[n] : n \in Closed}
Jars == {Main, Frontend, Options}

ASSUME RootAssumption == Root \in Closed /\ Parent[Root] = Root

\* No marker is longer than what is kept and one byte: true of the tokens, and of paths as far
\* as a match needs; a private key's header may have any number of words in the middle.
ASSUME OverlapAssumption == Overlap \in Nat /\ Longest \in Nat /\ Longest <= Overlap + 1

\* What an entry may be, see Entry below: a marker begins at byte 1 or later, ends
\* where the stream ends or before, and none is longer than the longest.
Item ==
  [name : STRING, start : Nat, end : Nat, declared : Nat, stream : Nat,
   marker : [first : Nat \ {0}, size : 0 .. Longest], inside : SUBSET STRING]

ASSUME ArchiveAssumption ==
  \A z \in Archive :
    /\ z.entries \in Seq(Item)
    /\ \A i \in DOMAIN z.entries :
         LET e == z.entries[i] IN
         e.marker.size > 0 => e.marker.first + e.marker.size - 1 <= e.stream

VARIABLES
  zip,     \* the archive: its entries in their order, see Archive
  inspection, \* "structure", "content", "accepted" or "refused"
  entry,   \* index of the entry that is read
  read,    \* how many of its bytes were read
  kept     \* how many of them the window still holds

zipVars == <<zip, inspection, entry, read, kept>>

\* An entry: its name, where its local header starts and its data ends, the
\* size it declares, the bytes its stream gives, a marker in them (of size 0
\* if there is none) and, for a JAR, what is in it.
Entry(name, start, end) ==
  [name |-> name, start |-> start, end |-> end, declared |-> 1, stream |-> 1,
   marker |-> [first |-> 1, size |-> 0],
   inside |-> CASE name = Main -> {"plugin.xml", "own class", "rider class"}
                [] name = Frontend -> {"rider class"}
                [] name = Options -> {"searchable options"}
                [] OTHER -> {}]

ZipInit ==
  /\ zip \in Archive
  /\ inspection = "structure" /\ entry = 1 /\ read = 0 /\ kept = 0

---------------------------------------------------------------------------
(* The structure                                                           *)

Index == DOMAIN zip.entries
Name(i) == zip.entries[i].name
Names == {Name(i) : i \in Index}

\* validate_common: no name twice, whatever its case.  What else an archive may
\* have that is not reproducible or not safe (times, modes, extra fields, sizes
\* and ratios out of bounds) is one flag of it.
Canonical ==
  /\ zip.normalized
  /\ \A i, j \in Index : Name(i) = Name(j) => i = j

\* The order in which validate_local_headers sorts the entries; where offsets
\* are equal, any order gives the same verdict.
Before(i, j) ==
  LET x == zip.entries[i] y == zip.entries[j] IN
  \/ x.start < y.start
  \/ x.start = y.start /\ x.end < y.end
  \/ x.start = y.start /\ x.end = y.end /\ i < j

Previous(i) ==
  CHOOSE j \in Index : Before(j, i) /\ \A k \in Index : Before(k, i) => ~Before(j, k)

\* Mutant: only entries that overlap are refused.
NoOverlap ==
  \A i \in Index :
    /\ zip.entries[i].end <= zip.directory
    /\ \A j \in Index : Before(j, i) => zip.entries[j].end <= zip.entries[i].start

\* validate_local_headers: each entry starts where the one before it ends, the
\* first at 0, and the last ends where the central directory starts.
Tiled ==
  /\ \A i \in Index :
       zip.entries[i].start =
         IF \E j \in Index : Before(j, i) THEN zip.entries[Previous(i)].end ELSE 0
  /\ zip.directory =
       IF Index = {} THEN 0
       ELSE zip.entries[CHOOSE i \in Index : \A j \in Index : ~Before(i, j)].end

\* inspect: nothing is missing, nothing is extra, and the directory an entry
\* is in comes before it.
ClosedAndOrdered ==
  /\ Names \subseteq Closed
  /\ Closed \ Optional \subseteq Names
  /\ \A i \in Index : Name(i) # Root =>
       \E j \in Index : Name(j) = Parent[Name(i)] /\ j <= i

CheckStructure ==
  /\ inspection = "structure"
  /\ inspection' = IF Canonical /\ Tiled /\ ClosedAndOrdered THEN "content" ELSE "refused"
  /\ UNCHANGED <<zip, entry, read, kept>>

---------------------------------------------------------------------------
(* The content                                                             *)

Current == zip.entries[entry]
Limit(n, bound) == IF n <= bound THEN n ELSE bound

\* Mutant: only the last chunk's end is kept.
KeptOfChunk(chunk) == Limit(chunk, Overlap)

\* The window is what was kept and the new chunk; its end is kept for the next.
KeptAfter(chunk) == Limit(kept + chunk, Overlap)

InWindow(chunk) ==
  LET m == Current.marker IN
  /\ m.size > 0
  /\ m.first > read - kept
  /\ m.first + m.size - 1 <= read + chunk

\* stream_entry: a chunk is read, of any size.  Directories are not read.
ReadChunk ==
  /\ inspection = "content" /\ entry <= Len(zip.entries)
  /\ Current.name \notin Directories
  /\ \E chunk \in 1..(Current.stream - read) :
       IF read + chunk > Current.declared \/ InWindow(chunk)
       THEN inspection' = "refused" /\ UNCHANGED <<read, kept>>
       ELSE read' = read + chunk /\ kept' = KeptAfter(chunk) /\ UNCHANGED inspection
  /\ UNCHANGED <<zip, entry>>

Classes == {"own class", "rider class", "foreign class"}

\* What each JAR must have and must not have.
JarFits(name, inside) ==
  CASE name = Main -> /\ "plugin.xml" \in inside
                      /\ inside \cap Classes # {} /\ "foreign class" \notin inside
    [] name = Frontend -> inside \cap Classes = {"rider class"}
    [] name = Options -> inside \cap Classes = {} /\ "searchable options" \in inside
    [] OTHER -> TRUE

\* An entry ends with as many bytes as it declares.
EndFits(name) == name \notin Directories => read = Current.declared

NextEntry ==
  /\ inspection = "content" /\ entry <= Len(zip.entries)
  /\ Current.name \in Directories \/ read = Current.stream
  /\ IF EndFits(Current.name) /\ JarFits(Current.name, Current.inside)
     THEN entry' = entry + 1 /\ read' = 0 /\ kept' = 0 /\ UNCHANGED inspection
     ELSE inspection' = "refused" /\ UNCHANGED <<entry, read, kept>>
  /\ UNCHANGED zip

\* The manifest is written only of an archive that was read to its end.
Manifest ==
  /\ inspection = "content" /\ entry = Len(zip.entries) + 1
  /\ inspection' = "accepted"
  /\ UNCHANGED <<zip, entry, read, kept>>

ZipNext == CheckStructure \/ ReadChunk \/ NextEntry \/ Manifest

ZipSpec == ZipInit /\ [][ZipNext]_zipVars

---------------------------------------------------------------------------
(* Properties                                                              *)

\* Ancestors(n): the directories on the way from n to the root.
Ancestors(n) ==
  {d \in Directories : \A way \in SUBSET Directories :
     Parent[n] \in way /\ (\A e \in way : Parent[e] \in way) => d \in way}

\* An archive that is accepted has no byte before its central directory that
\* is not part of exactly one entry, and has every directory before all that
\* is below it, however deep (validate_local_headers, inspect).
AcceptedIsClosed ==
  inspection = "accepted" =>
    /\ \A byte \in 0..(zip.directory - 1) :
         Cardinality({i \in Index : zip.entries[i].start <= byte /\ byte < zip.entries[i].end}) = 1
    /\ \A i \in Index : \A d \in Ancestors(Name(i)) :
         \E j \in Index : Name(j) = d /\ j <= i

\* Bytes of the current entry that were read contain no marker, and neither
\* do the entries before it, whatever the chunks were: a marker that lies
\* across two chunks, or more, is found (stream_entry's "tail").
MarkersAreSeen ==
  inspection \in {"content", "accepted"} =>
    /\ \A i \in 1..(entry - 1) : Name(i) \notin Directories =>
         /\ zip.entries[i].marker.size = 0
         /\ zip.entries[i].stream = zip.entries[i].declared
    /\ entry \in Index =>
         Current.marker.size = 0 \/ Current.marker.first + Current.marker.size - 1 > read
=============================================================================
