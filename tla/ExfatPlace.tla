----------------------------- MODULE ExfatPlace -----------------------------
(***************************************************************************)
(* Which clusters each part of a tree takes on an exFAT volume             *)
(* (exfat/place.rs), and what the clusters and the FAT then hold           *)
(* (exfat/entries.rs, exfat/write.rs).                                     *)
(*                                                                         *)
(* A tree is a sequence of entries, in the order of TreePath.  A cluster   *)
(* is a row of pieces of one directory entry each; a piece of a file is    *)
(* named by the file and its place in it.                                  *)
(***************************************************************************)
EXTENDS ExfatGeometry, Sequences, FiniteSets, SequencesExt

CONSTANTS
  UnitsOf,      \* the names, and the UTF-16 units of each
  Up,           \* the name in upper case
  BadNames,     \* the names with a character that exFAT does not hold
  ENTRY_BYTES, UNITS_PER_NAME_ENTRY, MAX_DIRECTORY_BYTES,
  TableBytes    \* the bytes of the up-case table

ASSUME PlaceAssumption ==
  /\ {ENTRY_BYTES, UNITS_PER_NAME_ENTRY} \subseteq Nat \ {0} /\ TableBytes \in Nat
  /\ \A name \in DOMAIN UnitsOf : UnitsOf[name] \in Nat

TreeNames == DOMAIN UnitsOf

NameOf(e)   == Last(e.path)
ParentOf(e) == Front(e.path)

SetEntries(name) == 2 + DivCeil(UnitsOf[name], UNITS_PER_NAME_ENTRY)

\* What Placement::new refuses: a name, a parent that did not come first, and
\* two names that upper case does not tell apart.
CannotCopy(tree) ==
  \E i \in 1 .. Len(tree) :
    \/ NameOf(tree[i]) \in BadNames
    \/ /\ ParentOf(tree[i]) # <<>>
       /\ ~\E j \in 1 .. i - 1 : tree[j].dir /\ tree[j].path = ParentOf(tree[i])
    \/ \E j \in 1 .. i - 1 : /\ ParentOf(tree[j]) = ParentOf(tree[i])
                             /\ Up[NameOf(tree[j])] = Up[NameOf(tree[i])]

Total(s) ==
  LET upTo[k \in 0 .. Len(s)] == IF k = 0 THEN 0 ELSE upTo[k - 1] + s[k]
  IN  upTo[Len(s)]

EntryBytes(tree, dir) ==
  ENTRY_BYTES * Total([i \in 1 .. Len(tree) |->
                         IF ParentOf(tree[i]) = dir THEN SetEntries(NameOf(tree[i])) ELSE 0])

RootBytes(tree, label) ==
  ENTRY_BYTES * (IF label THEN 3 ELSE 2) + EntryBytes(tree, <<>>)

AtLeastOne(n) == IF n = 0 THEN 1 ELSE n

\* The clusters of an entry: a directory has one, even with nothing in it.
ClustersOf(g, tree, i) ==
  IF tree[i].dir THEN AtLeastOne(ClustersFor(g, EntryBytes(tree, tree[i].path)))
                 ELSE ClustersFor(g, tree[i].bytes)

\* The counts in the order in which allocate takes them: the bitmap, the table,
\* the root, and then the tree.
Counts(g, tree, label) ==
  << ClustersFor(g, BitmapBytes(g)), ClustersFor(g, TableBytes),
     AtLeastOne(ClustersFor(g, RootBytes(tree, label))) >>
  \o [i \in 1 .. Len(tree) |-> ClustersOf(g, tree, i)]

Used(counts) == Total(counts)

\* The runs, one after the other.  A run of no clusters starts at cluster 0.
Runs(counts) ==
  [k \in DOMAIN counts |->
     [first    |-> IF counts[k] = 0 THEN 0
                   ELSE FIRST_CLUSTER + Total(SubSeq(counts, 1, k - 1)),
      clusters |-> counts[k]]]

RunSet(run) == run.first .. run.first + run.clusters - 1

\* place of write.rs: the error that says why, or "Ok".
Fits(volume, sector, tree, label) ==
  LET places   == Geometry(volume, sector)
      empty(g) == Used(Counts(g, <<>>, label)) <= g.clusterCount
      \* The largest directory is refused for a directory of the tree only.
      large    == \E i \in 1 .. Len(tree) :
                    tree[i].dir /\ EntryBytes(tree, tree[i].path) > MAX_DIRECTORY_BYTES
  IN  IF ~\E g \in places : empty(g) THEN "PartitionTooSmall"
      ELSE IF CannotCopy(tree) \/ large THEN "CannotCopy"
      ELSE IF \E g \in places : Used(Counts(g, tree, label)) > g.clusterCount THEN "VolumeFull"
      ELSE "Ok"

----------------------------------------------------------------------------
(* What goes onto the volume.                                              *)

END_OF_CHAIN == -1
MEDIA        == -2

Zero        == [type |-> "end"]
Bitmap(run, bytes) == [type |-> "bitmap", first |-> run.first, length |-> bytes]
Table(run)         == [type |-> "upcase", first |-> run.first, length |-> TableBytes]
Label              == [type |-> "label"]

\* The entry set of a file or a directory, with the hash and the checksum of
\* what is in it.
FileSet(name, dir, first, length) ==
  << [type |-> "file", secondary |-> SetEntries(name) - 1, dir |-> dir, summed |-> TRUE],
     [type |-> "stream", contiguous |-> first # 0, units |-> UnitsOf[name],
      hashed |-> Up[name], valid |-> length, first |-> first, length |-> length] >>
  \o [k \in 1 .. SetEntries(name) - 2 |-> [type |-> "name", name |-> name, part |-> k]]

\* The bytes that an entry records: for a directory, all of its clusters.
DataLength(g, tree, run, i) ==
  IF tree[i].dir THEN run.clusters * ClusterBytes(g) ELSE tree[i].bytes

\* The sets of what a directory holds, in the order of the tree.
SetsOf(g, tree, runs, dir) ==
  FlattenSeq([i \in 1 .. Len(tree) |->
                IF ParentOf(tree[i]) = dir
                THEN FileSet(NameOf(tree[i]), tree[i].dir, runs[3 + i].first,
                             DataLength(g, tree, runs[3 + i], i))
                ELSE <<>>])

\* What each run holds, one piece after the other.
Written(g, tree, label, runs, k) ==
  CASE k = 1 -> <<[type |-> "bits", used |-> {c \in Clusters(g) : c < FIRST_CLUSTER
                     + Total([j \in DOMAIN runs |-> runs[j].clusters])}]>>
    [] k = 2 -> <<[type |-> "table"]>>
    [] k = 3 -> (IF label THEN <<Label>> ELSE <<>>)
                \o <<Bitmap(runs[1], BitmapBytes(g)), Table(runs[2])>>
                \o SetsOf(g, tree, runs, <<>>)
    [] OTHER -> LET e == tree[k - 3]
                IN  IF e.dir THEN SetsOf(g, tree, runs, e.path)
                    ELSE [p \in 1 .. DivCeil(e.bytes, ENTRY_BYTES) |->
                            [type |-> "data", of |-> k - 3, at |-> p]]

\* write_run: a piece of a cluster, with zero to the end of the last cluster.
Cut(g, pieces, nth) ==
  LET size == ClusterBytes(g) \div ENTRY_BYTES
  IN  [p \in 1 .. size |-> IF (nth - 1) * size + p <= Len(pieces)
                           THEN pieces[(nth - 1) * size + p] ELSE Zero]

\* A cluster that nothing was written to holds what was there, which is taken to
\* be nothing of exFAT.
Old(g) == [p \in 1 .. ClusterBytes(g) \div ENTRY_BYTES |-> [type |-> "old"]]

Heap(g, tree, label, runs) ==
  LET pieces == [k \in DOMAIN runs |-> Written(g, tree, label, runs, k)]
  IN  [c \in Clusters(g) |->
         IF \E k \in DOMAIN runs : c \in RunSet(runs[k])
         THEN LET k == CHOOSE k \in DOMAIN runs : c \in RunSet(runs[k])
              IN  Cut(g, pieces[k], c - runs[k].first + 1)
         ELSE Old(g)]

FatEntries(g) == 0 .. ((g.fatLength * g.sectorBytes) \div 4) - 1

\* A mistake: the last cluster of a run leads on to the next run.
FatUnended(g, runs) ==
  [n \in FatEntries(g) |->
     IF n = 0 THEN MEDIA ELSE IF n = 1 THEN END_OF_CHAIN
     ELSE IF \E k \in 1 .. 3 : n \in RunSet(runs[k]) THEN n + 1 ELSE 0]

\* write_fat: chains for the bitmap, the table and the root, and zero for the rest.
Fat(g, runs) ==
  [n \in FatEntries(g) |->
     IF n = 0 THEN MEDIA ELSE IF n = 1 THEN END_OF_CHAIN
     ELSE IF \E k \in 1 .. 3 : n \in RunSet(runs[k])
          THEN IF \E k \in 1 .. 3 : n = runs[k].first + runs[k].clusters - 1
               THEN END_OF_CHAIN ELSE n + 1
          ELSE 0]

\* boot_region: the geometry, the root and the percent.  Both copies are sealed
\* with their checksum and the same; plain says that the fields with one
\* possible value (revision, FATs, flags, shifts) have it.
Boot(g, counts, runs) ==
  [geometry |-> g, root |-> runs[3].first, sealed |-> TRUE, plain |-> TRUE,
   percent |-> (Used(counts) * 100) \div g.clusterCount]

=============================================================================
