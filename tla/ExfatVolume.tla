---------------------------- MODULE ExfatVolume ----------------------------
(***************************************************************************)
(* A tree goes onto an exFAT volume, the volume is harmed, and             *)
(* verify_exfat_with reads it back: exfat/read.rs and exfat/verify.rs.     *)
(*                                                                         *)
(* The reader takes each number from the volume.  A harmed volume is one   *)
(* with a field that another value took; where a checksum covers the       *)
(* field, that checksum may have been made new, as another program would.  *)
(***************************************************************************)
EXTENDS ExfatPlace

CONSTANTS
  VolumeBytes, SectorBytes,  \* the partition
  U64,                       \* the largest number of 64 bits
  Trees,                     \* the trees that go onto it
  MaxHarm                    \* how many fields of the volume of each tree may change

VARIABLES
  tree,    \* the tree, as its source lists it; the manifest is the same
  volume,  \* the boot regions, the FAT and the clusters
  harm,    \* how many fields changed
  reader   \* the locals of verify_exfat_with and of Volume

ASSUME VolumeAssumption ==
  /\ {VolumeBytes, U64} \subseteq Nat
  /\ SectorBytes \in SECTOR_SIZES /\ SectorBytes % 4 = 0

\* A tree is entries with a path of names, which a manifest gives.
ASSUME TreesAssumption ==
  \A t \in Trees :
    t \in Seq([path : Seq(TreeNames) \ {<<>>}, dir : BOOLEAN, bytes : Nat])

vars == <<tree, volume, harm, reader>>

Sectors == VolumeBytes \div SectorBytes

\* Locals of the reader.  stack holds one frame for each walk_dir that runs.
\* reach has one past the last sector of each piece that the last step asked for.
Fresh == [pc |-> "open", claimed |-> {}, bits |-> {}, stack |-> <<>>, nodes |-> <<>>,
          reach |-> {}, result |-> "none"]

Refuse(why) == reader' = [reader EXCEPT !.pc = "end", !.result = why, !.stack = <<>>]

\* A read past the end of the partition, which gives nothing.
RefuseRead(reach) ==
  reader' = [reader EXCEPT !.pc = "end", !.result = "Io", !.stack = <<>>, !.reach = reach]

----------------------------------------------------------------------------
(* What is read from the volume.                                           *)

B == volume.boot
G == volume.boot.geometry
\* The geometry that the volume was written with, which says where things are.
Home == CHOOSE g \in Geometry(VolumeBytes, SectorBytes) : TRUE

PerSector == SectorBytes \div 4

\* fat_entry, at the place where the boot sector puts the FAT.  What is beside
\* the FAT that was written reads as zero.
FatEntry(n) ==
  LET at == n + (G.fatOffset - Home.fatOffset) * PerSector
  IN  IF at \in DOMAIN volume.fat THEN volume.fat[at] ELSE 0

FatSector(n) == G.fatOffset + n \div PerSector

\* A cluster, at the place where the boot sector puts the heap.  What is not a
\* cluster that was written is nothing of exFAT.
Cluster(c) ==
  LET shift == ClusterSector(G, c) - Home.heapOffset
      home  == FIRST_CLUSTER + shift \div Home.clusterSectors
  IN  IF shift % Home.clusterSectors = 0 /\ home \in DOMAIN volume.heap
      THEN volume.heap[home] ELSE Old(Home)

InHeap    == FIRST_CLUSTER .. G.clusterCount + 1

\* chain: the clusters from first on, of which there have to be as many as the
\* length needs, if there is one; or nothing, when the chain leaves the heap,
\* has no end, or is of another length.
Chain(first, length) ==
  LET at[k \in 1 .. G.clusterCount + 1] ==
        IF k = 1 THEN first
        ELSE LET before == at[k - 1] IN IF before \in InHeap THEN FatEntry(before) ELSE 0
      whole == {k \in 1 .. G.clusterCount :
                  /\ \A j \in 1 .. k : at[j] \in InHeap
                  /\ FatEntry(at[k]) = END_OF_CHAIN
                  /\ \A n \in length : k = DivCeil(n, ClusterBytes(G))}
  IN  {[j \in 1 .. k |-> at[j]] : k \in whole}

\* runs_of: the clusters of an entry, or nothing.
RunsOf(data) ==
  IF data.first = 0 THEN IF data.length = 0 THEN {<<>>} ELSE {}
  ELSE IF ~data.contiguous THEN Chain(data.first, {data.length})
  ELSE LET n == DivCeil(data.length, ClusterBytes(G))
       IN  {run \in {[k \in 1 .. n |-> data.first + k - 1]} :
              n > 0 /\ ToSet(run) \subseteq InHeap}

\* read_runs: the pieces of the clusters, as far as the length goes.
ReadRuns(clusters, length) ==
  LET all == FlattenSeq([k \in 1 .. Len(clusters) |-> Cluster(clusters[k])])
  IN  [p \in {q \in DOMAIN all : q * ENTRY_BYTES <= length} |-> all[p]]

\* Where the drive is read for some clusters, and for a chain.  A file counts to
\* the end of its last cluster.
ReachOf(clusters) ==
  {ClusterSector(G, c) + G.clusterSectors : c \in ToSet(clusters)}
    \cup {FatSector(c) + 1 : c \in ToSet(clusters)}

\* The window of the partition gives what is asked for.  The FAT is before the
\* heap, so what has its clusters inside has its links there too.
Readable(clusters) == \A n \in ReachOf(clusters) : n <= Sectors

\* A mistake: what a directory holds may be what another holds.
FreeOfAll(clusters) == TRUE

\* claim: the clusters belong to nothing else.
Free(clusters) == ToSet(clusters) \cap reader.claimed = {}

----------------------------------------------------------------------------
(* The reader.                                                             *)

FrameOf(above, pieces) ==
  [above |-> above, at |-> 1, ended |-> FALSE, names |-> {}, pieces |-> pieces]

\* Volume::open up to the root: both boot regions, and the rules for the fields.
\* The size in bytes is a product of 64 bits, and wraps.
Opens ==
  /\ B.sealed                                        \* check_region, and the copy
  /\ B.plain                                         \* shifts, revision, FATs, flags
  /\ (G.volumeSectors * SectorBytes) % (U64 + 1) <= VolumeBytes
  /\ FitsItself(G)
  /\ B.root \in InHeap

Open ==
  /\ reader.pc = "open"
  /\ LET root == {c \in Chain(B.root, {}) : Len(c) * ClusterBytes(G) <= MAX_DIRECTORY_BYTES}
         good == IF Opens /\ FatEntry(0) = MEDIA /\ FatEntry(1) = END_OF_CHAIN THEN root ELSE {}
     IN  \/ good = {} /\ Refuse("Io")
         \/ \E c \in good : ~Readable(c) /\ RefuseRead(ReachOf(c))
         \/ \E c \in good :
              /\ Readable(c)
              /\ reader' = [reader EXCEPT
                   !.pc = "system", !.claimed = ToSet(c), !.reach = ReachOf(c),
                   !.stack = <<FrameOf(<<>>, ReadRuns(c, Len(c) * ClusterBytes(G)))>>]
  /\ UNCHANGED <<tree, volume, harm>>

\* The entries of the root that tell of the volume, up to the first end.
SystemEntries(type) ==
  LET pieces == reader.stack[1].pieces
  IN  {p \in 1 .. Len(pieces) : /\ pieces[p].type = type
                                /\ \A q \in 1 .. p : pieces[q].type # "end"}

EntriesOf(type) == {reader.stack[1].pieces[p] : p \in SystemEntries(type)}

OneOfEach == \A type \in {"bitmap", "upcase", "label"} : Cardinality(SystemEntries(type)) <= 1

\* The chain of the bitmap, which has to be as long as the heap needs, and that
\* of the table, whose checksum is right only in its place and at its length.
BitmapClusters ==
  UNION {Chain(e.first, {e.length}) : e \in {x \in EntriesOf("bitmap") : x.length = BitmapBytes(G)}}

TableClusters == UNION {Chain(e.first, {e.length}) : e \in EntriesOf("upcase")}

TableIsWhole(clusters) ==
  /\ Cluster(clusters[1])[1].type = "table"
  /\ \A e \in EntriesOf("upcase") : e.length = TableBytes

\* The bits that are set, where the first cluster of the bitmap holds bits.
BitsIn(cluster) == IF cluster[1].type = "bits" THEN cluster[1].used ELSE {}

\* read_system_entries: one bitmap, one table that has its checksum, and one
\* label at most.
System ==
  /\ reader.pc = "system"
  /\ \/ (~OneOfEach \/ BitmapClusters = {}) /\ Refuse("Io")
     \/ OneOfEach /\ \E b \in BitmapClusters :
          \/ ~Free(b) /\ Refuse("VolumeDiffers")
          \/ Free(b) /\ ~Readable(b) /\ RefuseRead(ReachOf(b))
          \/ Free(b) /\ Readable(b) /\ TableClusters = {} /\ Refuse("Io")
          \/ Free(b) /\ Readable(b) /\ \E t \in TableClusters :
               LET apart == Free(t) /\ ToSet(b) \cap ToSet(t) = {}
               IN  \/ ~apart /\ Refuse("VolumeDiffers")
                   \/ apart /\ ~Readable(t) /\ RefuseRead(ReachOf(t))
                   \/ apart /\ Readable(t) /\ ~TableIsWhole(t) /\ Refuse("Io")
                   \/ /\ apart /\ Readable(t) /\ TableIsWhole(t)
                      /\ reader' = [reader EXCEPT !.pc = "walk",
                           !.claimed = @ \cup (ToSet(b) \cup ToSet(t)),
                           !.reach = ReachOf(b) \cup ReachOf(t), !.bits = BitsIn(Cluster(b[1]))]
  /\ UNCHANGED <<tree, volume, harm>>

Frame == Last(reader.stack)
Piece == Frame.pieces[Frame.at]

\* The end of walk_dir: the directory above goes on, or the walk is over.
Return ==
  /\ reader.pc = "walk" /\ Frame.at > Len(Frame.pieces)
  /\ reader' = [reader EXCEPT !.stack = Front(@),
                              !.pc = IF Len(reader.stack) = 1 THEN "allocation" ELSE "walk"]
  /\ UNCHANGED <<tree, volume, harm>>

\* Pieces that are no entry set.  Those of the volume itself belong in the root,
\* and nothing comes after the end.
MaySkip ==
  \/ Piece.type = "end"
  \/ ~Frame.ended /\ Piece.type = "unused"
  \/ ~Frame.ended /\ Piece.type \in {"bitmap", "upcase", "label"} /\ Frame.above = <<>>

Skipped == [Frame EXCEPT !.at = @ + 1, !.ended = @ \/ Piece.type = "end"]

Skip ==
  /\ reader.pc = "walk" /\ Frame.at <= Len(Frame.pieces)
  /\ Frame.ended \/ Piece.type # "file"
  /\ \/ MaySkip /\ reader' = [reader EXCEPT !.stack[Len(reader.stack)] = Skipped]
     \/ ~MaySkip /\ Refuse("VolumeDiffers")
  /\ UNCHANGED <<tree, volume, harm>>

\* read_set: the pieces of a set are of one another, and its name is new here.
SetIsWhole(set) ==
  /\ Len(set) >= 3 /\ set[1].summed
  /\ set[2].type = "stream" /\ set[2].units > 0
  /\ LET parts == DivCeil(set[2].units, UNITS_PER_NAME_ENTRY)
     IN  /\ Len(set) = 2 + parts
         /\ \A k \in 1 .. parts : set[2 + k].type = "name"
         /\ \A k \in 1 .. parts : set[2 + k].name = set[3].name /\ set[2 + k].part = k
         /\ UnitsOf[set[3].name] = set[2].units

NameIsNew(set) ==
  /\ Up[set[3].name] = set[2].hashed
  /\ Up[set[3].name] \notin Frame.names

\* The entry set that starts at the piece, and what its second entry says of the data.
EntrySet == SubSeq(Frame.pieces, Frame.at, Frame.at + Piece.secondary)
Data     == EntrySet[2]

SetRules ==
  /\ Piece.secondary >= 2 /\ Frame.at + Piece.secondary <= Len(Frame.pieces)
  /\ SetIsWhole(EntrySet) /\ NameIsNew(EntrySet)
  /\ Data.valid <= Data.length
  /\ Piece.dir => Data.valid = Data.length

\* The clusters of the set, where all is right with them.
SetClusters ==
  IF SetRules /\ (Piece.dir => Data.length <= MAX_DIRECTORY_BYTES)
  THEN {c \in RunsOf(Data) : Free(c)} ELSE {}

Node == [path |-> Append(Frame.above, EntrySet[3].name), dir |-> Piece.dir, data |-> Data]

\* The frame behind the set, which has one more name.
Passed == [Frame EXCEPT !.at = @ + Piece.secondary + 1, !.names = @ \cup {Up[EntrySet[3].name]}]

\* One turn of walk_dir on an entry set: read_set, the claim, and the walk into
\* a directory.
ReadSet ==
  /\ reader.pc = "walk" /\ Frame.at <= Len(Frame.pieces) /\ ~Frame.ended /\ Piece.type = "file"
  /\ \/ /\ SetClusters = {}
        /\ Refuse(IF SetRules /\ Data.first # 0 /\ ~Data.contiguous /\ RunsOf(Data) = {}
                  THEN "Io" ELSE "VolumeDiffers")
     \/ \E c \in SetClusters : Piece.dir /\ ~Readable(c) /\ RefuseRead(ReachOf(c))
     \/ \E c \in SetClusters :
          LET stack == [reader.stack EXCEPT ![Len(reader.stack)] = Passed]
          IN  /\ Piece.dir => Readable(c)
              /\ reader' = [reader EXCEPT
                   !.claimed = @ \cup ToSet(c), !.nodes = Append(@, Node),
                   !.stack = IF Piece.dir
                             THEN Append(stack, FrameOf(Node.path, ReadRuns(c, Data.length)))
                             ELSE stack,
                   !.reach = IF Piece.dir THEN ReachOf(c) ELSE @]
  /\ UNCHANGED <<tree, volume, harm>>

\* A mistake: only what is in use is asked of the bitmap.
AllocationCovered == reader.claimed \subseteq reader.bits

\* check_allocation: the bitmap marks what is claimed, and the percent says so.
Allocated ==
  /\ \A c \in InHeap : c \in reader.bits <=> c \in reader.claimed
  /\ B.percent \in {255, (Cardinality(reader.claimed) * 100) \div G.clusterCount}

CheckAllocation ==
  /\ reader.pc = "allocation"
  /\ IF Allocated THEN reader' = [reader EXCEPT !.pc = "compare"] ELSE Refuse("Io")
  /\ UNCHANGED <<tree, volume, harm>>

\* read_file: the pieces up to the valid length, and zero behind it.
ReadFile(data) ==
  LET clusters == CHOOSE clusters \in RunsOf(data) : TRUE
      pieces   == ReadRuns(clusters, DivCeil(data.length, ENTRY_BYTES) * ENTRY_BYTES)
  IN  [p \in 1 .. Len(pieces) |-> IF (p - 1) * ENTRY_BYTES < data.valid THEN pieces[p] ELSE Zero]

\* What the source gives for a file, whose digest is in the manifest.
Source(i) == [p \in 1 .. DivCeil(tree[i].bytes, ENTRY_BYTES) |->
                [type |-> "data", of |-> i, at |-> p]]

\* verify_exfat_with after the walk: the manifest and the volume have the same
\* directories and the same files, each with its bytes.  Of a file that cannot
\* be read and another difference, the one that the manifest has first is told.
Compare ==
  LET has(i) == \E n \in ToSet(reader.nodes) :
                  /\ n.path = tree[i].path /\ n.dir = tree[i].dir
                  /\ n.dir \/ (n.data.length = tree[i].bytes /\ ReadFile(n.data) = Source(i))
      files == {n \in ToSet(reader.nodes) : ~n.dir}
      rows  == UNION {RunsOf(n.data) : n \in files}
      same  == /\ \A c \in rows : Readable(c)
               /\ \A i \in 1 .. Len(tree) : has(i)
               /\ Len(reader.nodes) = Len(tree)
  IN  /\ reader.pc = "compare"
      /\ \/ same /\ reader' = [reader EXCEPT !.pc = "end", !.result = "Ok",
                               !.reach = UNION {ReachOf(c) : c \in rows}]
         \/ ~same /\ Refuse("VolumeDiffers")
         \/ \E c \in rows : ~Readable(c) /\ RefuseRead(ReachOf(c))
      /\ UNCHANGED <<tree, volume, harm>>

----------------------------------------------------------------------------
(* The writer, and what harms the volume.                                  *)

VolumeOf(t, label) ==
  LET counts == Counts(Home, t, label)
      runs   == Runs(counts)
  IN  [boot |-> Boot(Home, counts, runs), fat |-> Fat(Home, runs),
       heap |-> Heap(Home, t, label, runs)]

\* write_exfat_with of each tree that has a place; another one leaves no volume.
Init ==
  /\ tree \in Trees
  /\ \E label \in BOOLEAN :
       LET fits == Fits(VolumeBytes, SectorBytes, tree, label)
       IN  IF fits = "Ok"
           THEN volume = VolumeOf(tree, label) /\ reader = Fresh
           ELSE /\ volume = VolumeOf(<<>>, FALSE)
                /\ reader = [Fresh EXCEPT !.pc = "end", !.result = fits]
  /\ harm = 0

Harmful == reader.pc = "open" /\ harm < MaxHarm[tree]

\* A number of the geometry is off by one or by the whole heap.  The size, which
\* has 64 bits, can be so large that its bytes wrap to what they were; the heap
\* has room for another cluster then.
HarmBoot ==
  /\ Harmful
  /\ \/ \E f \in {"fatOffset", "fatLength", "heapOffset", "volumeSectors", "clusterCount"},
            n \in {-1, 1, Home.clusterCount * Home.clusterSectors} :
          volume' = [volume EXCEPT !.boot.geometry[f] = @ + n]
     \/ \E n \in {0, 1} :
          volume' = [volume EXCEPT !.boot.geometry.volumeSectors = @ + (U64 + 1) \div SectorBytes,
                                   !.boot.geometry.clusterCount = @ + n]
     \/ \E f \in {"root", "percent"}, n \in {-1, 1} : volume' = [volume EXCEPT !.boot[f] = @ + n]
     \/ \E f \in {"sealed", "plain"} : volume' = [volume EXCEPT !.boot[f] = FALSE]
  /\ harm' = harm + 1
  /\ UNCHANGED <<tree, reader>>

HarmFat ==
  /\ Harmful
  /\ \E n \in 1 .. Home.clusterCount + 1, to \in {0, END_OF_CHAIN} \cup (1 .. Home.clusterCount + 2) :
       volume' = [volume EXCEPT !.fat[n] = to]
  /\ harm' = harm + 1
  /\ UNCHANGED <<tree, reader>>

\* What one entry can become: nothing, one that is not in use, or itself with one
\* field changed.
Harms(e) ==
  {Zero, [type |-> "unused"]}
  \cup (IF e.type \in {"bitmap", "upcase", "stream"}
        THEN {[e EXCEPT !.first = n] : n \in 0 .. Home.clusterCount + 2}
             \cup {[e EXCEPT !.length = n] :
                     n \in {0, 1, ClusterBytes(Home), ClusterBytes(Home) + 1}}
        ELSE {})
  \cup (CASE e.type = "stream" -> {[e EXCEPT !.contiguous = ~@]}
                                    \cup {[e EXCEPT !.valid = n] : n \in {0, 1}}
          [] e.type = "file"   -> {[e EXCEPT !.summed = FALSE], [e EXCEPT !.dir = ~@]}
                                    \cup {[e EXCEPT !.secondary = @ + n] : n \in {-1, 1}}
          [] e.type = "name"   -> {[e EXCEPT !.name = name] : name \in TreeNames}
          [] e.type = "bits"   -> {[e EXCEPT !.used = IF n \in @ THEN @ \ {n} ELSE @ \cup {n}] :
                                     n \in Clusters(Home)}
          [] OTHER             -> {})

HarmEntry ==
  /\ Harmful
  /\ \E c \in DOMAIN volume.heap, p \in 1 .. ClusterBytes(Home) \div ENTRY_BYTES :
       /\ volume.heap[c][p].type \notin {"old", "data", "table"}
       /\ \E e \in Harms(volume.heap[c][p]) : volume' = [volume EXCEPT !.heap[c][p] = e]
  /\ harm' = harm + 1
  /\ UNCHANGED <<tree, reader>>

Read == Open \/ System \/ Return \/ Skip \/ ReadSet \/ CheckAllocation \/ Compare

Next == HarmBoot \/ HarmFat \/ HarmEntry \/ Read

\* The check goes on by itself.
Spec == Init /\ [][Next]_vars /\ WF_vars(Read)

----------------------------------------------------------------------------
(* Properties                                                              *)

\* The root takes more than a directory may, as the reader measures it.
RootIsLarge ==
  \E c \in Chain(B.root, {}) : Len(c) * ClusterBytes(G) > MAX_DIRECTORY_BYTES

\* A tree that has a place is read back from what the writer makes of it, to
\* its last cluster and entry: the one thing that the reader refuses is a root
\* larger than a directory may be, which the writer never asks of a root.
PlacedReadsBack == harm = 0 /\ reader.result # "none" =>
  IF RootIsLarge THEN reader.result = "Io"
  ELSE reader.result \in {"Ok", "CannotCopy", "VolumeFull", "PartitionTooSmall"}

\* No number on a volume makes the reader ask for anything past the end that the
\* boot sector gives it; that end is inside the partition, unless its bytes wrap;
\* and where they do, the reader goes on with nothing from outside.
ReadsInside ==
  /\ \A n \in reader.reach : n <= G.volumeSectors
  /\ G.volumeSectors * SectorBytes <= U64 \/ reader.result # "Io" =>
       \A n \in reader.reach : n <= Sectors

\* The clusters that an entry leads to: its run, or what its links reach.
Owned(data) ==
  LET reached[k \in 0 .. G.clusterCount] ==
        IF k = 0 THEN {data.first} \cap InHeap
        ELSE LET before == reached[k - 1]
             IN  before \cup ({FatEntry(c) : c \in before} \cap InHeap)
  IN  IF data.contiguous
      THEN {c \in InHeap : (c - data.first) \in 0 .. DivCeil(data.length, ClusterBytes(G)) - 1}
      ELSE reached[G.clusterCount]

\* A volume that passes holds the names of the tree and no other, each cluster
\* belongs to one thing, and the bitmap marks just those clusters of the heap:
\* whatever links and entries changed, nothing can be written over a file later.
AcceptedIsSound == reader.result = "Ok" =>
  LET system(e) == [first |-> e.first, length |-> e.length, contiguous |-> FALSE]
      root   == system([first |-> B.root, length |-> 0])
      pieces == UNION {ToSet(Cluster(c)) : c \in Owned(root)}
      things == <<root>> \o [n \in 1 .. Len(reader.nodes) |-> reader.nodes[n].data]
                \o [k \in 1 .. 2 |-> system(CHOOSE e \in pieces : e.type = <<"bitmap", "upcase">>[k])]
  IN  /\ \A m, n \in DOMAIN things : m # n => Owned(things[m]) \cap Owned(things[n]) = {}
      /\ UNION {Owned(things[n]) : n \in DOMAIN things} = reader.bits \cap InHeap
      /\ {n.path : n \in ToSet(reader.nodes)} = {e.path : e \in ToSet(tree)}

\* The walk never goes deeper than there are clusters, and so ends, even where
\* a directory holds itself or a directory above it.
WalkIsBounded == Len(reader.stack) <= Cardinality(reader.claimed)

=============================================================================
