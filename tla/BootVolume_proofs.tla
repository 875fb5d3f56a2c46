------------------------- MODULE BootVolume_proofs -------------------------
(***************************************************************************)
(* Four promises of the Windows side of a drive, for every tree that a     *)
(* source can give, every drive and every sector: the layout holds what it *)
(* is for and the table names it (LayoutHolds), a copy that ends well has  *)
(* every file of partition 1 whole (FilesAreWhole), the repair reaches     *)
(* every directory at every depth (DotsAreRight), and a drive that is too  *)
(* small is answered with the least that is not (NeededIsLeast).           *)
(*                                                                         *)
(* The copy rests on a sum that no step changes: the files on the volume,  *)
(* the one under way and the ones still to come are the files of partition *)
(* 1 (Copies).  The repair rests on what it leaves behind: a directory     *)
(* that is right waits to be read or has only right ones in it (Repairs).  *)
(* The search keeps a drive that holds the layout and one that does not    *)
(* (Halves), and needs that one mebibyte more never makes a drive too      *)
(* small (LargerDrivesHold, a hypothesis of the theorem).                  *)
(***************************************************************************)
EXTENDS BootVolume, ExfatPlace_proofs

TreeEntry == [path : Seq(TreeNames) \ {<<>>}, dir : BOOLEAN, bytes : Nat]

\* A layout is what plan gives for a tree of Windows, and only a plan that ends
\* well gives one.
Planned ==
  /\ job \in Jobs
  /\ DOMAIN search = {"pc", "fits", "short", "result"}
  /\ search.pc # "end" => search.result = "none"
  /\ search.pc = "plan" => IsWindows(job.tree)
  /\ search.result # "Ok" => layout = {}
  /\ search.result = "Ok" =>
       /\ IsWindows(job.tree) /\ Fit(job.drive) = "Ok"
       /\ layout = {Layout(job.drive, job.sector, BootPartitionBytes(job.tree))}

----------------------------------------------------------------------------
(* What the copy keeps.                                                    *)

Answer == [path |-> UNATTEND, dir |-> FALSE, bytes |-> UnattendBytes]

\* Everything of partition 1: the tree without what is left out, and the answer.
Wanted == ToSet(BootEntries(job.tree)) \cup {Answer}

Kept(file) == [path |-> file.path, bytes |-> file.bytes, done |-> file.bytes]

FilesOf(entries) == {Kept(e) : e \in {x \in entries : ~x.dir}}
DirsOf(entries)  == {e.path : e \in {x \in entries : x.dir}}

\* Each directory has a path and a cluster of its own.
DirsHold ==
  /\ IsFiniteSet(volume.dirs) /\ Root \in volume.dirs
  /\ \A d \in volume.dirs :
       /\ DOMAIN d = {"path", "cluster", "head"}
       /\ d.path \in Seq(TreeNames) /\ (d.path = <<>> => d = Root)
       /\ d.cluster \in Nat
  /\ \A a, b \in volume.dirs : a.path = b.path \/ a.cluster = b.cluster => a = b

Copies ==
  /\ DOMAIN volume = {"clusterBytes", "free", "dirs", "files"}
  /\ DOMAIN copy = {"pc", "todo", "file", "left", "result", "pending"}
  /\ copy.pc # "end" => copy.result = "none"
  /\ copy.pc = "format" => volume.dirs = {} /\ volume.files = {}
  /\ \A file \in volume.files : file.done = file.bytes
  /\ copy.pc \in {"copy", "stream", "repair"} \/ copy.result = "Ok" =>
       /\ copy.todo \in Seq(TreeEntry)
       /\ DirsHold
       /\ volume.files \cup FilesOf(ToSet(copy.todo))
            \cup (IF copy.pc = "stream" THEN {Kept(Current)} ELSE {}) = FilesOf(Wanted)
       /\ {d.path : d \in volume.dirs} \cup DirsOf(ToSet(copy.todo)) = {<<>>} \cup DirsOf(Wanted)
  /\ copy.pc = "repair" \/ copy.result = "Ok" => copy.todo = <<>>
  /\ copy.pc \in {"copy", "stream"} =>
       \A d \in volume.dirs : d.cluster < RootCluster + Cardinality(volume.dirs)
  /\ copy.pc = "stream" =>
       \E path, bytes, done : copy.file = <<[path |-> path, bytes |-> bytes, done |-> done]>>

----------------------------------------------------------------------------
(* What the repair keeps.                                                  *)

\* The cluster that `..` of a directory is to say: zero below the root.
Says(a) == IF a.path = <<>> THEN 0 ELSE a.cluster

RightHead(cluster, above) ==
  << [name |-> ".", cluster |-> cluster], [name |-> "..", cluster |-> above],
     [name |-> "free"], [name |-> "free"] >>

Holds(a, d) == d.path # <<>> /\ ParentOf(d) = a.path

\* What fatfs made, and what the repair makes of it.
New(d)   == \E above \in Nat : d.head = NewHead(d.cluster, above)
Right(d) == \E a \in volume.dirs : Holds(a, d) /\ d.head = RightHead(d.cluster, Says(a))

Waits(a) == \E p \in ToSet(copy.pending) : p.dir = a.cluster

Repairs ==
  /\ copy.pc \in {"copy", "stream"} => \A d \in volume.dirs : d.path # <<>> => New(d)
  /\ copy.pc = "repair" =>
       /\ \A d \in volume.dirs : d.path # <<>> => New(d) \/ Right(d)
       /\ copy.pending \in Seq([dir : Nat, above : Nat])
       /\ \A p \in ToSet(copy.pending) :
            \E a \in volume.dirs : p = [dir |-> a.cluster, above |-> Says(a)]
       /\ \A a \in volume.dirs : a.path = <<>> \/ Right(a) =>
            Waits(a) \/ \A d \in volume.dirs : Holds(a, d) => Right(d)
  /\ copy.result = "Ok" => \A d \in volume.dirs : d.path # <<>> => Right(d)

IInv == Planned /\ Copies /\ Repairs

----------------------------------------------------------------------------
(* Sums, and what is on partition 1.                                       *)

\* A sum of what is not negative is at least each of its parts.
LEMMA TotalHolds ==
  ASSUME NEW s \in Seq(Nat)
  PROVE  Total(s) \in Nat /\ \A i \in 1 .. Len(s) : s[i] <= Total(s)
<1>1. Len(s) \in Nat /\ s \in [1 .. Len(s) -> Nat] /\ s \in Seq(Int)
  OBVIOUS
<1>2. PICK up \in [0 .. Len(s) -> Int] : Sums(up, s) /\ Total(s) = up[Len(s)]
  BY <1>1, TotalIs
<1>3. \A k \in 0 .. Len(s) : up[k] = IF k = 0 THEN 0 ELSE up[k - 1] + s[k]
  BY <1>2 DEF Sums
<1> DEFINE S == {k \in Nat : k <= Len(s) => up[k] \in Nat /\ \A i \in 1 .. k : s[i] <= up[k]}
<1>4. 0 \in S
  BY <1>1, <1>3
<1>5. ASSUME NEW n \in Nat, n \in S PROVE n + 1 \in S
  <2> SUFFICES ASSUME n + 1 <= Len(s)
               PROVE  up[n + 1] \in Nat /\ \A i \in 1 .. n + 1 : s[i] <= up[n + 1]
    OBVIOUS
  <2>1. n + 1 \in 0 .. Len(s) /\ n + 1 \in 1 .. Len(s) /\ n + 1 # 0 /\ (n + 1) - 1 = n
    BY <1>1
  <2>2. up[n + 1] = up[n] + s[n + 1] /\ s[n + 1] \in Nat
    BY <1>1, <1>3, <2>1
  <2>3. up[n] \in Nat /\ \A i \in 1 .. n : s[i] <= up[n]
    BY <1>1, <1>5
  <2>4. ASSUME NEW i \in 1 .. n + 1 PROVE s[i] <= up[n + 1]
    <3>1. i = n + 1 \/ i \in 1 .. n
      OBVIOUS
    <3>2. s[i] \in Nat
      BY <1>1
    <3>3. QED
      BY <2>2, <2>3, <3>1, <3>2
  <2>5. QED
    BY <2>2, <2>3, <2>4
<1> HIDE DEF S
<1>6. \A n \in Nat : n \in S
  BY <1>4, <1>5, Counting
<1>7. QED
  BY <1>1, <1>2, <1>6 DEF S

LEMMA DivCeilIsNat ==
  ASSUME NEW a \in Nat, NEW b \in Nat \ {0}
  PROVE  DivCeil(a, b) \in Nat
<1>1. a + b - 1 \in Int /\ a + b - 1 >= 0
  OBVIOUS
<1> DEFINE q == (a + b - 1) \div b
<1>2. q \in Int /\ a + b - 1 < (q + 1) * b
  BY <1>1, Quotient
<1>3. ~(q + 1 <= 0)
  <2> HIDE DEF q
  <2> SUFFICES ASSUME q + 1 <= 0 PROVE FALSE
    OBVIOUS
  <2>1. (q + 1) * b <= 0 * b
    BY <1>2, ProductGrows
  <2>2. (q + 1) * b \in Int
    BY <1>2
  <2>3. QED
    BY <1>1, <1>2, <2>1, <2>2
<1>4. q \in Nat
  <2> HIDE DEF q
  <2>1. QED
    BY <1>2, <1>3
<1>5. QED
  BY <1>4 DEF DivCeil

LEMMA RoundUpHolds ==
  ASSUME NEW a \in Nat, NEW unit \in Nat \ {0}
  PROVE  RoundUp(a, unit) \in Nat /\ a <= RoundUp(a, unit)
<1> DEFINE d == DivCeil(a, unit)
<1>1. d \in Nat /\ a <= d * unit
  BY DivCeilIsNat, DivCeilIsEnough
<1> HIDE DEF d
<1>2. d * unit \in Nat
  BY <1>1
<1>3. QED
  BY <1>1, <1>2 DEF RoundUp, d

\* The entries of the tree but those that are left out (WindowsTree::new).
LeftOut(tree, e) == e.path = ImageOf(tree).path \/ (~e.dir /\ Fold(e.path) = UNATTEND)

LEMMA BootEntriesAre ==
  ASSUME NEW tree \in Seq(TreeEntry)
  PROVE  /\ BootEntries(tree) \in Seq(TreeEntry)
         /\ ToSet(BootEntries(tree)) = {e \in ToSet(tree) : ~LeftOut(tree, e)}
<1> DEFINE part(i) == IF LeftOut(tree, tree[i]) THEN <<>> ELSE <<tree[i]>>
           parts == [i \in 1 .. Len(tree) |-> part(i)]
<1>1. Len(tree) \in Nat /\ DOMAIN tree = 1 .. Len(tree) /\ tree \in [1 .. Len(tree) -> TreeEntry]
  OBVIOUS
<1>2. BootEntries(tree) = FlattenSeq(parts)
  BY DEF BootEntries, LeftOut
<1>3. \A i \in 1 .. Len(tree) : part(i) \in Seq(TreeEntry)
  <2> TAKE i \in 1 .. Len(tree)
  <2>1. tree[i] \in TreeEntry
    BY <1>1
  <2>2. QED
    BY <2>1
<1>4. parts \in [1 .. Len(tree) -> Seq(TreeEntry)]
  BY <1>3
<1>5. \A i \in 1 .. Len(tree) : ToSet(part(i)) = {e \in {tree[i]} : ~LeftOut(tree, e)}
  <2> TAKE i \in 1 .. Len(tree)
  <2>1. ToSet(<<>>) = {} /\ ToSet(<<tree[i]>>) = {tree[i]}
    BY DEF ToSet
  <2>2. QED
    BY <2>1
<1>6. \A i \in 1 .. Len(tree) : parts[i] = part(i)
  OBVIOUS
<1> HIDE DEF part
<1>7. DOMAIN parts = 1 .. Len(tree)
  OBVIOUS
<1> HIDE DEF parts
<1>8. parts \in Seq(Seq(TreeEntry)) /\ Len(parts) = Len(tree)
  BY <1>1, <1>4, RowIsSeq
<1>9. /\ FlattenSeq(parts) \in Seq(TreeEntry)
      /\ ToSet(FlattenSeq(parts)) = UNION {ToSet(parts[i]) : i \in 1 .. Len(tree)}
  BY <1>8, FlattenIs
<1>10. ToSet(tree) = {tree[i] : i \in 1 .. Len(tree)}
  BY <1>1, Zenon DEF ToSet
<1>11. UNION {ToSet(parts[i]) : i \in 1 .. Len(tree)} = {e \in ToSet(tree) : ~LeftOut(tree, e)}
  <2>1. \A i \in 1 .. Len(tree) : ToSet(parts[i]) = {e \in {tree[i]} : ~LeftOut(tree, e)}
    BY <1>5, <1>6
  <2>2. ASSUME NEW i \in 1 .. Len(tree), NEW e \in ToSet(parts[i])
        PROVE  e \in ToSet(tree) /\ ~LeftOut(tree, e)
    BY <1>10, <2>1
  <2>3. ASSUME NEW e \in ToSet(tree), ~LeftOut(tree, e)
        PROVE  \E i \in 1 .. Len(tree) : e \in ToSet(parts[i])
    BY <1>10, <2>1, <2>3
  <2>4. QED
    BY <2>2, <2>3
<1>12. QED
  BY <1>2, <1>9, <1>11

\* What the room of partition 1 is counted from is a number.
LEMMA BootBytesIsNat ==
  ASSUME NEW tree \in Seq(TreeEntry)
  PROVE  /\ BootBytes(tree) \in Nat /\ BootPartitionBytes(tree) \in Nat
         /\ BootBytes(tree) + CLUSTER <= BootPartitionBytes(tree)
<1> DEFINE boot == BootEntries(tree)
           size(i) == IF boot[i].dir THEN CLUSTER ELSE RoundUp(boot[i].bytes, CLUSTER)
           sizes == [i \in 1 .. Len(boot) |-> size(i)]
<1>1. boot \in Seq(TreeEntry) /\ Len(boot) \in Nat /\ \A i \in 1 .. Len(boot) : boot[i] \in TreeEntry
  BY BootEntriesAre
<1>2. CLUSTER \in Nat \ {0} /\ BOOT_ROOM \in Nat /\ ALIGN \in Nat \ {0}
  BY TreeAssumption, LayoutAssumption
<1>3. \A i \in 1 .. Len(boot) : size(i) \in Nat
  <2> HIDE DEF boot
  <2> TAKE i \in 1 .. Len(boot)
  <2>1. boot[i].bytes \in Nat
    BY <1>1 DEF TreeEntry
  <2>2. RoundUp(boot[i].bytes, CLUSTER) \in Nat
    BY <1>2, <2>1, RoundUpHolds
  <2>3. QED
    BY <1>2, <2>2
<1>4. sizes \in [1 .. Len(boot) -> Nat]
  BY <1>3
<1>5. BootBytes(tree) = Total(sizes)
  BY DEF BootBytes
<1> HIDE DEF sizes, boot
<1>6. sizes \in Seq(Nat)
  BY <1>1, <1>4, RowIsSeq
<1>7. BootBytes(tree) \in Nat
  BY <1>5, <1>6, TotalHolds
<1> DEFINE asked == BootBytes(tree) + CLUSTER + BOOT_ROOM
<1>8. asked \in Nat /\ BootBytes(tree) + CLUSTER <= asked
  BY <1>2, <1>7
<1> HIDE DEF asked
<1>9. RoundUp(asked, ALIGN) \in Nat /\ asked <= RoundUp(asked, ALIGN)
  BY <1>2, <1>8, RoundUpHolds
<1>10. BootPartitionBytes(tree) = RoundUp(asked, ALIGN)
  BY DEF BootPartitionBytes, asked
<1>11. BootBytes(tree) + CLUSTER \in Nat
  BY <1>2, <1>7
<1>12. QED
  BY <1>7, <1>8, <1>9, <1>10, <1>11

\* The install image is a file of the tree, in a directory.
LEMMA ImageIs ==
  ASSUME NEW tree \in Seq(TreeEntry), IsWindows(tree)
  PROVE  \E i \in 1 .. Len(tree) :
           /\ ImageOf(tree) = tree[i] /\ tree[i] \in TreeEntry
           /\ ~tree[i].dir /\ Len(tree[i].path) > 1
<1>1. Cardinality(Images(tree)) = 1
  BY DEF IsWindows
<1>2. Images(tree) # {}
  <2>1. Cardinality({}) = 0
    BY FS_EmptySet
  <2>2. QED
    BY <1>1, <2>1
<1> DEFINE i == CHOOSE k \in Images(tree) : TRUE
<1>3. i \in Images(tree) /\ ImageOf(tree) = tree[i]
  BY <1>2 DEF ImageOf
<1> HIDE DEF i
<1>4. i \in 1 .. Len(tree) /\ ~tree[i].dir /\ Fold(tree[i].path) \in {WIM, ESD}
  BY <1>3 DEF Images, FilesAt
<1>5. tree[i] \in TreeEntry
  BY <1>4
<1>6. Len(tree[i].path) > 1
  <2> DEFINE p == tree[i].path
             f == Fold(p)
  <2>1. p \in Seq(TreeNames)
    BY <1>5 DEF TreeEntry
  <2>2. f \in Seq(TreeNames) /\ Len(f) > 1
    BY <1>4, PathAssumption
  <2>3. DOMAIN f = DOMAIN p
    BY DEF Fold
  <2> HIDE DEF f, p
  <2>4. Len(p) = Len(f)
    <3>1. DOMAIN p = 1 .. Len(p) /\ DOMAIN f = 1 .. Len(f) /\ Len(p) \in Nat /\ Len(f) \in Nat
      BY <2>1, <2>2
    <3>2. QED
      BY <2>3, <3>1
  <2>5. p = tree[i].path
    BY DEF p
  <2>6. QED
    BY <2>2, <2>4, <2>5
<1>7. QED
  BY <1>3, <1>4, <1>5, <1>6

\* What a directory takes is a number.
LEMMA EntryBytesIsNat ==
  ASSUME NEW tree \in Seq(TreeEntry), NEW dir
  PROVE  EntryBytes(tree, dir) \in Nat
<1> DEFINE f == [i \in 1 .. Len(tree) |->
                   IF ParentOf(tree[i]) = dir THEN SetEntries(NameOf(tree[i])) ELSE 0]
<1>1. Len(tree) \in Nat
  OBVIOUS
<1>2. \A i \in 1 .. Len(tree) : SetEntries(NameOf(tree[i])) \in Nat
  <2> TAKE i \in 1 .. Len(tree)
  <2>1. tree[i].path \in Seq(TreeNames) /\ tree[i].path # <<>>
    <3>1. tree[i] \in TreeEntry
      OBVIOUS
    <3>2. QED
      BY <3>1 DEF TreeEntry
  <2>2. NameOf(tree[i]) \in TreeNames
    BY <2>1 DEF NameOf, Last
  <2>3. UnitsOf[NameOf(tree[i])] \in Nat /\ UNITS_PER_NAME_ENTRY \in Nat \ {0}
    BY <2>2, PlaceAssumption DEF TreeNames
  <2>4. DivCeil(UnitsOf[NameOf(tree[i])], UNITS_PER_NAME_ENTRY) \in Nat
    BY <2>3, DivCeilIsNat
  <2>5. QED
    BY <2>4 DEF SetEntries
<1>3. f \in [1 .. Len(tree) -> Nat]
  BY <1>2
<1>4. EntryBytes(tree, dir) = ENTRY_BYTES * Total(f)
  BY DEF EntryBytes
<1> HIDE DEF f
<1>5. f \in Seq(Nat)
  BY <1>1, <1>3, RowIsSeq
<1>6. Total(f) \in Nat /\ ENTRY_BYTES \in Nat
  BY <1>5, TotalHolds, PlaceAssumption
<1>7. QED
  BY <1>4, <1>6

\* A volume that place takes for the install image has room for its bytes.
LEMMA InstallFits ==
  ASSUME NEW volume_ \in Nat, NEW sector \in SECTOR_SIZES, NEW tree \in Seq(TreeEntry),
         IsWindows(tree), Fits(volume_, sector, InstallEntries(tree), TRUE) = "Ok"
  PROVE  ImageOf(tree).bytes <= volume_
<1> DEFINE install == InstallEntries(tree)
           image   == ImageOf(tree)
           above   == [path |-> ParentOf(image), dir |-> TRUE, bytes |-> 0]
<1>1. image \in TreeEntry /\ ~image.dir /\ Len(image.path) > 1
  BY ImageIs
<1>2. PICK g \in Geometry(volume_, sector) : ~(Used(Counts(g, install, TRUE)) > g.clusterCount)
  <2> DEFINE P == \E g \in Geometry(volume_, sector) : Used(Counts(g, <<>>, TRUE)) <= g.clusterCount
             Q == \/ CannotCopy(install)
                  \/ \E i \in 1 .. Len(install) :
                       install[i].dir /\ EntryBytes(install, install[i].path) > MAX_DIRECTORY_BYTES
             R == \E g \in Geometry(volume_, sector) : Used(Counts(g, install, TRUE)) > g.clusterCount
  <2>1. Fits(volume_, sector, install, TRUE) =
          IF ~P THEN "PartitionTooSmall" ELSE IF Q THEN "CannotCopy" ELSE IF R THEN "VolumeFull" ELSE "Ok"
    BY Zenon DEF Fits
  <2> HIDE DEF P, Q, R
  <2>2. P /\ ~R
    BY <2>1
  <2>3. QED
    BY <2>2, Zenon DEF P, R
<1>3. /\ g.sectorBytes = sector /\ g.clusterSectors \in Nat \ {0} /\ g.clusterCount \in Nat
      /\ g.heapOffset \in Nat /\ g.volumeSectors = volume_ \div sector
      /\ g.heapOffset + g.clusterCount * g.clusterSectors <= g.volumeSectors
  BY GeometryHolds
<1>4. sector \in Nat \ {0}
  BY AlignIsWhole
<1> DEFINE cluster == g.clusterSectors * sector
<1>5. cluster \in Nat \ {0} /\ ClusterBytes(g) = cluster
  <2>1. g.clusterSectors * sector \in Nat /\ g.clusterSectors * sector # 0
    BY <1>3, <1>4
  <2>2. QED
    BY <1>3, <2>1 DEF ClusterBytes
<1>6. /\ install \in Seq(TreeEntry) /\ Len(install) = 2
      /\ install[2] = image /\ \A i \in 1 .. 2 : install[i] \in TreeEntry
  <2>1. install = <<above, image>>
    BY DEF InstallEntries
  <2>2. above \in TreeEntry
    <3>1. ParentOf(image) \in Seq(TreeNames) /\ ParentOf(image) # <<>>
      <4>1. image.path \in Seq(TreeNames) /\ Len(image.path) - 1 \in Nat /\ Len(image.path) - 1 > 0
        BY <1>1 DEF TreeEntry
      <4> DEFINE p == image.path
      <4>2. Front(p) = [i \in 1 .. Len(p) - 1 |-> p[i]]
        BY <4>1 DEF Front
      <4> HIDE DEF p
      <4>3. \A i \in 1 .. Len(p) - 1 : p[i] \in TreeNames
        BY <4>1 DEF p
      <4>4. Front(p) \in Seq(TreeNames) /\ Len(Front(p)) = Len(p) - 1
        BY <4>1, <4>2, <4>3, RowIsSeq DEF p
      <4>5. QED
        BY <4>1, <4>4 DEF ParentOf, p
    <3>2. QED
      BY <3>1 DEF TreeEntry
  <2> HIDE DEF above, image, install
  <2>3. install \in Seq(TreeEntry) /\ Len(install) = 2 /\ install[1] = above /\ install[2] = image
    BY <1>1, <2>1, <2>2
  <2>4. \A i \in 1 .. 2 : i = 1 \/ i = 2
    OBVIOUS
  <2>5. QED
    BY <1>1, <2>2, <2>3, <2>4
<1>7. image.bytes \in Nat
  BY <1>1 DEF TreeEntry
<1> HIDE DEF install, image
<1> DEFINE a == ClustersFor(g, BitmapBytes(g))
           b == ClustersFor(g, TableBytes)
           c == AtLeastOne(ClustersFor(g, RootBytes(install, TRUE)))
           rest == [i \in 1 .. Len(install) |-> ClustersOf(g, install, i)]
<1>8. \A n \in Nat : ClustersFor(g, n) \in Nat
  BY <1>5, DivCeilIsNat DEF ClustersFor
<1>9. a \in Nat /\ b \in Nat /\ c \in Nat
  <2>1. BitmapBytes(g) \in Nat
    <3>1. g.clusterCount \in Nat /\ 8 \in Nat \ {0}
      BY <1>3
    <3>2. QED
      BY <3>1, DivCeilIsNat DEF BitmapBytes
  <2>2. EntryBytes(install, <<>>) \in Nat
    BY <1>6, EntryBytesIsNat
  <2>3. RootBytes(install, TRUE) \in Nat
    BY <2>2, PlaceAssumption DEF RootBytes
  <2>4. \A n \in Nat : AtLeastOne(n) \in Nat
    BY DEF AtLeastOne
  <2>5. QED
    BY <1>8, <2>1, <2>3, <2>4, PlaceAssumption
<1>10. \A i \in 1 .. 2 : ClustersOf(g, install, i) \in Nat
  <2> TAKE i \in 1 .. 2
  <2>1. install[i] \in TreeEntry
    BY <1>6
  <2>2. EntryBytes(install, install[i].path) \in Nat /\ install[i].bytes \in Nat
    BY <1>6, <2>1, EntryBytesIsNat DEF TreeEntry
  <2>3. \A n \in Nat : AtLeastOne(n) \in Nat
    BY DEF AtLeastOne
  <2>4. QED
    BY <1>8, <2>2, <2>3 DEF ClustersOf
<1>11. ClustersOf(g, install, 2) = ClustersFor(g, image.bytes)
  <2>1. install[2] = image /\ ~image.dir
    BY <1>1, <1>6 DEF image
  <2>2. QED
    BY <2>1 DEF ClustersOf
<1>12. /\ Counts(g, install, TRUE) = <<a, b, c>> \o rest
       /\ rest \in Seq(Nat) /\ Len(rest) = 2 /\ rest[2] = ClustersFor(g, image.bytes)
  <2>1. rest \in [1 .. 2 -> Nat] /\ rest[2] = ClustersFor(g, image.bytes)
    BY <1>6, <1>10, <1>11
  <2>2. Counts(g, install, TRUE) = <<a, b, c>> \o rest
    BY DEF Counts
  <2> HIDE DEF rest, a, b, c
  <2>3. QED
    BY <2>1, <2>2, RowIsSeq
<1> DEFINE counts == Counts(g, install, TRUE)
<1>13. counts \in Seq(Nat) /\ Len(counts) = 5 /\ counts[5] = ClustersFor(g, image.bytes)
  <2> HIDE DEF rest, a, b, c, counts
  <2>1. <<a, b, c>> \in Seq(Nat) /\ Len(<<a, b, c>>) = 3
    BY <1>9
  <2> DEFINE front == <<a, b, c>>
  <2> HIDE DEF front
  <2>2. /\ front \o rest \in Seq(Nat) /\ Len(front \o rest) = Len(front) + Len(rest)
        /\ \A i \in 1 .. Len(front) + Len(rest) :
             (front \o rest)[i] = IF i <= Len(front) THEN front[i] ELSE rest[i - Len(front)]
    BY <1>12, <2>1, ConcatProperties DEF front
  <2>3. Len(front) = 3 /\ Len(rest) = 2
    BY <1>12, <2>1 DEF front
  <2>4. (front \o rest)[5] = rest[2]
    BY <2>2, <2>3
  <2>5. counts = front \o rest
    BY <1>12 DEF front, counts
  <2>6. QED
    BY <1>12, <2>2, <2>3, <2>4, <2>5
<1> HIDE DEF counts, a, b, c, rest
<1>14. ClustersFor(g, image.bytes) <= Used(counts)
  <2>1. 5 \in 1 .. Len(counts)
    BY <1>13
  <2>2. QED
    BY <1>13, <2>1, TotalHolds DEF Used
<1> DEFINE n == ClustersFor(g, image.bytes)
<1>15. n \in Nat /\ n <= g.clusterCount
  <2>1. Used(counts) \in Nat
    BY <1>13, TotalHolds DEF Used
  <2>2. ~(Used(counts) > g.clusterCount)
    BY <1>2 DEF counts
  <2>3. n \in Nat /\ n <= Used(counts)
    BY <1>7, <1>8, <1>14
  <2> HIDE DEF n
  <2>4. QED
    BY <1>3, <2>1, <2>2, <2>3
<1>16. image.bytes <= n * cluster
  <2>1. image.bytes \in Int
    BY <1>7
  <2> HIDE DEF cluster
  <2>2. image.bytes <= DivCeil(image.bytes, cluster) * cluster
    BY <1>5, <2>1, DivCeilIsEnough
  <2>3. QED
    BY <1>5, <2>2 DEF ClustersFor
<1>17. n * cluster <= g.clusterCount * cluster
  <2> HIDE DEF n, cluster
  <2>1. QED
    BY <1>3, <1>5, <1>15, ProductGrows
<1>18. g.clusterCount * cluster <= volume_
  <2> DEFINE k == g.clusterCount * g.clusterSectors
             v == volume_ \div sector
  <2>1. v \in Int /\ v * sector <= volume_
    BY <1>4, Quotient
  <2>2. k \in Nat /\ k <= v
    <3>1. k \in Nat /\ g.heapOffset + k <= v
      BY <1>3
    <3> HIDE DEF k, v
    <3>2. QED
      BY <1>3, <2>1, <3>1
  <2>3. k * sector = g.clusterCount * cluster
    BY <1>3, <1>4
  <2> HIDE DEF k, v
  <2>4. k * sector <= v * sector
    BY <1>4, <2>1, <2>2, ProductGrows
  <2>5. k * sector \in Int /\ v * sector \in Int
    BY <1>4, <2>1, <2>2
  <2>6. QED
    BY <2>1, <2>3, <2>4, <2>5
<1>19. n * cluster \in Int /\ g.clusterCount * cluster \in Int
  BY <1>3, <1>5, <1>15
<1> HIDE DEF n, cluster
<1>20. QED
  BY <1>7, <1>16, <1>17, <1>18, <1>19 DEF image

----------------------------------------------------------------------------
(* The layout.                                                             *)

\* What the steps of plan keep.
LEMMA InitPlanned == Init => Planned
<1> SUFFICES ASSUME Init PROVE Planned
  OBVIOUS
<1>1. /\ job \in Jobs /\ layout = {}
      /\ search = [pc |-> "split", fits |-> 0, short |-> 0, result |-> "none"]
  BY DEF Init, TreeInit
<1>2. QED
  BY <1>1 DEF Planned

LEMMA StepPlanned == Planned /\ [Next]_vars => Planned'
<1> SUFFICES ASSUME Planned, [Next]_vars PROVE Planned'
  OBVIOUS
<1> DEFINE laid == {Layout(job.drive, job.sector, BootPartitionBytes(job.tree))}
<1>1. /\ job \in Jobs /\ DOMAIN search = {"pc", "fits", "short", "result"}
      /\ search.pc # "end" => search.result = "none"
      /\ search.result # "Ok" => layout = {}
  BY DEF Planned
\* A search that goes on, or that ends with an error.
<1>2. ASSUME NEW why, why # "Ok", Refused(why), UNCHANGED <<job, layout>>, search.pc # "end"
      PROVE  Planned'
  <2>1. search' = [search EXCEPT !.pc = "end", !.result = why]
    BY <1>2 DEF Refused
  <2>2. /\ DOMAIN search' = {"pc", "fits", "short", "result"}
        /\ search'.pc = "end" /\ search'.result = why
    BY <1>1, <2>1
  <2>3. layout = {}
    BY <1>1, <1>2
  <2>4. QED
    BY <1>1, <1>2, <2>2, <2>3 DEF Planned
<1>3. ASSUME UNCHANGED <<job, layout>>, search.pc # "end", search'.result = search.result,
             DOMAIN search' = {"pc", "fits", "short", "result"}, search'.pc \notin {"end", "plan"}
      PROVE  Planned'
  BY <1>1, <1>3 DEF Planned
<1>4. CASE UNCHANGED treeVars
  <2>1. UNCHANGED <<job, search, layout>>
    BY <1>4 DEF treeVars
  <2>2. Fit(job.drive)' = Fit(job.drive)
    BY <2>1 DEF Fit
  <2>3. QED
    BY <2>1, <2>2 DEF Planned
<1>5. CASE Split
  <2>1. search.pc = "split" /\ UNCHANGED <<job, layout>>
    BY <1>5 DEF Split
  <2>2. CASE IsWindows(job.tree)
    <3>1. search' = [search EXCEPT !.pc = "plan"]
      BY <1>5, <2>2 DEF Split
    <3>2. /\ DOMAIN search' = {"pc", "fits", "short", "result"}
          /\ search'.pc = "plan" /\ search'.result = "none"
      BY <1>1, <2>1, <3>1
    <3>3. layout = {}
      BY <1>1, <2>1
    <3>4. QED
      BY <1>1, <2>1, <2>2, <3>2, <3>3 DEF Planned
  <2>3. CASE ~IsWindows(job.tree)
    <3>1. Refused("Source")
      BY <1>5, <2>3 DEF Split
    <3>2. QED
      BY <1>2, <2>1, <3>1
  <2>4. QED
    BY <2>2, <2>3
<1>6. CASE PlanDrive
  <2>1. search.pc = "plan" /\ UNCHANGED job /\ IsWindows(job.tree)
    BY <1>6 DEF PlanDrive, Planned
  <2>2. CASE /\ Fit(job.drive) = "Ok" /\ layout' = laid
             /\ search' = [search EXCEPT !.pc = "end", !.result = "Ok"]
    <3>1. /\ DOMAIN search' = {"pc", "fits", "short", "result"}
          /\ search'.pc = "end" /\ search'.result = "Ok"
      BY <1>1, <2>2
    <3>2. Fit(job.drive)' = Fit(job.drive) /\ laid' = laid
      BY <2>1 DEF Fit
    <3> HIDE DEF laid
    <3>3. layout' = laid'
      BY <2>2, <3>2
    <3>4. QED
      BY <1>1, <2>1, <2>2, <3>1, <3>2, <3>3 DEF Planned, laid
  <2>3. ASSUME NEW twice, UNCHANGED layout, search' = [search EXCEPT !.pc = "grow", !.fits = twice]
        PROVE  Planned'
    <3>1. /\ DOMAIN search' = {"pc", "fits", "short", "result"}
          /\ search'.pc = "grow" /\ search'.result = search.result
      BY <1>1, <2>3
    <3>2. QED
      BY <1>3, <2>1, <2>3, <3>1
  <2>4. ASSUME Fit(job.drive) \notin TooSmall \cup {"Ok"}, Refused(Fit(job.drive)), UNCHANGED layout
        PROVE  Planned'
    BY <1>2, <2>1, <2>4
  <2>5. QED
    BY <1>6, <2>2, <2>3, <2>4, Zenon DEF PlanDrive
<1>7. CASE Grow
  <2>1. search.pc = "grow" /\ UNCHANGED <<job, layout>>
    BY <1>7 DEF Grow
  <2>2. \/ \E fits : search' = [search EXCEPT !.fits = fits]
        \/ search' = [search EXCEPT !.pc = "halve", !.short = 0]
        \/ Fit(search.fits) # "Ok" /\ Refused(Fit(search.fits))
    BY <1>7, Zenon DEF Grow
  <2>3. CASE \E fits : search' = [search EXCEPT !.fits = fits]
    BY <1>1, <1>3, <2>1, <2>3
  <2>4. CASE search' = [search EXCEPT !.pc = "halve", !.short = 0]
    BY <1>1, <1>3, <2>1, <2>4
  <2>5. QED
    BY <1>2, <2>1, <2>2, <2>3, <2>4
<1>8. CASE Halve
  <2>1. search.pc = "halve" /\ UNCHANGED <<job, layout>>
    BY <1>8 DEF Halve
  <2>2. \/ \E n : search' = [search EXCEPT !.short = n]
        \/ \E n : search' = [search EXCEPT !.fits = n]
        \/ Fit(Middle) # "Ok" /\ Refused(Fit(Middle))
    BY <1>8, Zenon DEF Halve
  <2>3. CASE \E n : search' = [search EXCEPT !.short = n]
    BY <1>1, <1>3, <2>1, <2>3
  <2>4. CASE \E n : search' = [search EXCEPT !.fits = n]
    BY <1>1, <1>3, <2>1, <2>4
  <2>5. QED
    BY <1>2, <2>1, <2>2, <2>3, <2>4
<1>9. CASE Needed
  <2>1. search.pc = "halve" /\ UNCHANGED <<job, layout>> /\ Refused("NeedsLargerDrive")
    BY <1>9 DEF Needed
  <2>2. QED
    BY <1>2, <2>1
<1>10. CASE Format \/ CopyEntry \/ Stream \/ StartRepair \/ RepairDir \/ Copied
  <2>1. UNCHANGED treeVars
    BY <1>10 DEF Format, CopyEntry, Stream, StartRepair, RepairDir, Copied, Copying
  <2>2. QED
    BY <1>4, <2>1
<1>11. CASE UNCHANGED vars
  <2>1. UNCHANGED treeVars
    BY <1>11 DEF vars, treeVars
  <2>2. QED
    BY <1>4, <2>1
<1>12. QED
  BY <1>5, <1>6, <1>7, <1>8, <1>9, <1>10, <1>11 DEF Next, TreeNext

LEMMA NoRest ==
  ASSUME NEW a \in Int, NEW unit \in Nat \ {0}, Whole(a, unit)
  PROVE  a % unit = 0
<1>1. (a \div unit) * unit = a
  BY WholeQuotient
<1>2. QED
  BY <1>1, SMT

\* What lies behind the last mebibyte that the table can name.
LEMMA InstallEndIsFar ==
  ASSUME NEW drive \in Nat, NEW sector \in Nat \ {0}
  PROVE  /\ InstallEnd(drive, sector) \in Int
         /\ drive - InstallEnd(drive, sector) <
              (IF drive > MBR_SECTORS * sector THEN drive - MBR_SECTORS * sector ELSE 0) + ALIGN
<1> DEFINE limit == MBR_SECTORS * sector
           least == IF drive < limit THEN drive ELSE limit
           q     == least \div ALIGN
<1>1. ALIGN \in Nat \ {0} /\ limit \in Nat
  BY LayoutAssumption DEF MBR_SECTORS
<1>2. InstallEnd(drive, sector) = q * ALIGN
  BY DEF InstallEnd, RoundDown
<1> HIDE DEF limit
<1>3. least \in Nat
  BY <1>1
<1> HIDE DEF least
<1>4. q \in Int /\ least < (q + 1) * ALIGN
  BY <1>1, <1>3, Quotient
<1> HIDE DEF q
<1>5. (q + 1) * ALIGN = q * ALIGN + ALIGN /\ q * ALIGN \in Int
  BY <1>1, <1>4
<1>6. least - q * ALIGN < ALIGN
  BY <1>1, <1>3, <1>4, <1>5
<1>7. drive - q * ALIGN < (IF drive > limit THEN drive - limit ELSE 0) + ALIGN
  BY <1>1, <1>3, <1>5, <1>6 DEF least
<1>8. QED
  BY <1>2, <1>5, <1>7 DEF limit

LEMMA PlannedLayoutHolds == Planned => LayoutHolds
<1> SUFFICES ASSUME Planned, NEW plan \in layout
             PROVE  LET parts == <<plan.boot, plan.install>>
                    IN  /\ \A k \in 1 .. 2 : parts[k].start % ALIGN = 0 /\ parts[k].length % ALIGN = 0
                                             /\ parts[k].length > 0
                        /\ plan.boot.start > 0 /\ End(plan.boot) <= plan.install.start
                        /\ End(plan.install) <= plan.drive
                        /\ plan.boot.length >= BootBytes(job.tree) + CLUSTER
                        /\ plan.install.length >= ImageOf(job.tree).bytes
                        /\ \A k \in 1 .. 2 : /\ Mbr(plan)[k].first * plan.sector = parts[k].start
                                             /\ Mbr(plan)[k].count * plan.sector = parts[k].length
                        /\ plan.drive - End(plan.install) < plan.beyond + ALIGN
  BY DEF LayoutHolds
<1> DEFINE bytes  == BootPartitionBytes(job.tree)
           drive  == job.drive
           sector == job.sector
           parts  == <<plan.boot, plan.install>>
<1>1. /\ IsWindows(job.tree) /\ Fit(drive) = "Ok"
      /\ plan = Layout(drive, sector, bytes)
  BY DEF Planned
<1>2. job.tree \in Seq(TreeEntry) /\ drive \in Nat /\ sector \in Nat
  BY JobsAssumption DEF Planned, TreeEntry
<1>3. BootBytes(job.tree) \in Nat /\ bytes \in Nat /\ BootBytes(job.tree) + CLUSTER <= bytes
  BY <1>2, BootBytesIsNat
<1>4. /\ Refusal(drive, sector, bytes) = "none"
      /\ Fits(plan.install.length, sector, InstallEntries(job.tree), TRUE) = "Ok"
  <2>1. Refusal(drive, sector, bytes) # "Ok"
    BY DEF Refusal
  <2>2. Fit(drive) = IF Refusal(drive, sector, bytes) # "none" THEN Refusal(drive, sector, bytes)
                     ELSE Fits(plan.install.length, sector, InstallEntries(job.tree), TRUE)
    BY <1>1 DEF Fit, Fitting
  <2>3. QED
    BY <1>1, <2>1, <2>2
<1> HIDE DEF bytes, drive, sector
<1>5. PartitionsHold(plan, bytes)
  BY <1>1, <1>2, <1>3, <1>4, PartitionsHoldAlways
<1>6. NamedExactly(plan, Mbr(plan)[1], plan.boot) /\ NamedExactly(plan, Mbr(plan)[2], plan.install)
  BY <1>1, <1>2, <1>3, <1>4, TableNamesThePartitions
<1>7. sector \in SECTOR_SIZES /\ sector \in Nat \ {0} /\ ALIGN \in Nat \ {0}
  BY <1>4, AlignIsWhole DEF Refusal
<1>8. /\ plan.boot.start \in Int /\ plan.boot.length \in Int
      /\ plan.install.start \in Int /\ plan.install.length \in Int
      /\ plan.install.start + plan.install.length = InstallEnd(drive, sector)
      /\ plan.drive = drive
      /\ plan.beyond = IF drive > MBR_SECTORS * sector THEN drive - MBR_SECTORS * sector ELSE 0
  <2>1. /\ plan.boot = BootPart(bytes) /\ plan.install.start = End(BootPart(bytes))
        /\ plan.install.length = InstallEnd(drive, sector) - End(BootPart(bytes))
        /\ plan.drive = drive
        /\ plan.beyond = IF drive > MBR_SECTORS * sector THEN drive - MBR_SECTORS * sector ELSE 0
    BY <1>1 DEF Layout
  <2>2. /\ BootPart(bytes).start = ALIGN /\ BootPart(bytes).length \in Nat
        /\ InstallEnd(drive, sector) \in Int
    BY <1>2, <1>3, <1>4, Sizes
  <2>3. End(BootPart(bytes)) \in Int
    BY <1>7, <2>2 DEF End
  <2>4. QED
    BY <1>7, <2>1, <2>2, <2>3
<1>9. \A e \in {plan.boot, plan.install} : /\ e.start % ALIGN = 0 /\ e.length % ALIGN = 0
                                           /\ e.start > 0 /\ e.length > 0
  <2> TAKE e \in {plan.boot, plan.install}
  <2>1. /\ Whole(e.start, ALIGN) /\ Whole(e.length, ALIGN)
        /\ e.start >= ALIGN /\ e.length >= ALIGN
    BY <1>5 DEF PartitionsHold
  <2>2. e.start \in Int /\ e.length \in Int
    BY <1>8
  <2>3. QED
    BY <1>7, <2>1, <2>2, NoRest
<1>10. plan.install.length >= ImageOf(job.tree).bytes
  <2>1. plan.install.length \in Nat
    BY <1>8, <1>9
  <2>2. ImageOf(job.tree).bytes <= plan.install.length
    BY <1>1, <1>2, <1>4, <1>7, <2>1, InstallFits
  <2>3. ImageOf(job.tree).bytes \in Nat
    BY <1>1, <1>2, ImageIs DEF TreeEntry
  <2>4. QED
    BY <2>1, <2>2, <2>3
<1>11. plan.boot.length >= BootBytes(job.tree) + CLUSTER
  <2>1. plan.boot.length >= bytes
    BY <1>5 DEF PartitionsHold
  <2>2. BootBytes(job.tree) + CLUSTER \in Nat
    BY <1>3, TreeAssumption
  <2>3. QED
    BY <1>3, <1>8, <2>1, <2>2
<1>12. plan.drive - End(plan.install) < plan.beyond + ALIGN
  <2>1. End(plan.install) = InstallEnd(drive, sector)
    BY <1>8 DEF End
  <2>2. QED
    BY <1>2, <1>7, <1>8, <2>1, InstallEndIsFar
<1>13. /\ End(plan.boot) <= plan.install.start /\ End(plan.install) <= plan.drive
  BY <1>5, <1>8 DEF PartitionsHold
<1>14. \A k \in 1 .. 2 : k = 1 \/ k = 2
  OBVIOUS
<1>15. parts[1] = plan.boot /\ parts[2] = plan.install
  OBVIOUS
<1> HIDE DEF parts
<1>16. \A k \in 1 .. 2 : parts[k].start % ALIGN = 0 /\ parts[k].length % ALIGN = 0 /\ parts[k].length > 0
  BY <1>9, <1>14, <1>15
<1>17. \A k \in 1 .. 2 : /\ Mbr(plan)[k].first * plan.sector = parts[k].start
                         /\ Mbr(plan)[k].count * plan.sector = parts[k].length
  BY <1>6, <1>14, <1>15 DEF NamedExactly
<1>18. plan.boot.start > 0
  BY <1>9
<1>19. QED
  BY <1>10, <1>11, <1>12, <1>13, <1>16, <1>17, <1>18, Zenon DEF parts

\* For every tree that a source can give, every drive and every sector: where plan
\* gives a layout the partitions are whole mebibytes of the drive, do not meet and
\* hold what they are for, no mebibyte that the table can name is left over, and
\* the table names them without a bit lost (WindowsTree::plan, plan and mbr_bytes).
THEOREM LayoutHoldsAlways == Spec => []LayoutHolds
<1>1. QED
  BY InitPlanned, StepPlanned, PlannedLayoutHolds, PTL DEF Spec

----------------------------------------------------------------------------
(* The copy.                                                               *)

\* The head of a sequence and the rest of it have its elements.
LEMMA HeadAndTail ==
  ASSUME NEW S, NEW s \in Seq(S), s # <<>>
  PROVE  Head(s) \in S /\ Tail(s) \in Seq(S) /\ ToSet(s) = {Head(s)} \cup ToSet(Tail(s))
<1>1. /\ Len(s) \in Nat \ {0} /\ s \in [1 .. Len(s) -> S] /\ DOMAIN s = 1 .. Len(s)
      /\ Head(s) = s[1] /\ Tail(s) \in Seq(S) /\ Len(Tail(s)) = Len(s) - 1
      /\ \A i \in 1 .. Len(s) - 1 : Tail(s)[i] = s[i + 1]
  BY HeadTailProperties
<1>2. DOMAIN Tail(s) = 1 .. Len(s) - 1
  BY <1>1
<1>3. Head(s) \in S /\ Head(s) \in ToSet(s)
  <2>1. 1 \in 1 .. Len(s)
    BY <1>1
  <2>2. QED
    BY <1>1, <2>1 DEF ToSet
<1>4. ASSUME NEW x \in ToSet(Tail(s)) PROVE x \in ToSet(s)
  <2>1. PICK i \in 1 .. Len(s) - 1 : x = Tail(s)[i]
    BY <1>2, <1>4, Zenon DEF ToSet
  <2>2. i + 1 \in 1 .. Len(s) /\ x = s[i + 1]
    BY <1>1, <2>1
  <2>3. QED
    BY <1>1, <2>2, Zenon DEF ToSet
<1>5. ASSUME NEW x \in ToSet(s), x # Head(s) PROVE x \in ToSet(Tail(s))
  <2>1. PICK i \in 1 .. Len(s) : x = s[i]
    BY <1>1, <1>5, Zenon DEF ToSet
  <2>2. i - 1 \in 1 .. Len(s) - 1 /\ (i - 1) + 1 = i
    BY <1>1, <1>5, <2>1
  <2>3. x = Tail(s)[i - 1]
    BY <1>1, <2>1, <2>2
  <2>4. QED
    BY <1>2, <2>2, <2>3, Zenon DEF ToSet
<1>6. QED
  BY <1>1, <1>3, <1>4, <1>5

\* A sequence with one element more.
LEMMA InsertIs ==
  ASSUME NEW S, NEW s \in Seq(S), NEW p \in 1 .. Len(s) + 1, NEW e \in S
  PROVE  InsertAt(s, p, e) \in Seq(S) /\ ToSet(InsertAt(s, p, e)) = ToSet(s) \cup {e}
<1> DEFINE a == SubSeq(s, 1, p - 1)
           b == SubSeq(s, p, Len(s))
           c == <<e>>
<1>1. Len(s) \in Nat /\ s \in [1 .. Len(s) -> S] /\ DOMAIN s = 1 .. Len(s) /\ p \in Nat \ {0}
  OBVIOUS
<1>2. /\ a \in Seq(S) /\ Len(a) = p - 1 /\ \A i \in 1 .. p - 1 : a[i] = s[i]
  <2>1. /\ 1 \in Int /\ p - 1 \in Int /\ p - 1 <= Len(s)
        /\ \A i \in 1 .. p - 1 : i \in 1 .. Len(s)
    BY <1>1
  <2>2. a = [i \in 1 .. p - 1 |-> s[i]]
    BY <1>1
  <2>3. \A i \in 1 .. p - 1 : s[i] \in S
    BY <1>1, <2>1
  <2> HIDE DEF a
  <2>4. a \in [1 .. p - 1 -> S] /\ p - 1 \in Nat
    BY <1>1, <2>2, <2>3
  <2>5. QED
    BY <2>2, <2>4, RowIsSeq
<1>3. /\ b \in Seq(S) /\ Len(b) = Len(s) - p + 1
      /\ \A i \in 1 .. Len(s) - p + 1 : b[i] = s[p + i - 1]
  <2>1. \A i \in 1 .. Len(s) - p + 1 : p + i - 1 \in 1 .. Len(s)
    BY <1>1
  <2>2. b = [i \in 1 .. Len(s) - p + 1 |-> s[p + i - 1]]
    BY <1>1
  <2>3. \A i \in 1 .. Len(s) - p + 1 : s[p + i - 1] \in S
    BY <1>1, <2>1
  <2> HIDE DEF b
  <2>4. b \in [1 .. Len(s) - p + 1 -> S] /\ Len(s) - p + 1 \in Nat
    BY <1>1, <2>2, <2>3
  <2>5. QED
    BY <2>2, <2>4, RowIsSeq
<1>4. c \in Seq(S) /\ ToSet(c) = {e}
  BY DEF ToSet
<1>5. InsertAt(s, p, e) = (a \o c) \o b
  BY DEF InsertAt
<1> HIDE DEF a, b, c
<1>6. a \o c \in Seq(S) /\ (a \o c) \o b \in Seq(S)
  BY <1>2, <1>3, <1>4
<1>7. ToSet((a \o c) \o b) = (ToSet(a) \cup {e}) \cup ToSet(b)
  <2>1. ToSet(a \o c) = ToSet(a) \cup ToSet(c)
    BY <1>2, <1>4, ElementsOfBoth
  <2>2. ToSet((a \o c) \o b) = ToSet(a \o c) \cup ToSet(b)
    BY <1>3, <1>6, ElementsOfBoth
  <2>3. QED
    BY <1>4, <2>1, <2>2
<1>8. DOMAIN a = 1 .. p - 1 /\ DOMAIN b = 1 .. Len(s) - p + 1
  BY <1>1, <1>2, <1>3
<1>9. ASSUME NEW x \in ToSet(a) PROVE x \in ToSet(s)
  <2>1. PICK i \in 1 .. p - 1 : x = a[i]
    BY <1>8, <1>9, Zenon DEF ToSet
  <2>2. i \in 1 .. Len(s) /\ x = s[i]
    BY <1>1, <1>2, <2>1
  <2>3. QED
    BY <1>1, <2>2, Zenon DEF ToSet
<1>10. ASSUME NEW x \in ToSet(b) PROVE x \in ToSet(s)
  <2>1. PICK i \in 1 .. Len(s) - p + 1 : x = b[i]
    BY <1>8, <1>10, Zenon DEF ToSet
  <2>2. p + i - 1 \in 1 .. Len(s) /\ x = s[p + i - 1]
    BY <1>1, <1>3, <2>1
  <2>3. QED
    BY <1>1, <2>2, Zenon DEF ToSet
<1>11. ASSUME NEW x \in ToSet(s) PROVE x \in ToSet(a) \cup ToSet(b)
  <2>1. PICK i \in 1 .. Len(s) : x = s[i]
    BY <1>1, <1>11, Zenon DEF ToSet
  <2>2. CASE i < p
    <3>1. i \in 1 .. p - 1 /\ x = a[i]
      BY <1>1, <1>2, <2>1, <2>2
    <3>2. QED
      BY <1>8, <3>1, Zenon DEF ToSet
  <2>3. CASE ~(i < p)
    <3>1. i - p + 1 \in 1 .. Len(s) - p + 1 /\ p + (i - p + 1) - 1 = i
      BY <1>1, <2>3
    <3>2. x = b[i - p + 1]
      BY <1>3, <2>1, <3>1
    <3>3. QED
      BY <1>8, <3>1, <3>2, Zenon DEF ToSet
  <2>4. QED
    BY <2>2, <2>3
<1>12. QED
  BY <1>5, <1>6, <1>7, <1>9, <1>10, <1>11

LEMMA AnswerIs ==
  /\ Answer \in TreeEntry /\ ~Answer.dir /\ UNATTEND \in Seq(TreeNames) \ {<<>>}
  /\ Fold(UNATTEND) = UNATTEND
<1>1. PICK name \in TreeNames : UNATTEND = <<name>> /\ Up[name] = name
  BY PathAssumption
<1>2. UNATTEND \in Seq(TreeNames) /\ UNATTEND # <<>>
  BY <1>1
<1>3. Answer \in TreeEntry /\ ~Answer.dir
  BY <1>2, TreeAssumption DEF Answer, TreeEntry
<1>4. Fold(<<name>>) = <<name>>
  <2>1. DOMAIN <<name>> = {1} /\ <<name>>[1] = name
    OBVIOUS
  <2>2. Fold(<<name>>) = [k \in {1} |-> name]
    BY <1>1, <2>1 DEF Fold
  <2>3. <<name>> = [k \in {1} |-> name]
    OBVIOUS
  <2>4. QED
    BY <2>2, <2>3
<1>5. QED
  BY <1>1, <1>2, <1>3, <1>4

\* Wherever the answer file goes in, the entries are those of partition 1.
LEMMA BootSourceIs ==
  ASSUME Planned, NEW entries \in BootSource(job.tree)
  PROVE  entries \in Seq(TreeEntry) /\ ToSet(entries) = Wanted
<1> DEFINE boot == BootEntries(job.tree)
<1>1. job.tree \in Seq(TreeEntry)
  BY JobsAssumption DEF Planned, TreeEntry
<1>2. boot \in Seq(TreeEntry)
  BY <1>1, BootEntriesAre
<1>3. PICK p \in 1 .. Len(boot) + 1 : entries = InsertAt(boot, p, Answer)
  BY Zenon DEF BootSource, Answer
<1>4. /\ InsertAt(boot, p, Answer) \in Seq(TreeEntry)
      /\ ToSet(InsertAt(boot, p, Answer)) = ToSet(boot) \cup {Answer}
  <2> HIDE DEF boot
  <2>1. QED
    BY <1>2, AnswerIs, InsertIs
<1>5. QED
  BY <1>3, <1>4 DEF Wanted

LEMMA PartsOfBoth ==
  ASSUME NEW A, NEW e
  PROVE  /\ FilesOf({e} \cup A) = FilesOf(A) \cup (IF e.dir THEN {} ELSE {Kept(e)})
         /\ DirsOf({e} \cup A) = DirsOf(A) \cup (IF e.dir THEN {e.path} ELSE {})
<1>1. CASE e.dir
  BY <1>1 DEF FilesOf, DirsOf
<1>2. CASE ~e.dir
  BY <1>2 DEF FilesOf, DirsOf
<1>3. QED
  BY <1>1, <1>2

\* A new directory, with a path and a cluster that no other has.
LEMMA NewDirHolds ==
  ASSUME DirsHold, NEW path \in Seq(TreeNames) \ {<<>>}, NEW cluster \in Nat, NEW head,
         \A d \in volume.dirs : d.path # path /\ d.cluster < cluster,
         volume'.dirs = volume.dirs \cup {[path |-> path, cluster |-> cluster, head |-> head]}
  PROVE  DirsHold' /\ Cardinality(volume'.dirs) = Cardinality(volume.dirs) + 1
<1> DEFINE new == [path |-> path, cluster |-> cluster, head |-> head]
           dirs == volume.dirs
<1>1. /\ IsFiniteSet(dirs) /\ Root \in dirs
      /\ \A d \in dirs :
           /\ DOMAIN d = {"path", "cluster", "head"}
           /\ d.path \in Seq(TreeNames) /\ (d.path = <<>> => d = Root)
           /\ d.cluster \in Nat
      /\ \A a, b \in dirs : a.path = b.path \/ a.cluster = b.cluster => a = b
  BY DEF DirsHold
<1>2. new.path = path /\ new.cluster = cluster /\ DOMAIN new = {"path", "cluster", "head"}
  OBVIOUS
<1>3. volume'.dirs = dirs \cup {new} /\ \A d \in dirs : d.path # path /\ d.cluster < cluster
  OBVIOUS
<1> HIDE DEF new, dirs
<1>4. new \notin dirs
  BY <1>2, <1>3
<1>5. IsFiniteSet(dirs \cup {new}) /\ Cardinality(dirs \cup {new}) = Cardinality(dirs) + 1
  BY <1>1, <1>4, FS_AddElement
<1>6. \A d \in dirs \cup {new} :
        /\ DOMAIN d = {"path", "cluster", "head"}
        /\ d.path \in Seq(TreeNames) /\ (d.path = <<>> => d = Root)
        /\ d.cluster \in Nat
  BY <1>1, <1>2
<1>7. \A a, b \in dirs \cup {new} : a.path = b.path \/ a.cluster = b.cluster => a = b
  <2>1. \A d \in dirs : d.path # new.path /\ d.cluster # new.cluster
    BY <1>1, <1>2, <1>3
  <2>2. QED
    BY <1>1, <2>1
<1>8. QED
  BY <1>1, <1>3, <1>5, <1>6, <1>7 DEF DirsHold, dirs

LEMMA InitCopies == Init => Copies
<1> SUFFICES ASSUME Init PROVE Copies
  OBVIOUS
<1>1. /\ volume = [clusterBytes |-> 0, free |-> 0, dirs |-> {}, files |-> {}]
      /\ copy = [pc |-> "format", todo |-> <<>>, file |-> <<>>, left |-> 0, result |-> "none",
                 pending |-> <<>>]
  BY DEF Init, CopyInit
<1>2. QED
  BY <1>1 DEF Copies

\* A copy that ends with an error.
LEMMA FailCopies ==
  ASSUME Copies, NEW why, why # "Ok", Fail(why), UNCHANGED volume
  PROVE  Copies'
<1>1. copy' = [copy EXCEPT !.pc = "end", !.result = why]
  BY DEF Fail
<1>2. DOMAIN copy = {"pc", "todo", "file", "left", "result", "pending"}
  BY DEF Copies
<1>3. DOMAIN copy' = DOMAIN copy /\ copy'.pc = "end" /\ copy'.result = why
  BY <1>1, <1>2
<1>4. /\ DOMAIN volume' = {"clusterBytes", "free", "dirs", "files"}
      /\ \A file \in volume'.files : file.done = file.bytes
  BY DEF Copies
<1>5. QED
  BY <1>2, <1>3, <1>4 DEF Copies

\* A step of another part.
LEMMA StillCopies ==
  ASSUME Copies, UNCHANGED <<job, volume, copy>>
  PROVE  Copies'
<1>1. Wanted' = Wanted /\ (DirsHold' <=> DirsHold) /\ Current' = Current
  BY DEF Wanted, DirsHold, Current
<1>2. QED
  BY <1>1 DEF Copies

LEMMA FormatCopies ==
  ASSUME Planned, Copies, Format
  PROVE  Copies'
<1>1. /\ copy.pc = "format" /\ UNCHANGED job
      /\ copy.result = "none" /\ DOMAIN copy = {"pc", "todo", "file", "left", "result", "pending"}
      /\ DOMAIN volume = {"clusterBytes", "free", "dirs", "files"}
  BY DEF Format, Copying, treeVars, Copies
<1>2. ASSUME Fail("PartitionTooSmall"), UNCHANGED volume PROVE Copies'
  BY <1>2, FailCopies
<1>3. ASSUME NEW entries \in BootSource(job.tree), NEW bytes, NEW free,
             volume' = [clusterBytes |-> bytes, dirs |-> {Root}, files |-> {}, free |-> free],
             Fail("FileTooLarge") \/ copy' = [copy EXCEPT !.pc = "copy", !.todo = entries]
      PROVE  Copies'
  <2>1. /\ DOMAIN volume' = {"clusterBytes", "free", "dirs", "files"}
        /\ volume'.dirs = {Root} /\ volume'.files = {}
    BY <1>1, <1>3
  <2>2. CASE Fail("FileTooLarge")
    <3>1. /\ DOMAIN copy' = {"pc", "todo", "file", "left", "result", "pending"}
          /\ copy'.pc = "end" /\ copy'.result = "FileTooLarge"
      BY <1>1, <2>2 DEF Fail
    <3>2. QED
      BY <2>1, <3>1 DEF Copies
  <2>3. CASE copy' = [copy EXCEPT !.pc = "copy", !.todo = entries]
    <3>1. /\ DOMAIN copy' = {"pc", "todo", "file", "left", "result", "pending"}
          /\ copy'.pc = "copy" /\ copy'.result = "none" /\ copy'.todo = entries
      BY <1>1, <2>3
    <3>2. entries \in Seq(TreeEntry) /\ ToSet(entries) = Wanted
      BY BootSourceIs
    <3>3. Root.path = <<>> /\ Root.cluster = RootCluster /\ DOMAIN Root = {"path", "cluster", "head"}
      BY DEF Root
    <3>4. IsFiniteSet({Root}) /\ Cardinality({Root}) = 1
      BY FS_Singleton
    <3>5. DirsHold'
      <4>1. <<>> \in Seq(TreeNames) /\ RootCluster \in Nat
        BY DEF RootCluster
      <4>2. QED
        BY <2>1, <3>3, <3>4, <4>1 DEF DirsHold
    <3>6. Wanted' = Wanted
      BY <1>1 DEF Wanted
    <3>7. \A d \in volume'.dirs : d.cluster < RootCluster + Cardinality(volume'.dirs)
      BY <2>1, <3>3, <3>4 DEF RootCluster
    <3>8. /\ volume'.files \cup FilesOf(ToSet(copy'.todo)) \cup {} = FilesOf(Wanted)
          /\ {d.path : d \in volume'.dirs} \cup DirsOf(ToSet(copy'.todo)) = {<<>>} \cup DirsOf(Wanted)
      <4>1. {d.path : d \in {Root}} = {<<>>}
        BY <3>3
      <4>2. QED
        BY <2>1, <3>1, <3>2, <4>1
    <3>9. copy'.todo \in Seq(TreeEntry)
      BY <3>1, <3>2
    <3>10. QED
      BY <2>1, <3>1, <3>5, <3>6, <3>7, <3>8, <3>9 DEF Copies
  <2>4. QED
    BY <1>3, <2>2, <2>3
<1>4. PICK plan \in layout, entries \in BootSource(job.tree) :
        LET sectors == plan.boot.length \div plan.sector
            size    == Fat32ClusterBytes(sectors, plan.sector)
            tooLarge == \E i \in 1 .. Len(entries) :
                          ~entries[i].dir /\ entries[i].bytes > MAX_FAT32_FILE_BYTES
        IN  \/ (size = {} \/ sectors > U32) /\ Fail("PartitionTooSmall") /\ UNCHANGED volume
            \/ \E bytes \in size :
                 /\ sectors <= U32
                 /\ volume' = [clusterBytes |-> bytes, dirs |-> {Root}, files |-> {},
                      free |-> Fat32Clusters(sectors, plan.sector, bytes \div plan.sector) - 1]
                 /\ IF tooLarge THEN Fail("FileTooLarge")
                    ELSE copy' = [copy EXCEPT !.pc = "copy", !.todo = entries]
  BY Zenon DEF Format
<1>5. QED
  BY <1>2, <1>3, <1>4

\* What an entry of the tree becomes moves from the ones to come to the volume.
LEMMA CopyEntryCopies ==
  ASSUME Copies, CopyEntry
  PROVE  Copies'
<1> DEFINE e    == Head(copy.todo)
           new  == RootCluster + Cardinality(volume.dirs)
           next == [copy EXCEPT !.todo = Tail(@)]
           takes == Grows(e) + (IF e.dir THEN 1 ELSE 0)
           above == {d \in volume.dirs : Fold(d.path) = Fold(ParentOf(e))}
<1>1. /\ copy.pc = "copy" /\ UNCHANGED job /\ copy.todo # <<>>
      /\ copy.result = "none" /\ DOMAIN copy = {"pc", "todo", "file", "left", "result", "pending"}
      /\ DOMAIN volume = {"clusterBytes", "free", "dirs", "files"}
      /\ copy.todo \in Seq(TreeEntry) /\ DirsHold
      /\ volume.files \cup FilesOf(ToSet(copy.todo)) = FilesOf(Wanted)
      /\ {d.path : d \in volume.dirs} \cup DirsOf(ToSet(copy.todo)) = {<<>>} \cup DirsOf(Wanted)
      /\ \A file \in volume.files : file.done = file.bytes
      /\ \A d \in volume.dirs : d.cluster < RootCluster + Cardinality(volume.dirs)
  <2>1. copy.pc = "copy" /\ UNCHANGED job /\ copy.todo # <<>>
    BY DEF CopyEntry, Copying, treeVars
  <2>2. copy.pc # "stream" /\ copy.pc # "end" /\ copy.pc \in {"copy", "stream", "repair"}
        /\ copy.pc \in {"copy", "stream"}
    BY <2>1
  <2>3. \A S : S \cup {} = S
    OBVIOUS
  <2>4. volume.files \cup FilesOf(ToSet(copy.todo)) = FilesOf(Wanted)
    BY <2>2, <2>3 DEF Copies
  <2>5. QED
    BY <2>1, <2>2, <2>4, Zenon DEF Copies
<1>2. e \in TreeEntry /\ Tail(copy.todo) \in Seq(TreeEntry) /\ ToSet(copy.todo) = {e} \cup ToSet(Tail(copy.todo))
  BY <1>1, HeadAndTail
<1>3. /\ FilesOf(ToSet(copy.todo)) = FilesOf(ToSet(Tail(copy.todo))) \cup (IF e.dir THEN {} ELSE {Kept(e)})
      /\ DirsOf(ToSet(copy.todo)) = DirsOf(ToSet(Tail(copy.todo))) \cup (IF e.dir THEN {e.path} ELSE {})
  BY <1>2, PartsOfBoth, Zenon
<1>4. Wanted' = Wanted
  BY <1>1 DEF Wanted
<1>5. ASSUME Fail("CannotCopy") \/ Fail("Full"), UNCHANGED volume PROVE Copies'
  BY <1>5, FailCopies
<1>6. ASSUME e.dir, ~SecondName(e), NEW d \in volume.dirs,
             volume' = [volume EXCEPT !.free = @ - takes, !.dirs = @ \cup
               {[path |-> e.path, cluster |-> new, head |-> NewHead(new, d.cluster)]}],
             copy' = next
      PROVE  Copies'
  <2>1. /\ DOMAIN copy' = DOMAIN copy /\ copy'.pc = "copy" /\ copy'.result = "none"
        /\ copy'.todo = Tail(copy.todo)
    BY <1>1, <1>6
  <2>2. /\ DOMAIN volume' = DOMAIN volume /\ volume'.files = volume.files
        /\ volume'.dirs = volume.dirs \cup
             {[path |-> e.path, cluster |-> new, head |-> NewHead(new, d.cluster)]}
    BY <1>1, <1>6
  <2>3. e.path \in Seq(TreeNames) \ {<<>>}
    BY <1>2 DEF TreeEntry
  <2>4. new \in Nat /\ \A x \in volume.dirs : x.cluster < new
    <3>1. IsFiniteSet(volume.dirs)
      BY <1>1 DEF DirsHold
    <3>2. Cardinality(volume.dirs) \in Nat
      BY <3>1, FS_CardinalityType
    <3>3. QED
      BY <1>1, <3>2 DEF RootCluster
  <2>5. \A x \in volume.dirs : x.path # e.path
    <3>1. SUFFICES ASSUME NEW x \in volume.dirs, x.path = e.path PROVE FALSE
      OBVIOUS
    <3>2. x \in Names(e.path, ParentOf(e)) /\ NameOf(x) = NameOf(e)
      BY <2>3, <3>1 DEF Names, ParentOf, NameOf
    <3>3. QED
      BY <1>6, <3>2 DEF SecondName
  <2> DEFINE head == NewHead(new, d.cluster)
             dir  == [path |-> e.path, cluster |-> new, head |-> head]
  <2>new. volume'.dirs = volume.dirs \cup {dir} /\ dir.path = e.path /\ dir.cluster = new
    BY <2>2
  <2> HIDE DEF head, new, e
  <2>6. DirsHold' /\ Cardinality(volume'.dirs) = Cardinality(volume.dirs) + 1
    <3>1. volume'.dirs = volume.dirs \cup {[path |-> e.path, cluster |-> new, head |-> head]}
      BY <2>new
    <3>2. QED
      BY <1>1, <2>3, <2>4, <2>5, <3>1, NewDirHolds
  <2> HIDE DEF dir
  <2>7. \A x \in volume'.dirs : x.cluster < RootCluster + Cardinality(volume'.dirs)
    <3>1. Cardinality(volume.dirs) \in Nat
      BY <1>1, FS_CardinalityType DEF DirsHold
    <3>2. RootCluster + Cardinality(volume'.dirs) = new + 1
      BY <2>6, <3>1 DEF RootCluster, new
    <3>3. \A x \in volume'.dirs : x \in volume.dirs \/ x.cluster = new
      BY <2>new
    <3>4. \A x \in volume.dirs : x.cluster \in Nat
      BY <1>1 DEF DirsHold
    <3>5. QED
      BY <2>4, <3>2, <3>3, <3>4
  <2>8. {x.path : x \in volume'.dirs} = {x.path : x \in volume.dirs} \cup {e.path}
    BY <2>new
  <2>9. /\ volume'.files \cup FilesOf(ToSet(copy'.todo)) \cup {} = FilesOf(Wanted)
        /\ {x.path : x \in volume'.dirs} \cup DirsOf(ToSet(copy'.todo)) = {<<>>} \cup DirsOf(Wanted)
    <3>1. /\ FilesOf(ToSet(copy.todo)) = FilesOf(ToSet(Tail(copy.todo)))
          /\ DirsOf(ToSet(copy.todo)) = DirsOf(ToSet(Tail(copy.todo))) \cup {e.path}
      BY <1>3, <1>6
    <3>2. QED
      BY <1>1, <2>1, <2>2, <2>8, <3>1
  <2>10. QED
    BY <1>1, <1>2, <1>4, <2>1, <2>2, <2>6, <2>7, <2>9 DEF Copies
<1>7. ASSUME ~e.dir, NEW gives, volume' = [volume EXCEPT !.free = @ - takes],
             copy' = [next EXCEPT !.pc = "stream", !.left = gives,
                        !.file = <<[path |-> e.path, bytes |-> e.bytes, done |-> 0]>>]
      PROVE  Copies'
  <2> DEFINE now == [path |-> e.path, bytes |-> e.bytes, done |-> 0]
  <2>1. /\ DOMAIN copy' = DOMAIN copy /\ copy'.pc = "stream" /\ copy'.result = "none"
        /\ copy'.todo = Tail(copy.todo) /\ copy'.file = <<now>>
    BY <1>1, <1>7
  <2>2. Current' = now /\ Kept(now) = Kept(e)
    <3>1. <<now>>[1] = now
      OBVIOUS
    <3>2. now.path = e.path /\ now.bytes = e.bytes
      OBVIOUS
    <3> HIDE DEF now
    <3>3. QED
      BY <2>1, <3>1, <3>2 DEF Current, Kept
  <2>4. /\ DirsHold' /\ DOMAIN volume' = DOMAIN volume
        /\ volume'.dirs = volume.dirs /\ volume'.files = volume.files
    <3>1. /\ DOMAIN volume' = DOMAIN volume
          /\ volume'.dirs = volume.dirs /\ volume'.files = volume.files
      BY <1>1, <1>7
    <3>2. QED
      BY <1>1, <3>1 DEF DirsHold
  <2>3. /\ volume'.files \cup FilesOf(ToSet(copy'.todo)) \cup {Kept(Current')} = FilesOf(Wanted)
        /\ {x.path : x \in volume'.dirs} \cup DirsOf(ToSet(copy'.todo)) = {<<>>} \cup DirsOf(Wanted)
    <3>1. /\ FilesOf(ToSet(copy.todo)) = FilesOf(ToSet(Tail(copy.todo))) \cup {Kept(e)}
          /\ DirsOf(ToSet(copy.todo)) = DirsOf(ToSet(Tail(copy.todo)))
      BY <1>3, <1>7
    <3>2. QED
      BY <1>1, <2>1, <2>2, <2>4, <3>1
  <2>5. \E path, bytes, done : copy'.file = <<[path |-> path, bytes |-> bytes, done |-> done]>>
    BY <2>1
  <2> HIDE DEF now
  <2>6. QED
    BY <1>1, <1>2, <1>4, <2>1, <2>3, <2>4, <2>5 DEF Copies
<1>8. \/ (above = {} \/ SecondName(e)) /\ Fail("CannotCopy") /\ UNCHANGED volume
      \/ Fail("Full") /\ UNCHANGED volume
      \/ /\ above # {} /\ ~SecondName(e) /\ e.dir
         /\ \E d \in above :
              /\ volume' = [volume EXCEPT !.free = @ - takes, !.dirs = @ \cup
                   {[path |-> e.path, cluster |-> new, head |-> NewHead(new, d.cluster)]}]
              /\ copy' = next
      \/ /\ ~e.dir
         /\ \E gives :
              copy' = [next EXCEPT !.pc = "stream", !.left = gives,
                         !.file = <<[path |-> e.path, bytes |-> e.bytes, done |-> 0]>>]
         /\ volume' = [volume EXCEPT !.free = @ - takes]
  BY Zenon DEF CopyEntry
<1>9. \A d \in above : d \in volume.dirs
  OBVIOUS
<1> HIDE DEF e, next, above, new, takes
<1>10. QED
  BY <1>5, <1>6, <1>7, <1>8, <1>9

\* A chunk goes onto the volume, or the file ends and is what the tree said.
LEMMA StreamCopies ==
  ASSUME Copies, Stream
  PROVE  Copies'
<1>1. /\ copy.pc = "stream" /\ UNCHANGED job
      /\ copy.result = "none" /\ DOMAIN copy = {"pc", "todo", "file", "left", "result", "pending"}
      /\ DOMAIN volume = {"clusterBytes", "free", "dirs", "files"}
      /\ copy.todo \in Seq(TreeEntry) /\ DirsHold
      /\ volume.files \cup FilesOf(ToSet(copy.todo)) \cup {Kept(Current)} = FilesOf(Wanted)
      /\ {d.path : d \in volume.dirs} \cup DirsOf(ToSet(copy.todo)) = {<<>>} \cup DirsOf(Wanted)
      /\ \A file \in volume.files : file.done = file.bytes
      /\ \A d \in volume.dirs : d.cluster < RootCluster + Cardinality(volume.dirs)
  <2>1. copy.pc = "stream" /\ UNCHANGED job
    BY DEF Stream, Copying, treeVars
  <2>2. copy.pc # "end" /\ copy.pc \in {"copy", "stream", "repair"} /\ copy.pc \in {"copy", "stream"}
    BY <2>1
  <2>3. QED
    BY <2>1, <2>2 DEF Copies
<1>2. PICK path, bytes, done : copy.file = <<[path |-> path, bytes |-> bytes, done |-> done]>>
  BY <1>1, Zenon DEF Copies
<1> DEFINE now == [path |-> path, bytes |-> bytes, done |-> done]
<1>3. Current = now
  BY <1>2 DEF Current
<1>4. Wanted' = Wanted
  BY <1>1 DEF Wanted
<1>5. ASSUME Fail("Source") \/ Fail("Full"), UNCHANGED volume PROVE Copies'
  BY <1>5, FailCopies
<1>6. ASSUME NEW n, NEW left, NEW free,
             volume' = [volume EXCEPT !.free = free],
             copy' = [copy EXCEPT !.left = left, !.file[1].done = @ + n]
      PROVE  Copies'
  <2> DEFINE then == [path |-> path, bytes |-> bytes, done |-> done + n]
  <2>1. /\ DOMAIN copy' = DOMAIN copy /\ copy'.pc = "stream" /\ copy'.result = "none"
        /\ copy'.todo = copy.todo /\ copy'.file = [copy.file EXCEPT ![1].done = @ + n]
    BY <1>1, <1>6
  <2>2. copy'.file = <<then>>
    BY <1>2, <2>1
  <2>3. /\ DOMAIN volume' = DOMAIN volume /\ volume'.dirs = volume.dirs /\ volume'.files = volume.files
    BY <1>1, <1>6
  <2>4. Current' = then /\ Kept(then) = Kept(now)
    BY <2>2 DEF Current, Kept
  <2>5. DirsHold'
    BY <1>1, <2>3 DEF DirsHold
  <2>6. volume'.files \cup FilesOf(ToSet(copy'.todo)) \cup {Kept(Current')} = FilesOf(Wanted)
    BY <1>1, <1>3, <2>1, <2>3, <2>4
  <2>7. \E a, b, c : copy'.file = <<[path |-> a, bytes |-> b, done |-> c]>>
    BY <2>2
  <2> HIDE DEF then, now
  <2>8. QED
    BY <1>1, <1>4, <2>1, <2>3, <2>5, <2>6, <2>7 DEF Copies
<1>7. ASSUME Current.done = Current.bytes, Keep(Current) PROVE Copies'
  <2>1. Current = Kept(Current)
    BY <1>3, <1>7 DEF Kept
  <2>2. /\ volume' = [volume EXCEPT !.files = @ \cup {Current}]
        /\ copy' = [copy EXCEPT !.pc = "copy", !.file = <<>>]
    BY <1>7 DEF Keep
  <2> HIDE DEF now
  <2>3. /\ DOMAIN copy' = DOMAIN copy /\ copy'.pc = "copy" /\ copy'.result = "none"
        /\ copy'.todo = copy.todo
    BY <1>1, <2>2
  <2>4. /\ DOMAIN volume' = DOMAIN volume /\ volume'.dirs = volume.dirs
        /\ volume'.files = volume.files \cup {Current}
    BY <1>1, <2>2
  <2>5. DirsHold'
    BY <1>1, <2>4 DEF DirsHold
  <2>6. volume'.files \cup FilesOf(ToSet(copy'.todo)) \cup {} = FilesOf(Wanted)
    BY <1>1, <2>1, <2>3, <2>4
  <2>7. \A file \in volume'.files : file.done = file.bytes
    BY <1>1, <1>7, <2>4
  <2>8. QED
    BY <1>1, <1>4, <2>3, <2>4, <2>5, <2>6, <2>7 DEF Copies
<1>8. \/ (Fail("Source") \/ Fail("Full")) /\ UNCHANGED volume
      \/ \E n, left, free :
           /\ volume' = [volume EXCEPT !.free = free]
           /\ copy' = [copy EXCEPT !.left = left, !.file[1].done = @ + n]
      \/ Current.done = Current.bytes /\ Keep(Current)
  BY Zenon DEF Stream
<1> HIDE DEF now
<1>9. QED
  BY <1>5, <1>6, <1>7, <1>8

\* What one turn of the repair makes of a directory.
Turned(subs, above, d) == IF d \in subs THEN Repaired(d, above) ELSE d

\* A turn keeps the path and the cluster of each directory.
LEMMA TurnKeeps ==
  ASSUME DirsHold, NEW subs \in SUBSET volume.dirs, NEW above, Root \notin subs,
         volume'.dirs = (volume.dirs \ subs) \cup {Repaired(d, above) : d \in subs}
  PROVE  /\ volume'.dirs = {Turned(subs, above, d) : d \in volume.dirs}
         /\ \A d \in volume.dirs : /\ Turned(subs, above, d).path = d.path
                                   /\ Turned(subs, above, d).cluster = d.cluster
         /\ DirsHold'
         /\ {d.path : d \in volume'.dirs} = {d.path : d \in volume.dirs}
<1> DEFINE M(d) == Turned(subs, above, d)
           dirs == volume.dirs
<1>1. /\ IsFiniteSet(dirs) /\ Root \in dirs
      /\ \A d \in dirs :
           /\ DOMAIN d = {"path", "cluster", "head"}
           /\ d.path \in Seq(TreeNames) /\ (d.path = <<>> => d = Root)
           /\ d.cluster \in Nat
      /\ \A a, b \in dirs : a.path = b.path \/ a.cluster = b.cluster => a = b
  BY DEF DirsHold
<1>2. \A d \in dirs : /\ M(d).path = d.path /\ M(d).cluster = d.cluster
                      /\ DOMAIN M(d) = {"path", "cluster", "head"}
  <2> TAKE d \in dirs
  <2>1. CASE d \in subs
    <3>1. M(d) = Repaired(d, above)
      BY <2>1 DEF Turned
    <3>2. PICK head : Repaired(d, above) = [d EXCEPT !.head = head]
      BY DEF Repaired
    <3>3. DOMAIN d = {"path", "cluster", "head"}
      BY <1>1
    <3> HIDE DEF M
    <3>4. QED
      BY <3>1, <3>2, <3>3
  <2>2. CASE d \notin subs
    BY <1>1, <2>2 DEF Turned
  <2>3. QED
    BY <2>1, <2>2
<1>3. volume'.dirs = {M(d) : d \in dirs}
  <2>1. volume'.dirs = (dirs \ subs) \cup {Repaired(d, above) : d \in subs}
    OBVIOUS
  <2>2. \A d \in subs : M(d) = Repaired(d, above) /\ d \in dirs
    BY DEF Turned
  <2>3. \A d \in dirs \ subs : M(d) = d
    BY DEF Turned
  <2> HIDE DEF M, dirs
  <2>4. QED
    BY <2>1, <2>2, <2>3
<1>4. M(Root) = Root
  BY DEF Turned
<1> HIDE DEF M, dirs
<1>5. DirsHold'
  <2>1. IsFiniteSet(volume'.dirs)
    <3> DEFINE f == [d \in dirs |-> M(d)]
    <3>1. f \in Surjection(dirs, volume'.dirs)
      BY <1>3 DEF Surjection
    <3> HIDE DEF f
    <3>2. QED
      BY <1>1, <3>1, FS_Surjection
  <2>2. Root \in volume'.dirs
    BY <1>1, <1>3, <1>4
  <2>3. ASSUME NEW x \in volume'.dirs
        PROVE  /\ DOMAIN x = {"path", "cluster", "head"}
               /\ x.path \in Seq(TreeNames) /\ (x.path = <<>> => x = Root)
               /\ x.cluster \in Nat
    <3>1. PICK d \in dirs : x = M(d)
      BY <1>3
    <3>2. d.path = <<>> => d = Root
      BY <1>1
    <3>3. QED
      BY <1>1, <1>2, <1>4, <3>1, <3>2
  <2>4. ASSUME NEW x \in volume'.dirs, NEW y \in volume'.dirs, x.path = y.path \/ x.cluster = y.cluster
        PROVE  x = y
    <3>1. PICK a \in dirs : x = M(a)
      BY <1>3
    <3>2. PICK b \in dirs : y = M(b)
      BY <1>3
    <3>3. a.path = b.path \/ a.cluster = b.cluster
      BY <1>2, <2>4, <3>1, <3>2
    <3>4. QED
      BY <1>1, <3>1, <3>2, <3>3
  <2>5. QED
    BY <2>1, <2>2, <2>3, <2>4 DEF DirsHold
<1>6. {d.path : d \in volume'.dirs} = {d.path : d \in dirs}
  BY <1>2, <1>3
<1>7. QED
  BY <1>2, <1>3, <1>5, <1>6 DEF M, dirs

LEMMA RepairDirCopies ==
  ASSUME Copies, RepairDir
  PROVE  Copies'
<1> DEFINE top  == Last(copy.pending)
           subs == Subdirectories(top.dir)
<1>1. /\ copy.pc = "repair" /\ UNCHANGED job
      /\ volume' = [volume EXCEPT !.dirs = (@ \ subs) \cup {Repaired(d, top.above) : d \in subs}]
      /\ \E pending : copy' = [copy EXCEPT !.pending = pending]
  BY DEF RepairDir, Copying, treeVars
<1>2. /\ copy.result = "none" /\ DOMAIN copy = {"pc", "todo", "file", "left", "result", "pending"}
      /\ DOMAIN volume = {"clusterBytes", "free", "dirs", "files"}
      /\ copy.todo = <<>> /\ copy.todo \in Seq(TreeEntry) /\ DirsHold
      /\ volume.files \cup FilesOf(ToSet(copy.todo)) \cup {} = FilesOf(Wanted)
      /\ {d.path : d \in volume.dirs} \cup DirsOf(ToSet(copy.todo)) = {<<>>} \cup DirsOf(Wanted)
      /\ \A file \in volume.files : file.done = file.bytes
  <2>1. copy.pc # "end" /\ copy.pc \in {"copy", "stream", "repair"} /\ copy.pc # "stream"
    BY <1>1
  <2>2. QED
    BY <1>1, <2>1 DEF Copies
<1>3. /\ DOMAIN copy' = DOMAIN copy /\ copy'.pc = "repair" /\ copy'.result = "none"
      /\ copy'.todo = copy.todo
  BY <1>1, <1>2
<1>4. /\ DOMAIN volume' = DOMAIN volume /\ volume'.files = volume.files
      /\ volume'.dirs = (volume.dirs \ subs) \cup {Repaired(d, top.above) : d \in subs}
  BY <1>1, <1>2
<1>5. subs \subseteq volume.dirs /\ Root \notin subs
  BY DEF Subdirectories, Root
<1> HIDE DEF subs, top
<1>6. DirsHold' /\ {d.path : d \in volume'.dirs} = {d.path : d \in volume.dirs}
  <2> DEFINE above == top.above
  <2>1. volume'.dirs = (volume.dirs \ subs) \cup {Repaired(d, above) : d \in subs}
    BY <1>4
  <2> HIDE DEF above
  <2>2. DirsHold /\ subs \in SUBSET volume.dirs /\ Root \notin subs
    BY <1>2, <1>5
  <2>3. QED
    BY <2>1, <2>2, TurnKeeps, Zenon
<1>7. Wanted' = Wanted
  BY <1>1 DEF Wanted
<1>8. QED
  BY <1>2, <1>3, <1>4, <1>6, <1>7 DEF Copies

\* The steps that leave the volume alone: the start and the end of the repair.
LEMMA EndsCopies ==
  ASSUME Copies, StartRepair \/ Copied
  PROVE  Copies'
<1>1. /\ copy.pc \in {"copy", "repair"} /\ UNCHANGED <<job, volume>> /\ copy.todo = <<>>
      /\ \/ \E pending : copy' = [copy EXCEPT !.pc = "repair", !.pending = pending]
         \/ copy' = [copy EXCEPT !.pc = "end", !.result = "Ok"]
  BY DEF StartRepair, Copied, Copying, treeVars, Fail, Copies
<1>2. /\ copy.result = "none" /\ DOMAIN copy = {"pc", "todo", "file", "left", "result", "pending"}
      /\ DOMAIN volume = {"clusterBytes", "free", "dirs", "files"}
      /\ copy.todo \in Seq(TreeEntry) /\ DirsHold
      /\ volume.files \cup FilesOf(ToSet(copy.todo)) \cup {} = FilesOf(Wanted)
      /\ {d.path : d \in volume.dirs} \cup DirsOf(ToSet(copy.todo)) = {<<>>} \cup DirsOf(Wanted)
      /\ \A file \in volume.files : file.done = file.bytes
  <2>1. copy.pc # "end" /\ copy.pc \in {"copy", "stream", "repair"} /\ copy.pc # "stream"
    BY <1>1
  <2>2. QED
    BY <2>1 DEF Copies
<1>3. /\ DOMAIN copy' = DOMAIN copy /\ copy'.todo = copy.todo
      /\ \/ copy'.pc = "repair" /\ copy'.result = "none"
         \/ copy'.pc = "end" /\ copy'.result = "Ok"
  BY <1>1, <1>2
<1>4. Wanted' = Wanted /\ (DirsHold' <=> DirsHold)
  BY <1>1 DEF Wanted, DirsHold
<1>5. QED
  BY <1>1, <1>2, <1>3, <1>4 DEF Copies

LEMMA StepCopies == Planned /\ Copies /\ [Next]_vars => Copies'
<1> SUFFICES ASSUME Planned, Copies, [Next]_vars PROVE Copies'
  OBVIOUS
<1>1. CASE TreeNext /\ UNCHANGED <<volume, copy>>
  <2>1. UNCHANGED job
    BY <1>1 DEF TreeNext, Split, PlanDrive, Grow, Halve, Needed
  <2>2. QED
    BY <1>1, <2>1, StillCopies
<1>2. CASE UNCHANGED vars
  <2>1. UNCHANGED <<job, volume, copy>>
    BY <1>2 DEF vars
  <2>2. QED
    BY <2>1, StillCopies
<1>3. QED
  BY <1>1, <1>2, FormatCopies, CopyEntryCopies, StreamCopies, RepairDirCopies, EndsCopies DEF Next

\* A copy that has nothing to come has put everything of partition 1 there.
LEMMA CopiesAreWhole == Planned /\ Copies => FilesAreWhole
<1> SUFFICES ASSUME Planned, Copies PROVE FilesAreWhole
  OBVIOUS
<1>1. \A file \in volume.files : file.done = file.bytes
  BY DEF Copies
<1>2. ASSUME copy.result = "Ok"
      PROVE  LET files == {e \in ToSet(BootEntries(job.tree)) : ~e.dir}
             IN  /\ {f.path : f \in volume.files} = {e.path : e \in files} \cup {UNATTEND}
                 /\ \A e \in files : \E f \in volume.files : f.path = e.path /\ f.done = e.bytes
                 /\ Cardinality({f \in volume.files : Fold(f.path) = UNATTEND}) = 1
  <2> DEFINE boot  == ToSet(BootEntries(job.tree))
             files == {e \in boot : ~e.dir}
             own   == {f \in volume.files : Fold(f.path) = UNATTEND}
  <2>1. volume.files = FilesOf(Wanted)
    <3>1. copy.pc = "end" /\ copy.todo = <<>>
      BY <1>2 DEF Copies
    <3>2. ToSet(<<>>) = {} /\ FilesOf({}) = {}
      BY DEF ToSet, FilesOf
    <3>3. volume.files \cup FilesOf(ToSet(copy.todo)) \cup {} = FilesOf(Wanted)
      BY <1>2, <3>1 DEF Copies
    <3>4. QED
      BY <3>1, <3>2, <3>3
  <2>2. \A e : Kept(e).path = e.path /\ Kept(e).done = e.bytes
    BY DEF Kept
  <2>3. ~Answer.dir /\ Answer.path = UNATTEND /\ Fold(UNATTEND) = UNATTEND
    BY AnswerIs DEF Answer
  <2>4. volume.files = {Kept(e) : e \in files} \cup {Kept(Answer)}
    BY <2>1, <2>3 DEF FilesOf, Wanted
  <2>5. \A e \in files : Fold(e.path) # UNATTEND
    <3>1. job.tree \in Seq(TreeEntry)
      BY JobsAssumption DEF Planned, TreeEntry
    <3>2. boot = {e \in ToSet(job.tree) : ~LeftOut(job.tree, e)}
      BY <3>1, BootEntriesAre
    <3>3. QED
      BY <3>2 DEF LeftOut
  <2> HIDE DEF files, boot
  <2>6. {f.path : f \in volume.files} = {e.path : e \in files} \cup {UNATTEND}
    BY <2>2, <2>3, <2>4
  <2>7. \A e \in files : \E f \in volume.files : f.path = e.path /\ f.done = e.bytes
    BY <2>2, <2>4
  <2>8. own = {Kept(Answer)}
    BY <2>2, <2>3, <2>4, <2>5
  <2> HIDE DEF own
  <2>9. Cardinality(own) = 1
    BY <2>8, FS_Singleton
  <2>10. QED
    BY <2>6, <2>7, <2>9 DEF files, boot, own
<1>3. QED
  BY <1>1, <1>2 DEF FilesAreWhole

\* For every tree, whatever the source gives and where a copy fails: each file that
\* the manifest names has the bytes that the tree gave as its size, and a copy that
\* ends well has every file of partition 1, and one answer file, that of Burnout
\* (copy_entries, stream_file and WindowsTree::boot_source).
THEOREM FilesAreWholeAlways == Spec => []FilesAreWhole
<1>1. QED
  BY InitPlanned, StepPlanned, InitCopies, StepCopies, CopiesAreWhole, PTL DEF Spec

----------------------------------------------------------------------------
(* The repair.                                                             *)

\* A set as a sequence has the elements of the set.
LEMMA SetAsSeq ==
  ASSUME NEW S, IsFiniteSet(S)
  PROVE  SetToSeq(S) \in Seq(S) /\ ToSet(SetToSeq(S)) = S
<1> DEFINE n == Cardinality(S)
           g == SetToSeq(S)
<1>1. n \in Nat /\ ExistsBijection(1 .. n, S)
  BY FS_CardinalityType
<1>2. PICK f \in [1 .. n -> S] : IsInjective(f)
  BY <1>1, Zenon DEF ExistsBijection, Bijection, Injection
<1>3. g \in [1 .. n -> S] /\ IsInjective(g)
  BY <1>2, Zenon DEF SetToSeq
<1>4. g \in Injection(1 .. n, S)
  BY <1>3, Zenon DEF Injection
<1>5. IsFiniteSet(1 .. n) /\ Cardinality(1 .. n) = n
  <2> HIDE DEF n
  <2>1. IsFiniteSet(1 .. n) /\ Cardinality(1 .. n) = IF 1 > n THEN 0 ELSE n - 1 + 1
    BY <1>1, FS_Interval
  <2>2. QED
    BY <1>1, <2>1
<1>6. g \in Surjection(1 .. n, S)
  BY <1>4, <1>5, FS_Injection
<1>7. \A x \in S : \E k \in 1 .. n : g[k] = x
  BY <1>6, Zenon DEF Surjection
<1> HIDE DEF g, n
<1>8. g \in Seq(S) /\ DOMAIN g = 1 .. n
  BY <1>1, <1>3, RowIsSeq
<1>9. \A k \in 1 .. n : g[k] \in S
  BY <1>3
<1>10. ToSet(g) = S
  BY <1>7, <1>8, <1>9, Zenon DEF ToSet
<1>11. QED
  BY <1>8, <1>10 DEF g

\* The last of a sequence and what is in front of it have its elements.
LEMMA FrontAndLast ==
  ASSUME NEW S, NEW s \in Seq(S), s # <<>>
  PROVE  Last(s) \in S /\ Front(s) \in Seq(S) /\ ToSet(s) = ToSet(Front(s)) \cup {Last(s)}
<1> DEFINE n == Len(s)
<1>1. n \in Nat \ {0} /\ s \in [1 .. n -> S] /\ DOMAIN s = 1 .. n
  OBVIOUS
<1>2. Last(s) = s[n]
  BY DEF Last
<1>3. Front(s) = [i \in 1 .. n - 1 |-> s[i]]
  BY <1>1 DEF Front
<1> HIDE DEF n
<1>4. \A i \in 1 .. n - 1 : i \in 1 .. n /\ s[i] \in S
  BY <1>1
<1>5. Front(s) \in Seq(S) /\ DOMAIN Front(s) = 1 .. n - 1
  <2>1. Front(s) \in [1 .. n - 1 -> S] /\ n - 1 \in Nat
    BY <1>1, <1>3, <1>4
  <2>2. QED
    BY <2>1, RowIsSeq
<1>6. n \in 1 .. n /\ \A i \in 1 .. n : i = n \/ i \in 1 .. n - 1
  BY <1>1
<1>7. ToSet(Front(s)) = {s[i] : i \in 1 .. n - 1}
  <2>1. \A i \in 1 .. n - 1 : Front(s)[i] = s[i]
    BY <1>3
  <2>2. QED
    BY <1>5, <2>1, Zenon DEF ToSet
<1>8. ToSet(s) = {s[i] : i \in 1 .. n}
  BY <1>1, Zenon DEF ToSet
<1>9. QED
  BY <1>1, <1>2, <1>4, <1>5, <1>6, <1>7, <1>8

\* What the repair makes of a directory, whether it met it before or not.
LEMMA RepairedHead ==
  ASSUME NEW d, DOMAIN d = {"path", "cluster", "head"}, NEW above \in Nat,
         New(d) \/ \E old : d.head = RightHead(d.cluster, old)
  PROVE  Repaired(d, above).head = RightHead(d.cluster, above)
<1> DEFINE free == [name |-> "free"]
           dot  == [name |-> ".", cluster |-> d.cluster]
           head == IF d.head[1].name = "." THEN d.head ELSE <<d.head[2], d.head[4], free, free>>
<1>1. \E old : head = <<dot, [name |-> "..", cluster |-> old], free, free>>
  <2>1. ASSUME NEW old, d.head = NewHead(d.cluster, old)
        PROVE  head = <<dot, [name |-> "..", cluster |-> old], free, free>>
    <3>1. /\ d.head[1] = [name |-> "long"] /\ d.head[2] = dot
          /\ d.head[4] = [name |-> "..", cluster |-> old]
      BY <2>1 DEF NewHead
    <3>2. d.head[1].name # "."
      BY <3>1
    <3>3. QED
      BY <3>1, <3>2
  <2>2. ASSUME NEW old, d.head = RightHead(d.cluster, old)
        PROVE  head = <<dot, [name |-> "..", cluster |-> old], free, free>>
    <3>1. d.head[1] = dot
      BY <2>2 DEF RightHead
    <3>2. d.head[1].name = "."
      BY <3>1
    <3>3. QED
      BY <2>2, <3>2 DEF RightHead
  <2>3. QED
    BY <2>1, <2>2 DEF New
<1>2. PICK old : head = <<dot, [name |-> "..", cluster |-> old], free, free>>
  BY <1>1
<1>3. Repaired(d, above) = [d EXCEPT !.head = [head EXCEPT ![2].cluster = above]]
  BY DEF Repaired
<1> HIDE DEF head
<1>4. [head EXCEPT ![2].cluster = above] = <<dot, [name |-> "..", cluster |-> above], free, free>>
  BY <1>2
<1>5. Repaired(d, above).head = [head EXCEPT ![2].cluster = above]
  BY <1>3
<1>6. QED
  BY <1>4, <1>5 DEF RightHead

\* A directory that the repair did not meet is not right.
LEMMA NewIsNotRight ==
  ASSUME NEW d, New(d)
  PROVE  \A above : d.head # RightHead(d.cluster, above)
<1>1. PICK old \in Nat : d.head = NewHead(d.cluster, old)
  BY DEF New
<1>2. d.head[1] = [name |-> "long"]
  BY <1>1 DEF NewHead
<1>3. TAKE above
<1>4. RightHead(d.cluster, above)[1].name = "."
  BY DEF RightHead
<1>5. d.head[1].name # "."
  BY <1>2
<1>6. QED
  BY <1>4, <1>5

LEMMA InitRepairs == Init => Repairs
<1> SUFFICES ASSUME Init PROVE Repairs
  OBVIOUS
<1>1. copy.pc = "format" /\ copy.result = "none"
  BY DEF Init, CopyInit
<1>2. QED
  BY <1>1 DEF Repairs

LEMMA FailRepairs ==
  ASSUME Copies, NEW why, why # "Ok", Fail(why)
  PROVE  Repairs'
<1>1. DOMAIN copy = {"pc", "todo", "file", "left", "result", "pending"}
  BY DEF Copies
<1>2. copy'.pc = "end" /\ copy'.result = why
  BY <1>1 DEF Fail
<1>3. QED
  BY <1>2 DEF Repairs

LEMMA StillRepairs ==
  ASSUME Repairs, UNCHANGED <<job, volume, copy>>
  PROVE  Repairs'
<1>1. /\ \A d : (New(d)' <=> New(d)) /\ (Right(d)' <=> Right(d)) /\ (Waits(d)' <=> Waits(d))
  BY DEF New, Right, Waits, Holds, Says
<1>2. QED
  BY <1>1 DEF Repairs, New, Holds, Says

\* The copy makes new directories only.
LEMMA CopyingRepairs ==
  ASSUME copy'.pc \in {"copy", "stream"}, copy'.result # "Ok",
         \A d \in volume'.dirs : d.path # <<>> => New(d)
  PROVE  Repairs'
<1>1. \A d \in volume'.dirs : d.path # <<>> => New(d)'
  BY DEF New
<1>2. QED
  BY <1>1 DEF Repairs, New

LEMMA FormatRepairs ==
  ASSUME Copies, Format
  PROVE  Repairs'
<1>1. /\ DOMAIN copy = {"pc", "todo", "file", "left", "result", "pending"}
      /\ copy.result = "none"
  BY DEF Format, Copying, Copies
<1>2. CASE Fail("PartitionTooSmall") \/ Fail("FileTooLarge")
  BY <1>2, FailRepairs
<1>3. ASSUME NEW entries, NEW bytes, NEW free,
             volume' = [clusterBytes |-> bytes, dirs |-> {Root}, files |-> {}, free |-> free],
             copy' = [copy EXCEPT !.pc = "copy", !.todo = entries]
      PROVE  Repairs'
  <2>1. copy'.pc = "copy" /\ copy'.result = "none" /\ volume'.dirs = {Root}
    BY <1>1, <1>3
  <2>2. QED
    BY <1>3, <2>1, CopyingRepairs DEF Root
<1>4. \/ Fail("PartitionTooSmall") \/ Fail("FileTooLarge")
      \/ \E entries, bytes, free :
           /\ volume' = [clusterBytes |-> bytes, dirs |-> {Root}, files |-> {}, free |-> free]
           /\ copy' = [copy EXCEPT !.pc = "copy", !.todo = entries]
  BY Zenon DEF Format
<1>5. QED
  BY <1>2, <1>3, <1>4

LEMMA CopyEntryRepairs ==
  ASSUME Copies, Repairs, CopyEntry
  PROVE  Repairs'
<1> DEFINE e    == Head(copy.todo)
           new  == RootCluster + Cardinality(volume.dirs)
           next == [copy EXCEPT !.todo = Tail(@)]
           takes == Grows(e) + (IF e.dir THEN 1 ELSE 0)
           above == {d \in volume.dirs : Fold(d.path) = Fold(ParentOf(e))}
<1>1. /\ DOMAIN copy = {"pc", "todo", "file", "left", "result", "pending"}
      /\ DOMAIN volume = {"clusterBytes", "free", "dirs", "files"}
      /\ copy.pc = "copy" /\ copy.result = "none" /\ DirsHold
  <2>1. copy.pc = "copy"
    BY DEF CopyEntry, Copying
  <2>2. QED
    BY <2>1 DEF Copies
<1>2. \A d \in volume.dirs : d.path # <<>> => New(d)
  BY <1>1 DEF Repairs
<1>3. CASE Fail("CannotCopy") \/ Fail("Full")
  BY <1>3, FailRepairs
<1>4. ASSUME NEW d \in volume.dirs,
             volume' = [volume EXCEPT !.free = @ - takes, !.dirs = @ \cup
               {[path |-> e.path, cluster |-> new, head |-> NewHead(new, d.cluster)]}],
             copy' = next
      PROVE  Repairs'
  <2> DEFINE x == [path |-> e.path, cluster |-> new, head |-> NewHead(new, d.cluster)]
  <2>1. copy'.pc = "copy" /\ copy'.result = "none"
    BY <1>1, <1>4
  <2>2. volume'.dirs = volume.dirs \cup {x}
    BY <1>1, <1>4
  <2>3. New(x)
    <3>1. d.cluster \in Nat
      BY <1>1 DEF DirsHold
    <3>2. QED
      BY <3>1 DEF New
  <2>4. QED
    BY <1>2, <2>1, <2>2, <2>3, CopyingRepairs
<1>5. ASSUME NEW left, NEW file, volume' = [volume EXCEPT !.free = @ - takes],
             copy' = [next EXCEPT !.pc = "stream", !.left = left, !.file = file]
      PROVE  Repairs'
  <2>1. copy'.pc = "stream" /\ copy'.result = "none" /\ volume'.dirs = volume.dirs
    BY <1>1, <1>5
  <2>2. QED
    BY <1>2, <2>1, CopyingRepairs
<1>6. \/ Fail("CannotCopy") \/ Fail("Full")
      \/ \E d \in volume.dirs :
           /\ volume' = [volume EXCEPT !.free = @ - takes, !.dirs = @ \cup
                {[path |-> e.path, cluster |-> new, head |-> NewHead(new, d.cluster)]}]
           /\ copy' = next
      \/ \E left, file : volume' = [volume EXCEPT !.free = @ - takes]
           /\ copy' = [next EXCEPT !.pc = "stream", !.left = left, !.file = file]
  <2> HIDE DEF new, takes
  <2>1. QED
    BY Zenon DEF CopyEntry, new, takes
<1>7. QED
  BY <1>3, <1>4, <1>5, <1>6

LEMMA StreamRepairs ==
  ASSUME Copies, Repairs, Stream
  PROVE  Repairs'
<1>1. /\ DOMAIN copy = {"pc", "todo", "file", "left", "result", "pending"}
      /\ DOMAIN volume = {"clusterBytes", "free", "dirs", "files"}
      /\ copy.pc = "stream" /\ copy.result = "none"
  <2>1. copy.pc = "stream"
    BY DEF Stream, Copying
  <2>2. QED
    BY <2>1 DEF Copies
<1>2. \A d \in volume.dirs : d.path # <<>> => New(d)
  BY <1>1 DEF Repairs
<1>3. CASE Fail("Source") \/ Fail("Full")
  BY <1>3, FailRepairs
<1>4. ASSUME volume'.dirs = volume.dirs, copy'.pc \in {"copy", "stream"}, copy'.result = "none"
      PROVE  Repairs'
  BY <1>2, <1>4, CopyingRepairs
<1>5. ASSUME NEW left, NEW n, NEW free, volume' = [volume EXCEPT !.free = free],
             copy' = [copy EXCEPT !.left = left, !.file[1].done = @ + n]
      PROVE  volume'.dirs = volume.dirs /\ copy'.pc \in {"copy", "stream"} /\ copy'.result = "none"
  BY <1>1, <1>5
<1>6. ASSUME NEW file, Keep(file)
      PROVE  volume'.dirs = volume.dirs /\ copy'.pc \in {"copy", "stream"} /\ copy'.result = "none"
  BY <1>1, <1>6 DEF Keep
<1>7. \/ Fail("Source") \/ Fail("Full") \/ \E file : Keep(file)
      \/ \E left, n, free : /\ volume' = [volume EXCEPT !.free = free]
                            /\ copy' = [copy EXCEPT !.left = left, !.file[1].done = @ + n]
  BY Zenon DEF Stream
<1>8. CASE \E file : Keep(file)
  BY <1>4, <1>6, <1>8
<1>9. CASE \E left, n, free : /\ volume' = [volume EXCEPT !.free = free]
                              /\ copy' = [copy EXCEPT !.left = left, !.file[1].done = @ + n]
  <2>1. volume'.dirs = volume.dirs /\ copy'.pc \in {"copy", "stream"} /\ copy'.result = "none"
    BY <1>5, <1>9, Zenon
  <2>2. QED
    BY <1>4, <2>1
<1>10. QED
  BY <1>3, <1>7, <1>8, <1>9, Zenon

\* The repair starts at the root, and nothing is right yet.
LEMMA StartRepairRepairs ==
  ASSUME Copies, Repairs, StartRepair
  PROVE  Repairs'
<1> DEFINE first == [dir |-> RootCluster, above |-> 0]
<1>1. /\ DOMAIN copy = {"pc", "todo", "file", "left", "result", "pending"}
      /\ copy.pc = "copy" /\ copy.result = "none" /\ DirsHold
      /\ copy' = [copy EXCEPT !.pc = "repair", !.pending = <<first>>] /\ UNCHANGED volume
  <2>1. copy.pc = "copy"
    BY DEF StartRepair, Copying
  <2>2. QED
    BY <2>1 DEF Copies, StartRepair
<1>2. \A d \in volume.dirs : d.path # <<>> => New(d)
  BY <1>1 DEF Repairs
<1>3. copy'.pc = "repair" /\ copy'.result = "none" /\ copy'.pending = <<first>>
  BY <1>1
<1>4. first \in [dir : Nat, above : Nat]
  BY DEF RootCluster
<1>5. copy'.pending \in Seq([dir : Nat, above : Nat]) /\ ToSet(copy'.pending) = {first}
  BY <1>3, <1>4 DEF ToSet
<1>6. /\ Root \in volume.dirs /\ \A d \in volume.dirs : d.path = <<>> => d = Root
  BY <1>1 DEF DirsHold
<1>7. first = [dir |-> Root.cluster, above |-> Says(Root)] /\ Root.cluster = first.dir
  BY DEF Root, Says
<1>8. \A d \in volume.dirs : d.path # <<>> => New(d)' \/ Right(d)'
  BY <1>2 DEF New
<1>9. \A p \in ToSet(copy'.pending) : \E a \in volume'.dirs : p = [dir |-> a.cluster, above |-> Says(a)]
  BY <1>1, <1>5, <1>6, <1>7
<1>10. \A a \in volume'.dirs : a.path = <<>> \/ Right(a)' => \E p \in ToSet(copy'.pending) : p.dir = a.cluster
  <2> SUFFICES ASSUME NEW a \in volume.dirs, a.path = <<>> \/ Right(a)'
               PROVE  first.dir = a.cluster
    BY <1>1, <1>5
  <2>1. ~Right(a)' \/ a.path = <<>>
    <3>1. SUFFICES ASSUME a.path # <<>>, Right(a)' PROVE FALSE
      OBVIOUS
    <3>2. New(a)
      BY <1>2, <3>1
    <3>3. \E b : a.head = RightHead(a.cluster, Says(b))
      BY <3>1 DEF Right
    <3>4. QED
      BY <3>2, <3>3, NewIsNotRight
  <2>2. QED
    BY <2>1, <1>6, <1>7
<1>11. QED
  BY <1>1, <1>3, <1>5, <1>8, <1>9, <1>10 DEF Repairs, Waits, Says

\* Whether a directory is right among some directories.
RightIn(d, dirs) == \E a \in dirs : Holds(a, d) /\ d.head = RightHead(d.cluster, Says(a))

\* A turn at t makes right what t holds, and leaves the others as they are.
LEMMA TurnMakesRight ==
  ASSUME NEW t \in volume.dirs, NEW subs, NEW above, DirsHold,
         \A d \in volume.dirs : d.path # <<>> => New(d) \/ Right(d),
         \A d \in volume.dirs : d \in subs <=> Holds(t, d), above = Says(t),
         volume'.dirs = {Turned(subs, above, d) : d \in volume.dirs},
         \A d \in volume.dirs : /\ Turned(subs, above, d).path = d.path
                                /\ Turned(subs, above, d).cluster = d.cluster
  PROVE  \A d \in volume.dirs :
           RightIn(Turned(subs, above, d), volume'.dirs) <=> d \in subs \/ Right(d)
<1> DEFINE M(d) == Turned(subs, above, d)
           dirs == volume.dirs
           then == volume'.dirs
<1>1. /\ \A d \in dirs : DOMAIN d = {"path", "cluster", "head"} /\ d.cluster \in Nat
      /\ \A d \in dirs : d.path # <<>> => New(d) \/ Right(d)
      /\ t \in dirs /\ \A d \in dirs : d \in subs <=> Holds(t, d)
  BY DEF DirsHold
<1>2. /\ then = {M(d) : d \in dirs}
      /\ \A d \in dirs : M(d).path = d.path /\ M(d).cluster = d.cluster
  OBVIOUS
<1>3. \A d \in dirs : d \notin subs => M(d) = d
  BY DEF Turned
<1>4. \A d \in dirs : d \in subs => M(d).head = RightHead(d.cluster, above)
  <2> TAKE d \in dirs
  <2> SUFFICES ASSUME d \in subs PROVE M(d).head = RightHead(d.cluster, above)
    OBVIOUS
  <2>1. M(d) = Repaired(d, above)
    BY DEF Turned
  <2>2. above \in Nat
    BY <1>1 DEF Says
  <2>3. DOMAIN d = {"path", "cluster", "head"}
    BY <1>1
  <2>4. New(d) \/ \E old : d.head = RightHead(d.cluster, old)
    <3>1. New(d) \/ Right(d)
      BY <1>1 DEF Holds
    <3>2. QED
      BY <3>1 DEF Right
  <2> HIDE DEF M
  <2>5. Repaired(d, above).head = RightHead(d.cluster, above)
    BY <2>2, <2>3, <2>4, RepairedHead
  <2>6. QED
    BY <2>1, <2>5
<1>5. \A a \in dirs : Says(M(a)) = Says(a)
  <2> HIDE DEF M
  <2>1. QED
    BY <1>2, Zenon DEF Says
<1>6. \A a, d \in dirs : Holds(M(a), M(d)) <=> Holds(a, d)
  <2> HIDE DEF M
  <2>1. \A d \in dirs : ParentOf(M(d)) = ParentOf(d)
    BY <1>2, Zenon DEF ParentOf
  <2>2. QED
    BY <1>2, <2>1, Zenon DEF Holds
<1>7. \A d \in dirs : Right(d) <=> RightIn(d, dirs)
  BY Zenon DEF Right, RightIn
<1>8. \A d \in dirs : Holds(t, d) <=> d \in subs
  BY <1>1
<1> HIDE DEF M, dirs, then
<1>9. \A d \in dirs : RightIn(M(d), then) <=>
        \E a \in dirs : Holds(a, d) /\ M(d).head = RightHead(d.cluster, Says(a))
  <2> TAKE d \in dirs
  <2>1. ASSUME NEW x \in then, Holds(x, M(d)), M(d).head = RightHead(M(d).cluster, Says(x))
        PROVE  \E a \in dirs : Holds(a, d) /\ M(d).head = RightHead(d.cluster, Says(a))
    <3>1. PICK a \in dirs : x = M(a)
      BY <1>2
    <3>2. Holds(a, d) /\ Says(x) = Says(a) /\ M(d).cluster = d.cluster
      BY <1>2, <1>5, <1>6, <2>1, <3>1
    <3>3. QED
      BY <2>1, <3>2
  <2>2. ASSUME NEW a \in dirs, Holds(a, d), M(d).head = RightHead(d.cluster, Says(a))
        PROVE  RightIn(M(d), then)
    <3>1. M(a) \in then /\ Holds(M(a), M(d)) /\ Says(M(a)) = Says(a) /\ M(d).cluster = d.cluster
      BY <1>2, <1>5, <1>6, <2>2
    <3>2. QED
      BY <2>2, <3>1 DEF RightIn
  <2>3. QED
    BY <2>1, <2>2, Zenon DEF RightIn
<1>10. ASSUME NEW d \in dirs
       PROVE  RightIn(M(d), then) <=> d \in subs \/ Right(d)
  <2>1. CASE d \in subs
    BY <1>1, <1>4, <1>8, <1>9, <2>1
  <2>2. CASE d \notin subs
    BY <1>3, <1>7, <1>9, <2>2, Zenon DEF RightIn
  <2>3. QED
    BY <2>1, <2>2
<1>11. QED
  BY <1>10 DEF M, dirs, then

\* One turn: what it makes right waits, and what it took from the list is done.
LEMMA RepairDirRepairs ==
  ASSUME Copies, Repairs, RepairDir
  PROVE  Repairs'
<1> DEFINE Pair == [dir : Nat, above : Nat]
           top  == Last(copy.pending)
           subs == Subdirectories(top.dir)
           rest == {[dir |-> d.cluster, above |-> d.cluster] : d \in subs}
           dirs == volume.dirs
           then == volume'.dirs
<1>1. /\ DOMAIN copy = {"pc", "todo", "file", "left", "result", "pending"}
      /\ DOMAIN volume = {"clusterBytes", "free", "dirs", "files"}
      /\ copy.pc = "repair" /\ copy.result = "none" /\ DirsHold
  <2>1. copy.pc = "repair"
    BY DEF RepairDir, Copying
  <2>2. QED
    BY <2>1 DEF Copies
<1>2. /\ copy.pending # <<>>
      /\ volume' = [volume EXCEPT !.dirs = (@ \ subs) \cup {Repaired(d, top.above) : d \in subs}]
      /\ copy' = [copy EXCEPT !.pending = Front(@) \o SetToSeq(rest)]
  BY DEF RepairDir
<1>3. /\ \A d \in dirs : d.path # <<>> => New(d) \/ Right(d)
      /\ copy.pending \in Seq(Pair)
      /\ \A p \in ToSet(copy.pending) : \E a \in dirs : p = [dir |-> a.cluster, above |-> Says(a)]
      /\ \A a \in dirs : a.path = <<>> \/ Right(a) =>
           (\E p \in ToSet(copy.pending) : p.dir = a.cluster) \/ \A d \in dirs : Holds(a, d) => Right(d)
  BY <1>1, Zenon DEF Repairs, Waits
<1>4. /\ copy'.pc = "repair" /\ copy'.result = "none"
      /\ copy'.pending = Front(copy.pending) \o SetToSeq(rest)
      /\ then = (dirs \ subs) \cup {Repaired(d, top.above) : d \in subs}
  BY <1>1, <1>2
<1>5. /\ IsFiniteSet(dirs) /\ \A d \in dirs : d.path = <<>> => d = Root
      /\ \A d \in dirs : d.cluster \in Nat
      /\ \A a, b \in dirs : a.cluster = b.cluster => a = b
  BY <1>1 DEF DirsHold
<1>6. /\ top \in Pair /\ Front(copy.pending) \in Seq(Pair)
      /\ ToSet(copy.pending) = ToSet(Front(copy.pending)) \cup {top}
  BY <1>2, <1>3, FrontAndLast
<1>7. PICK t \in dirs : top = [dir |-> t.cluster, above |-> Says(t)]
  BY <1>3, <1>6
<1>8. subs = {d \in dirs : Holds(t, d)}
  <2>1. DirAt(top.dir) = t
    <3>1. top.dir = t.cluster
      BY <1>7
    <3>2. \A d \in dirs : d.cluster = top.dir <=> d = t
      BY <1>5, <3>1
    <3> HIDE DEF top
    <3>3. QED
      BY <3>2 DEF DirAt
  <2>2. QED
    BY <2>1 DEF Subdirectories, Holds
<1> DEFINE above == top.above
           M(d)  == Turned(subs, above, d)
<1>9. above = Says(t) /\ top.dir = t.cluster
  BY <1>7
<1>10. Root \notin subs /\ subs \in SUBSET dirs
  BY <1>8 DEF Holds, Root
<1> HIDE DEF top, subs, dirs, then, above
<1>11. /\ then = {M(d) : d \in dirs}
       /\ \A d \in dirs : M(d).path = d.path /\ M(d).cluster = d.cluster
  <2>1. volume'.dirs = (volume.dirs \ subs) \cup {Repaired(d, above) : d \in subs}
    BY <1>4 DEF above, dirs, then
  <2>2. DirsHold /\ subs \in SUBSET volume.dirs /\ Root \notin subs
    BY <1>1, <1>10 DEF dirs
  <2>3. /\ volume'.dirs = {Turned(subs, above, d) : d \in volume.dirs}
        /\ \A d \in volume.dirs : /\ Turned(subs, above, d).path = d.path
                                  /\ Turned(subs, above, d).cluster = d.cluster
    BY <2>1, <2>2, TurnKeeps, Zenon
  <2>4. QED
    BY <2>3 DEF dirs, then
<1>12. \A d \in dirs : RightIn(M(d), then) <=> d \in subs \/ Right(d)
  <2>1. /\ DirsHold /\ t \in volume.dirs
        /\ \A d \in volume.dirs : d.path # <<>> => New(d) \/ Right(d)
        /\ \A d \in volume.dirs : d \in subs <=> Holds(t, d)
        /\ above = Says(t)
    BY <1>1, <1>3, <1>8, <1>9 DEF dirs
  <2>2. /\ volume'.dirs = {Turned(subs, above, d) : d \in volume.dirs}
        /\ \A d \in volume.dirs : /\ Turned(subs, above, d).path = d.path
                                  /\ Turned(subs, above, d).cluster = d.cluster
    BY <1>11 DEF dirs, then
  <2>3. \A d \in volume.dirs :
          RightIn(Turned(subs, above, d), volume'.dirs) <=> d \in subs \/ Right(d)
    BY <2>1, <2>2, TurnMakesRight, Zenon
  <2>4. QED
    BY <2>3 DEF dirs, then
<1>13. \A d \in dirs : d \notin subs => M(d) = d
  BY DEF Turned
<1>14. \A a \in dirs : Says(M(a)) = Says(a)
  <2> HIDE DEF M
  <2>1. QED
    BY <1>11, Zenon DEF Says
<1>15. \A a, d \in dirs : Holds(M(a), M(d)) <=> Holds(a, d)
  <2> HIDE DEF M
  <2>1. \A d \in dirs : ParentOf(M(d)) = ParentOf(d)
    BY <1>11, Zenon DEF ParentOf
  <2>2. QED
    BY <1>11, <2>1, Zenon DEF Holds
<1> HIDE DEF M
<1>16. copy'.pending \in Seq(Pair) /\ ToSet(copy'.pending) = ToSet(Front(copy.pending)) \cup rest
  <2>1. IsFiniteSet(rest)
    <3>1. IsFiniteSet(subs)
      BY <1>5, <1>10, FS_Subset
    <3> DEFINE f == [d \in subs |-> [dir |-> d.cluster, above |-> d.cluster]]
    <3>2. f \in Surjection(subs, rest)
      BY DEF Surjection
    <3> HIDE DEF f
    <3>3. QED
      BY <3>1, <3>2, FS_Surjection
  <2>2. rest \subseteq Pair
    BY <1>5, <1>10
  <2> HIDE DEF rest, Pair
  <2>3. SetToSeq(rest) \in Seq(rest) /\ ToSet(SetToSeq(rest)) = rest
    BY <2>1, SetAsSeq
  <2>4. SetToSeq(rest) \in Seq(Pair)
    BY <2>2, <2>3
  <2>5. ToSet(Front(copy.pending) \o SetToSeq(rest)) = ToSet(Front(copy.pending)) \cup ToSet(SetToSeq(rest))
    BY <1>6, <2>4, ElementsOfBoth
  <2>6. QED
    BY <1>4, <1>6, <2>3, <2>4, <2>5
<1>17. \A x \in then : x.path # <<>> => New(x) \/ RightIn(x, then)
  <2> TAKE x \in then
  <2>1. PICK d \in dirs : x = M(d)
    BY <1>11
  <2>2. CASE d \in subs
    BY <1>12, <2>1, <2>2
  <2>3. CASE d \notin subs
    BY <1>3, <1>12, <1>13, <2>1, <2>3
  <2>4. QED
    BY <2>2, <2>3
<1>18. \A p \in ToSet(copy'.pending) : \E x \in then : p = [dir |-> x.cluster, above |-> Says(x)]
  <2> TAKE p \in ToSet(copy'.pending)
  <2>1. CASE p \in ToSet(Front(copy.pending))
    <3>1. PICK a \in dirs : p = [dir |-> a.cluster, above |-> Says(a)]
      BY <1>3, <1>6, <2>1
    <3>2. M(a) \in then /\ M(a).cluster = a.cluster /\ Says(M(a)) = Says(a)
      BY <1>11, <1>14
    <3>3. QED
      BY <3>1, <3>2
  <2>2. CASE p \in rest
    <3>1. PICK d \in subs : p = [dir |-> d.cluster, above |-> d.cluster]
      BY <2>2
    <3>2. d \in dirs /\ d.path # <<>>
      BY <1>8 DEF Holds
    <3>3. M(d) \in then /\ M(d).cluster = d.cluster /\ Says(M(d)) = d.cluster
      BY <1>11, <1>14, <3>2 DEF Says
    <3>4. QED
      BY <3>1, <3>3
  <2>3. QED
    BY <1>16, <2>1, <2>2
<1>19. \A x \in then : x.path = <<>> \/ RightIn(x, then) =>
         \/ \E p \in ToSet(copy'.pending) : p.dir = x.cluster
         \/ \A y \in then : Holds(x, y) => RightIn(y, then)
  <2> TAKE x \in then
  <2> SUFFICES ASSUME x.path = <<>> \/ RightIn(x, then)
               PROVE  \/ \E p \in ToSet(copy'.pending) : p.dir = x.cluster
                      \/ \A y \in then : Holds(x, y) => RightIn(y, then)
    OBVIOUS
  <2>1. PICK a \in dirs : x = M(a)
    BY <1>11
  <2>2. x.path = a.path /\ x.cluster = a.cluster /\ (a.path = <<>> \/ a \in subs \/ Right(a))
    BY <1>11, <1>12, <2>1
  <2>3. ASSUME \A d \in dirs : Holds(a, d) => d \in subs \/ Right(d)
        PROVE  \A y \in then : Holds(x, y) => RightIn(y, then)
    <3> SUFFICES ASSUME NEW y \in then, Holds(x, y) PROVE RightIn(y, then)
      OBVIOUS
    <3>1. PICK d \in dirs : y = M(d)
      BY <1>11
    <3>2. Holds(a, d)
      BY <1>15, <2>1, <3>1
    <3>3. QED
      BY <1>12, <2>3, <3>1, <3>2
  <2>4. CASE a \in subs
    <3>1. [dir |-> a.cluster, above |-> a.cluster] \in ToSet(copy'.pending)
      BY <1>16, <2>4
    <3>2. QED
      BY <2>2, <3>1
  <2>5. CASE a = t
    BY <1>8, <2>3, <2>5
  <2>6. CASE a \notin subs /\ a # t
    <3>1. CASE \E p \in ToSet(copy.pending) : p.dir = a.cluster
      <4>1. PICK p \in ToSet(copy.pending) : p.dir = a.cluster
        BY <3>1
      <4>2. p # top
        BY <1>5, <1>9, <2>6, <4>1
      <4>3. p \in ToSet(copy'.pending)
        BY <1>6, <1>16, <4>2
      <4>4. QED
        BY <2>2, <4>1, <4>3
    <3>2. CASE \A d \in dirs : Holds(a, d) => Right(d)
      BY <2>3, <3>2
    <3>3. QED
      BY <1>3, <2>2, <2>6, <3>1, <3>2
  <2>7. QED
    BY <2>4, <2>5, <2>6
<1>20. /\ \A x \in volume'.dirs : x.path # <<>> => New(x)' \/ Right(x)'
       /\ \A x \in volume'.dirs : x.path = <<>> \/ Right(x)' =>
            Waits(x)' \/ \A y \in volume'.dirs : Holds(x, y) => Right(y)'
  <2>1. \A x : (New(x)' <=> New(x)) /\ (Right(x)' <=> RightIn(x, then))
               /\ (Waits(x)' <=> \E p \in ToSet(copy'.pending) : p.dir = x.cluster)
    BY Zenon DEF New, Right, RightIn, Waits, then
  <2>2. then = volume'.dirs
    BY DEF then
  <2>3. QED
    BY <1>17, <1>19, <2>1, <2>2
<1>21. QED
  BY <1>4, <1>16, <1>18, <1>20 DEF Repairs, then, Holds, Says

\* The path of the directory above is one name shorter.
LEMMA FrontIsShorter ==
  ASSUME NEW S, NEW s \in Seq(S), s # <<>>
  PROVE  /\ Len(s) \in Nat \ {0} /\ Len(Front(s)) = Len(s) - 1
         /\ Len(s) = 1 => Front(s) = <<>>
<1>1. Len(s) \in Nat \ {0} /\ Len(s) - 1 \in Nat /\ DOMAIN s = 1 .. Len(s)
  OBVIOUS
<1>2. Front(s) = [i \in 1 .. Len(s) - 1 |-> s[i]]
  BY DEF Front
<1>3. Front(s) \in [1 .. Len(s) - 1 -> S]
  BY <1>1, <1>2
<1>4. Front(s) \in Seq(S) /\ Len(Front(s)) = Len(s) - 1
  <2> DEFINE n == Len(s) - 1
             f == Front(s)
  <2>1. n \in Nat /\ f \in [1 .. n -> S]
    BY <1>1, <1>3
  <2> HIDE DEF n, f
  <2>2. f \in Seq(S) /\ Len(f) = n
    BY <2>1, RowIsSeq
  <2>3. QED
    BY <2>2 DEF n, f
<1>5. Len(s) = 1 => Front(s) = <<>>
  <2> HIDE DEF Front
  <2>1. QED
    BY <1>1, <1>4
<1>6. QED
  BY <1>1, <1>4, <1>5

\* The volume has, with each directory, the one that holds it.
LEMMA ParentsAreThere ==
  ASSUME Planned, Copies, search.result = "Ok", copy.pc = "repair",
         NEW d \in volume.dirs, d.path # <<>>
  PROVE  \E a \in volume.dirs : a.path = ParentOf(d)
<1> DEFINE tree == job.tree
           paths == {x.path : x \in volume.dirs}
<1>1. IsWindows(tree) /\ job \in Jobs /\ tree \in Seq(TreeEntry)
  BY JobsAssumption DEF Planned, TreeEntry
<1>2. /\ \A i, k \in 1 .. Len(tree) : tree[i].path = tree[k].path => i = k
      /\ \A i \in 1 .. Len(tree) : Len(tree[i].path) > 1 =>
           \E k \in 1 .. Len(tree) : tree[k].dir /\ tree[k].path = ParentOf(tree[i])
  BY <1>1, JobsAssumption
<1>3. paths = {<<>>} \cup DirsOf(Wanted)
  <2>1. copy.todo = <<>> /\ ToSet(<<>>) = {} /\ DirsOf({}) = {}
    BY DEF Copies, ToSet, DirsOf
  <2>2. paths \cup DirsOf(ToSet(copy.todo)) = {<<>>} \cup DirsOf(Wanted)
    BY DEF Copies
  <2>3. QED
    BY <2>1, <2>2
<1>4. ToSet(BootEntries(tree)) = {e \in ToSet(tree) : ~LeftOut(tree, e)}
  BY <1>1, BootEntriesAre
<1>5. DirsOf(Wanted) = {e.path : e \in {x \in ToSet(tree) : x.dir /\ ~LeftOut(tree, x)}}
  <2>1. Wanted = {e \in ToSet(tree) : ~LeftOut(tree, e)} \cup {Answer}
    BY <1>4 DEF Wanted
  <2>2. ~Answer.dir
    BY DEF Answer
  <2>3. QED
    BY <2>1, <2>2 DEF DirsOf
<1>6. ToSet(tree) = {tree[i] : i \in 1 .. Len(tree)} /\ \A i \in 1 .. Len(tree) : tree[i] \in TreeEntry
  <2>1. DOMAIN tree = 1 .. Len(tree) /\ \A i \in 1 .. Len(tree) : tree[i] \in TreeEntry
    BY <1>1
  <2> HIDE DEF tree
  <2>2. QED
    BY <2>1, Zenon DEF ToSet
<1>7. PICK m \in 1 .. Len(tree) : ImageOf(tree) = tree[m] /\ ~tree[m].dir
  BY <1>1, ImageIs
<1> HIDE DEF tree, paths
<1>8. \A k \in 1 .. Len(tree) : tree[k].dir => ~LeftOut(tree, tree[k])
  BY <1>2, <1>7 DEF LeftOut
<1>9. \A k \in 1 .. Len(tree) : tree[k].dir => tree[k].path \in paths
  BY <1>3, <1>5, <1>6, <1>8
<1>10. PICK i \in 1 .. Len(tree) : d.path = tree[i].path
  <2>1. d.path \in paths
    BY DEF paths
  <2>2. d.path \in DirsOf(Wanted)
    BY <1>3, <2>1
  <2>3. PICK e \in ToSet(tree) : d.path = e.path
    BY <1>5, <2>2
  <2>4. QED
    BY <1>6, <2>3
<1>11. d.path \in Seq(TreeNames) \ {<<>>}
  BY <1>6, <1>10 DEF TreeEntry
<1>12. ParentOf(d) \in paths
  <2>1. CASE Len(d.path) > 1
    <3>1. PICK k \in 1 .. Len(tree) : tree[k].dir /\ tree[k].path = ParentOf(tree[i])
      BY <1>2, <1>10, <2>1
    <3>2. ParentOf(d) = ParentOf(tree[i])
      BY <1>10 DEF ParentOf
    <3>3. QED
      BY <1>9, <3>1, <3>2
  <2>2. CASE Len(d.path) = 1
    <3>1. ParentOf(d) = <<>>
      BY <1>11, <2>2, FrontIsShorter DEF ParentOf
    <3>2. QED
      BY <1>3, <3>1
  <2>3. Len(d.path) > 1 \/ Len(d.path) = 1
    <3> DEFINE p == d.path
               n == Len(p)
    <3>1. p \in Seq(TreeNames) /\ p # <<>>
      BY <1>11
    <3> HIDE DEF p
    <3>2. n \in Nat \ {0}
      BY <3>1, FrontIsShorter, Zenon
    <3> HIDE DEF n
    <3>3. n > 1 \/ n = 1
      BY <3>2
    <3>4. QED
      BY <3>3 DEF p, n
  <2>4. QED
    BY <2>1, <2>2, <2>3
<1>13. QED
  BY <1>12 DEF paths

\* With nothing that waits, what is right goes down from the root to every depth.
LEMMA AllAreRight ==
  ASSUME Planned, Copies, Repairs, Copied,
         NEW d \in volume.dirs, d.path # <<>>
  PROVE  Right(d)
<1>1. copy.pc = "repair" /\ copy.pending = <<>> /\ search.result = "Ok"
  BY DEF Copied, Copying
<1>2. DirsHold
  BY <1>1 DEF Copies
<1>3. \A a, x \in volume.dirs : (a.path = <<>> \/ Right(a)) /\ Holds(a, x) => Right(x)
  <2>1. ToSet(copy.pending) = {}
    BY <1>1 DEF ToSet
  <2>2. \A a \in volume.dirs : ~Waits(a)
    BY <2>1 DEF Waits
  <2>3. QED
    BY <1>1, <2>2, Zenon DEF Repairs
<1>4. \A x \in volume.dirs : x.path \in Seq(TreeNames)
  BY <1>2 DEF DirsHold
<1> DEFINE bad == {x \in volume.dirs : x.path # <<>> /\ ~Right(x)}
           lens == {Len(x.path) : x \in bad}
<1>5. SUFFICES ASSUME bad # {} PROVE FALSE
  OBVIOUS
<1>6. lens \subseteq Nat /\ lens # {}
  <2>1. \A x \in volume.dirs : Len(x.path) \in Nat
    <3> TAKE x \in volume.dirs
    <3> DEFINE p == x.path
    <3>1. p \in Seq(TreeNames)
      BY <1>4
    <3> HIDE DEF p
    <3>2. Len(p) \in Nat
      BY <3>1
    <3>3. QED
      BY <3>2 DEF p
  <2>2. bad \subseteq volume.dirs
    OBVIOUS
  <2> HIDE DEF bad
  <2>3. QED
    BY <1>5, <2>1, <2>2
<1>7. PICK n \in lens : \A k \in lens : n <= k
  <2> HIDE DEF lens
  <2>1. QED
    BY <1>6, LeastOf
<1>8. PICK x \in bad : Len(x.path) = n
  BY <1>7
<1>9. x \in volume.dirs /\ x.path # <<>> /\ ~Right(x) /\ x.path \in Seq(TreeNames)
  BY <1>4, <1>8
<1>10. PICK a \in volume.dirs : a.path = ParentOf(x)
  BY <1>1, <1>9, ParentsAreThere
<1>11. Len(a.path) = Len(x.path) - 1
  BY <1>9, <1>10, FrontIsShorter DEF ParentOf
<1>12. a \notin bad
  <2>1. SUFFICES ASSUME a \in bad PROVE FALSE
    OBVIOUS
  <2>2. Len(a.path) \in lens /\ Len(a.path) \in Nat /\ Len(x.path) \in Nat
    BY <1>4, <1>9, <2>1
  <2>3. Len(x.path) <= Len(a.path)
    BY <1>7, <1>8, <2>2
  <2>4. QED
    BY <1>11, <2>2, <2>3
<1>13. a.path = <<>> \/ Right(a)
  BY <1>12
<1>14. Holds(a, x)
  BY <1>9, <1>10 DEF Holds
<1>15. QED
  BY <1>3, <1>9, <1>13, <1>14

LEMMA CopiedRepairs ==
  ASSUME Planned, Copies, Repairs, Copied
  PROVE  Repairs'
<1>1. \A d \in volume.dirs : d.path # <<>> => Right(d)
  BY AllAreRight
<1>2. copy.pc = "repair" /\ copy' = [copy EXCEPT !.pc = "end", !.result = "Ok"] /\ UNCHANGED volume
  BY DEF Copied, Copying, Fail
<1>3. copy'.pc = "end"
  BY <1>2 DEF Copies
<1>4. \A d : Right(d)' <=> Right(d)
  BY <1>2 DEF Right, Holds, Says
<1>5. \A d \in volume'.dirs : d.path # <<>> => Right(d)'
  BY <1>1, <1>2, <1>4
<1>6. QED
  BY <1>3, <1>5 DEF Repairs

LEMMA StepRepairs == Planned /\ Copies /\ Repairs /\ [Next]_vars => Repairs'
<1> SUFFICES ASSUME Planned, Copies, Repairs, [Next]_vars PROVE Repairs'
  OBVIOUS
<1>1. CASE TreeNext /\ UNCHANGED <<volume, copy>>
  <2>1. UNCHANGED job
    BY <1>1 DEF TreeNext, Split, PlanDrive, Grow, Halve, Needed
  <2>2. QED
    BY <1>1, <2>1, StillRepairs
<1>2. CASE UNCHANGED vars
  <2>1. UNCHANGED <<job, volume, copy>>
    BY <1>2 DEF vars
  <2>2. QED
    BY <2>1, StillRepairs
<1>3. QED
  BY <1>1, <1>2, FormatRepairs, CopyEntryRepairs, StreamRepairs, StartRepairRepairs,
     RepairDirRepairs, CopiedRepairs DEF Next

\* A head that is right says what its directory and the one above it are.
LEMMA RepairsAreRight == Copies /\ Repairs => DotsAreRight
<1> SUFFICES ASSUME Copies, Repairs, copy.result = "Ok", NEW d \in volume.dirs \ {Root}
             PROVE  LET above == CHOOSE a \in volume.dirs : a.path = ParentOf(d)
                    IN  /\ d.head[1] = [name |-> ".", cluster |-> d.cluster]
                        /\ d.head[2] = [name |-> "..", cluster |-> IF above = Root THEN 0 ELSE above.cluster]
                        /\ \A k \in 3 .. 4 : d.head[k].name = "free"
  BY DEF DotsAreRight
<1> DEFINE above == CHOOSE a \in volume.dirs : a.path = ParentOf(d)
<1>1. DirsHold
  BY DEF Copies
<1>2. d.path # <<>>
  BY <1>1 DEF DirsHold
<1>3. PICK a \in volume.dirs : Holds(a, d) /\ d.head = RightHead(d.cluster, Says(a))
  BY <1>2 DEF Repairs, Right
<1>4. above = a
  <2>1. \A b \in volume.dirs : b.path = ParentOf(d) <=> b = a
    BY <1>1, <1>3 DEF DirsHold, Holds
  <2>2. QED
    BY <2>1
<1>5. Says(a) = IF above = Root THEN 0 ELSE above.cluster
  <2>1. a = Root <=> a.path = <<>>
    BY <1>1 DEF DirsHold, Root
  <2> HIDE DEF above
  <2>2. QED
    BY <1>4, <2>1, Zenon DEF Says
<1> HIDE DEF above
<1>6. /\ d.head[1] = [name |-> ".", cluster |-> d.cluster]
      /\ d.head[2] = [name |-> "..", cluster |-> Says(a)]
      /\ d.head[3] = [name |-> "free"] /\ d.head[4] = [name |-> "free"]
  BY <1>3 DEF RightHead
<1>7. \A k \in 3 .. 4 : d.head[k].name = "free"
  <2>1. \A k \in 3 .. 4 : k = 3 \/ k = 4
    OBVIOUS
  <2>2. QED
    BY <1>6, <2>1
<1>8. QED
  BY <1>5, <1>6, <1>7 DEF above

\* For every tree, to every depth: after the repair each directory starts with `.`
\* for itself and `..` for the directory above it, zero below the root, with no long
\* name in front (repair_dot_entries, which fatfs makes necessary).
THEOREM DotsAreRightAlways == Spec => []DotsAreRight
<1>1. Init => IInv
  BY InitPlanned, InitCopies, InitRepairs DEF IInv
<1>2. IInv /\ [Next]_vars => IInv'
  BY StepPlanned, StepCopies, StepRepairs DEF IInv
<1>3. IInv => DotsAreRight
  BY RepairsAreRight DEF IInv
<1>4. QED
  BY <1>1, <1>2, <1>3, PTL DEF Spec

----------------------------------------------------------------------------
(* The search for the drive that a tree needs.                             *)

\* Whole numbers of a unit leave a whole number of it.
LEMMA RestIsWhole ==
  ASSUME NEW a \in Nat, NEW b \in Nat \ {0}, NEW unit \in Nat \ {0}, Whole(a, unit), Whole(b, unit)
  PROVE  a % b \in Nat /\ Whole(a % b, unit)
<1> DEFINE q == a \div b
<1>1. q \in Int /\ q * b \in Int /\ a % b \in Nat /\ a % b = a - q * b
  <2>1. q \in Int
    BY Quotient
  <2>2. a % b \in Nat /\ a % b = a - q * b
    BY SMT
  <2>3. QED
    BY <2>1, <2>2
<1> HIDE DEF q
<1>2. PICK n \in Int : b = n * unit
  BY DEF Whole
<1>3. q * b = (q * n) * unit /\ q * n \in Int
  BY <1>1, <1>2
<1>4. Whole(q * b, unit)
  BY <1>3, Zenon DEF Whole
<1>5. Whole(a - q * b, unit)
  BY <1>1, <1>4, WholeSum
<1>6. QED
  BY <1>1, <1>5

LEMMA RoundedIsWhole ==
  ASSUME NEW a \in Int, NEW unit \in Nat \ {0}
  PROVE  /\ RoundDown(a, unit) \in Int /\ Whole(RoundDown(a, unit), unit)
         /\ RoundDown(a, unit) <= a /\ a < RoundDown(a, unit) + unit
         /\ Whole(RoundUp(a, unit), unit)
<1> DEFINE q == a \div unit
           d == DivCeil(a, unit)
<1>1. q \in Int /\ q * unit <= a /\ a < (q + 1) * unit
  BY Quotient
<1>2. d \in Int
  BY DivCeilIsEnough
<1>3. RoundDown(a, unit) = q * unit /\ RoundUp(a, unit) = d * unit
  BY DEF RoundDown, RoundUp
<1> HIDE DEF q, d
<1>4. (q + 1) * unit = q * unit + unit /\ q * unit \in Int
  BY <1>1
<1>5. Whole(q * unit, unit) /\ Whole(d * unit, unit)
  BY <1>1, <1>2, Zenon DEF Whole
<1>6. QED
  BY <1>1, <1>3, <1>4, <1>5

\* Two whole numbers of a unit that are not the same are a unit apart.
LEMMA WholeStep ==
  ASSUME NEW a \in Int, NEW b \in Int, NEW unit \in Nat \ {0}, Whole(a, unit), Whole(b, unit), a < b
  PROVE  a + unit <= b
<1>1. PICK m \in Int : a = m * unit
  BY DEF Whole
<1>2. PICK n \in Int : b = n * unit
  BY DEF Whole
<1>3. ~(n <= m)
  <2> SUFFICES ASSUME n <= m PROVE FALSE
    OBVIOUS
  <2>1. n * unit <= m * unit
    BY ProductGrows
  <2>2. QED
    BY <1>1, <1>2, <2>1
<1>4. m + 1 <= n
  BY <1>3
<1>5. (m + 1) * unit <= n * unit
  BY <1>4, ProductGrows
<1>6. (m + 1) * unit = a + unit
  BY <1>1
<1>7. QED
  BY <1>2, <1>5, <1>6

\* Of a drive in whole sectors only the end of partition 2 counts, which is a
\* mebibyte that the table can name.
LEMMA EndIs ==
  ASSUME NEW drive \in Nat, NEW sector \in SECTOR_SIZES
  PROVE  \E k \in 0 .. (MBR_SECTORS * sector) \div ALIGN :
           /\ InstallEnd(drive, sector) = k * ALIGN
           /\ k * ALIGN <= drive /\ k * ALIGN <= MBR_SECTORS * sector
           /\ InstallEnd(k * ALIGN, sector) = k * ALIGN
           /\ k * ALIGN \in Nat /\ (k * ALIGN) % sector = 0
<1> DEFINE limit == MBR_SECTORS * sector
           least == IF drive < limit THEN drive ELSE limit
           k     == least \div ALIGN
           end   == k * ALIGN
<1>1. /\ sector \in Nat \ {0} /\ ALIGN \in Nat \ {0} /\ Whole(ALIGN, sector) /\ limit \in Nat
  BY AlignIsWhole, LayoutAssumption DEF MBR_SECTORS
<1>2. InstallEnd(drive, sector) = end
  BY DEF InstallEnd, RoundDown
<1> HIDE DEF limit
<1>3. least \in Nat /\ least <= limit /\ least <= drive
  BY <1>1
<1> HIDE DEF least
<1>4. k \in Int /\ end <= least /\ least < (k + 1) * ALIGN /\ k <= limit \div ALIGN
  BY <1>1, <1>3, Quotient, QuotientGrows
<1> HIDE DEF k
<1>5. k \in Nat
  <2> SUFFICES ASSUME k + 1 <= 0 PROVE FALSE
    BY <1>4
  <2>1. (k + 1) * ALIGN <= 0 * ALIGN
    BY <1>1, <1>4, ProductGrows
  <2>2. (k + 1) * ALIGN \in Int
    BY <1>1, <1>4
  <2>3. QED
    BY <1>1, <1>3, <1>4, <2>1, <2>2
<1>6. limit \div ALIGN \in Int
  BY <1>1, Quotient
<1>7. end \in Nat /\ Whole(end, ALIGN)
  BY <1>1, <1>5 DEF Whole
<1>8. end <= drive /\ end <= limit
  <2> HIDE DEF end
  <2>1. QED
    BY <1>1, <1>3, <1>4, <1>7
<1>9. Whole(end, sector)
  BY <1>1, <1>7, WholeOfWhole
<1> HIDE DEF end
<1>10. end % sector = 0
  BY <1>1, <1>7, <1>9, NoRest
<1>11. RoundDown(end, ALIGN) = end
  BY <1>1, <1>7, WholeQuotient DEF RoundDown
<1>12. InstallEnd(end, sector) = end
  <2>1. (IF end < limit THEN end ELSE limit) = end
    BY <1>1, <1>7, <1>8
  <2>2. InstallEnd(end, sector) = RoundDown(IF end < limit THEN end ELSE limit, ALIGN)
    BY Zenon DEF InstallEnd, limit
  <2>3. QED
    BY <1>11, <2>1, <2>2
<1>13. k \in 0 .. limit \div ALIGN
  BY <1>4, <1>5, <1>6
<1>14. QED
  BY <1>2, <1>7, <1>8, <1>10, <1>12, <1>13, Zenon DEF limit, end

\* A larger drive ends no earlier.
LEMMA EndGrows ==
  ASSUME NEW d \in Nat, NEW e \in Nat, d <= e, NEW sector \in SECTOR_SIZES
  PROVE  InstallEnd(d, sector) <= InstallEnd(e, sector)
<1> DEFINE limit == MBR_SECTORS * sector
           p == IF d < limit THEN d ELSE limit
           q == IF e < limit THEN e ELSE limit
<1>1. ALIGN \in Nat \ {0} /\ limit \in Nat
  BY LayoutAssumption DEF MBR_SECTORS
<1>2. InstallEnd(d, sector) = (p \div ALIGN) * ALIGN /\ InstallEnd(e, sector) = (q \div ALIGN) * ALIGN
  BY DEF InstallEnd, RoundDown
<1> HIDE DEF limit
<1>3. p \in Int /\ q \in Int /\ p <= q
  BY <1>1
<1> HIDE DEF p, q
<1>4. p \div ALIGN \in Int /\ q \div ALIGN \in Int /\ p \div ALIGN <= q \div ALIGN
  BY <1>1, <1>3, Quotient, QuotientGrows
<1>5. (p \div ALIGN) * ALIGN <= (q \div ALIGN) * ALIGN
  <2> DEFINE m == p \div ALIGN
             n == q \div ALIGN
  <2> HIDE DEF m, n
  <2>1. m * ALIGN <= n * ALIGN
    BY <1>1, <1>4, ProductGrows DEF m, n
  <2>2. QED
    BY <2>1 DEF m, n
<1>6. QED
  BY <1>2, <1>5

\* fitting asks of a drive its sectors and where partition 2 ends.
LEMMA FittingOfEnd ==
  ASSUME NEW tree, NEW d \in Nat, NEW e \in Nat, NEW sector, d % sector = 0, e % sector = 0,
         InstallEnd(d, sector) = InstallEnd(e, sector)
  PROVE  Fitting(tree, d, sector) = Fitting(tree, e, sector)
<1> DEFINE bytes == BootPartitionBytes(tree)
<1>1. Refusal(d, sector, bytes) = Refusal(e, sector, bytes)
  BY DEF Refusal
<1>2. Layout(d, sector, bytes).install.length = Layout(e, sector, bytes).install.length
  BY DEF Layout
<1>3. QED
  BY <1>1, <1>2, Zenon DEF Fitting

\* What fitting can answer.
LEMMA Answers ==
  ASSUME NEW tree, NEW d, NEW sector
  PROVE  /\ Fitting(tree, d, sector) \in
              {"SectorSize", "Unaligned", "TooSmall", "PartitionTooSmall", "CannotCopy", "VolumeFull", "Ok"}
         /\ Fitting(tree, d, sector) \in TooSmall \cup {"Ok"} =>
              sector \in SECTOR_SIZES /\ d % sector = 0
<1> DEFINE refusal == Refusal(d, sector, BootPartitionBytes(tree))
           answer(v) == Fits(v, sector, InstallEntries(tree), TRUE)
<1>1. /\ refusal \in {"SectorSize", "Unaligned", "TooSmall", "none"}
      /\ refusal \in {"TooSmall", "none"} => sector \in SECTOR_SIZES /\ d % sector = 0
  BY DEF Refusal
<1>2. \A n : answer(n) \in {"PartitionTooSmall", "CannotCopy", "VolumeFull", "Ok"}
  BY Zenon DEF Fits
<1>3. \/ Fitting(tree, d, sector) = refusal /\ refusal # "none"
      \/ refusal = "none" /\ \E n : Fitting(tree, d, sector) = answer(n)
  BY Zenon DEF Fitting
<1> HIDE DEF refusal, answer
<1>4. QED
  BY <1>1, <1>2, <1>3 DEF TooSmall

\* With one mebibyte more at a time, no larger drive comes to be too small.
LEMMA LargerIsNotTooSmall ==
  ASSUME LargerDrivesHold, NEW j \in Jobs, IsWindows(j.tree), NEW d \in Nat, NEW e \in Nat, d <= e,
         d % j.sector = 0, Fitting(j.tree, e, j.sector) \in TooSmall
  PROVE  Fitting(j.tree, d, j.sector) \in TooSmall
<1> DEFINE sector == j.sector
           last == (MBR_SECTORS * sector) \div ALIGN
           F(k) == Fitting(j.tree, k * ALIGN, sector)
<1>1. sector \in SECTOR_SIZES /\ e % sector = 0
  BY Answers
<1>2. PICK m \in 0 .. last : /\ InstallEnd(d, sector) = m * ALIGN /\ m * ALIGN \in Nat
                             /\ InstallEnd(m * ALIGN, sector) = m * ALIGN /\ (m * ALIGN) % sector = 0
  <2> HIDE DEF sector
  <2>1. QED
    BY <1>1, EndIs, Zenon
<1>3. PICK n \in 0 .. last : /\ InstallEnd(e, sector) = n * ALIGN /\ n * ALIGN \in Nat
                             /\ InstallEnd(n * ALIGN, sector) = n * ALIGN /\ (n * ALIGN) % sector = 0
  <2> HIDE DEF sector
  <2>1. QED
    BY <1>1, EndIs, Zenon
<1>4. Fitting(j.tree, d, sector) = F(m) /\ Fitting(j.tree, e, sector) = F(n)
  <2> DEFINE p == m * ALIGN
             q == n * ALIGN
             tree == j.tree
  <2>1. /\ p \in Nat /\ p % sector = 0 /\ InstallEnd(d, sector) = InstallEnd(p, sector)
        /\ q \in Nat /\ q % sector = 0 /\ InstallEnd(e, sector) = InstallEnd(q, sector)
        /\ d % sector = 0 /\ e % sector = 0 /\ d \in Nat /\ e \in Nat
    BY <1>1, <1>2, <1>3
  <2> HIDE DEF p, q, tree, sector
  <2>2. Fitting(tree, d, sector) = Fitting(tree, p, sector)
    BY <2>1, FittingOfEnd
  <2>3. Fitting(tree, e, sector) = Fitting(tree, q, sector)
    BY <2>1, FittingOfEnd
  <2>4. QED
    BY <2>2, <2>3 DEF p, q, tree
<1>5. last \in Int /\ ALIGN \in Nat \ {0}
  <2>1. sector \in Nat \ {0} /\ ALIGN \in Nat \ {0}
    BY <1>1, AlignIsWhole
  <2>2. MBR_SECTORS \in Nat
    BY LayoutAssumption DEF MBR_SECTORS
  <2> HIDE DEF sector
  <2>3. MBR_SECTORS * sector \in Int
    BY <2>1, <2>2
  <2>4. QED
    BY <2>1, <2>3, Quotient
<1>6. m <= n
  <2> SUFFICES ASSUME n + 1 <= m PROVE FALSE
    BY <1>2, <1>3, <1>5
  <2>1. m * ALIGN <= n * ALIGN
    <3>1. InstallEnd(d, sector) <= InstallEnd(e, sector)
      BY <1>1, EndGrows
    <3>2. QED
      BY <1>2, <1>3, <3>1
  <2>2. m \in Int /\ n \in Int
    BY <1>2, <1>3, <1>5
  <2>3. (n + 1) * ALIGN <= m * ALIGN
    BY <1>5, <2>2, ProductGrows
  <2>4. (n + 1) * ALIGN = n * ALIGN + ALIGN
    BY <1>5, <2>2
  <2>5. QED
    BY <1>2, <1>3, <1>5, <2>1, <2>3, <2>4
<1>7. \A k \in 0 .. last - 1 : F(k) \notin TooSmall => F(k + 1) \notin TooSmall
  BY Zenon DEF LargerDrivesHold
<1>8. F(n) \in TooSmall
  BY <1>4
<1> HIDE DEF F, last, sector
<1>9. SUFFICES ASSUME F(m) \notin TooSmall PROVE FALSE
  BY <1>4 DEF sector
\* The least number past m that is too small comes after one that is not.
<1> DEFINE S == {k \in 0 .. last : m <= k /\ F(k) \in TooSmall}
<1>10. S \subseteq Nat /\ n \in S
  BY <1>5, <1>6, <1>8
<1>11. PICK k \in S : \A l \in S : k <= l
  <2>1. S \in SUBSET Nat /\ S # {}
    BY <1>10
  <2> HIDE DEF S
  <2>2. QED
    BY <2>1, LeastOf
<1>12. k \in 0 .. last /\ m <= k /\ F(k) \in TooSmall /\ m \in 0 .. last
  BY <1>2, <1>11
<1>13. k # m
  BY <1>9, <1>12
<1>14. k - 1 \in 0 .. last - 1 /\ m <= k - 1 /\ k - 1 \in 0 .. last /\ k - 1 + 1 = k
  BY <1>5, <1>12, <1>13
<1>15. F(k - 1) \in TooSmall
  BY <1>7, <1>12, <1>14
<1>16. k - 1 \in S
  BY <1>14, <1>15
<1>17. QED
  BY <1>5, <1>11, <1>12, <1>16

\* What the search keeps: the drive is too small, `fits` is whole mebibytes and holds
\* the layout once the doubling is over, and `short` does not.
Halves ==
  /\ search.pc \in {"grow", "halve"} \/ search.result = "NeedsLargerDrive" =>
       /\ IsWindows(job.tree) /\ Fit(job.drive) \in TooSmall
       /\ search.fits \in Nat /\ Whole(search.fits, ALIGN)
  /\ search.pc = "halve" \/ search.result = "NeedsLargerDrive" =>
       /\ Fit(search.fits) = "Ok"
       /\ search.short \in Nat /\ Whole(search.short, ALIGN) /\ search.short < search.fits
       /\ search.short = 0 \/ Fit(search.short) \in TooSmall
  /\ search.result = "NeedsLargerDrive" => search.fits - search.short <= ALIGN

LEMMA NothingFitsOnNothing ==
  ASSUME NEW tree, BootPartitionBytes(tree) \in Nat, NEW sector \in Nat
  PROVE  Fitting(tree, 0, sector) # "Ok"
<1> DEFINE bytes == BootPartitionBytes(tree)
<1>1. Refusal(0, sector, bytes) # "none"
  <2> SUFFICES ASSUME Refusal(0, sector, bytes) = "none" PROVE FALSE
    OBVIOUS
  <2> HIDE DEF bytes
  <2>1. bytes \in Nat /\ 0 \in Nat
    BY DEF bytes
  <2>2. /\ ALIGN \in Nat \ {0} /\ BootPart(bytes).length \in Nat
        /\ InstallEnd(0, sector) \in Int /\ InstallEnd(0, sector) <= 0
        /\ InstallEnd(0, sector) >= ALIGN + BootPart(bytes).length + ALIGN
    BY <2>1, Sizes
  <2>3. QED
    BY <2>2
<1>2. Fitting(tree, 0, sector) = Refusal(0, sector, bytes)
  BY <1>1 DEF Fitting
<1>3. Refusal(0, sector, bytes) # "Ok"
  BY DEF Refusal
<1>4. QED
  BY <1>2, <1>3

LEMMA InitHalves == Init => Halves
<1> SUFFICES ASSUME Init PROVE Halves
  OBVIOUS
<1>1. search.pc = "split" /\ search.result = "none"
  BY DEF Init, TreeInit
<1>2. QED
  BY <1>1 DEF Halves

LEMMA StepHalves == Planned /\ Halves /\ [Next]_vars => Halves'
<1> SUFFICES ASSUME Planned, Halves, [Next]_vars PROVE Halves'
  OBVIOUS
<1>1. /\ job \in Jobs /\ DOMAIN search = {"pc", "fits", "short", "result"}
      /\ search.pc # "end" => search.result = "none"
      /\ search.pc = "plan" => IsWindows(job.tree)
  BY DEF Planned
<1>2. job.tree \in Seq(TreeEntry) /\ job.sector \in Nat /\ ALIGN \in Nat \ {0} /\ U64 \in Nat
  BY <1>1, JobsAssumption, LayoutAssumption, TreeAssumption DEF TreeEntry
<1>3. BootPartitionBytes(job.tree) \in Nat
  BY <1>2, BootBytesIsNat
\* A search that ends otherwise says nothing of what is needed.
<1>4. ASSUME NEW why, why # "NeedsLargerDrive", Refused(why)
      PROVE  Halves'
  <2>1. search'.pc = "end" /\ search'.result = why
    BY <1>1, <1>4 DEF Refused
  <2>2. QED
    BY <1>4, <2>1 DEF Halves
<1>5. CASE UNCHANGED treeVars
  <2>1. UNCHANGED <<job, search>>
    BY <1>5 DEF treeVars
  <2>2. Fit(job.drive)' = Fit(job.drive) /\ Fit(search.fits)' = Fit(search.fits)
        /\ Fit(search.short)' = Fit(search.short)
    BY <2>1 DEF Fit
  <2>3. QED
    BY <2>1, <2>2 DEF Halves
<1>6. CASE Split
  <2>1. search.pc = "split" /\ search.result = "none"
    BY <1>1, <1>6 DEF Split
  <2>2. search' = [search EXCEPT !.pc = "plan"] \/ Refused("Source")
    BY <1>6, Zenon DEF Split
  <2>3. CASE search' = [search EXCEPT !.pc = "plan"]
    <3>1. search'.pc = "plan" /\ search'.result = "none"
      BY <1>1, <2>1, <2>3
    <3>2. QED
      BY <3>1 DEF Halves
  <2>4. QED
    BY <1>4, <2>2, <2>3
<1>7. CASE PlanDrive
  <2> DEFINE boot  == BootPartitionBytes(job.tree)
             image == RoundUp(ImageOf(job.tree).bytes, ALIGN)
             twice == 2 * (boot + image)
  <2>1. search.pc = "plan" /\ search.result = "none" /\ UNCHANGED job /\ IsWindows(job.tree)
    BY <1>1, <1>7 DEF PlanDrive
  <2>2. \/ search' = [search EXCEPT !.pc = "end", !.result = "Ok"]
        \/ Fit(job.drive) \in TooSmall /\ search' = [search EXCEPT !.pc = "grow", !.fits = twice]
        \/ Refused(Fit(job.drive))
    BY <1>7, Zenon DEF PlanDrive
  <2>3. CASE search' = [search EXCEPT !.pc = "end", !.result = "Ok"]
    <3>1. search'.pc = "end" /\ search'.result = "Ok"
      BY <1>1, <2>3
    <3>2. QED
      BY <3>1 DEF Halves
  <2>4. CASE Fit(job.drive) \in TooSmall /\ search' = [search EXCEPT !.pc = "grow", !.fits = twice]
    <3>1. ImageOf(job.tree).bytes \in Nat
      BY <1>2, <2>1, ImageIs DEF TreeEntry
    <3>2. image \in Nat /\ Whole(image, ALIGN)
      <4> DEFINE n == ImageOf(job.tree).bytes
      <4>1. n \in Nat /\ n \in Int /\ ALIGN \in Nat \ {0}
        BY <1>2, <3>1
      <4> HIDE DEF n
      <4>2. RoundUp(n, ALIGN) \in Nat
        BY <4>1, RoundUpHolds
      <4>3. Whole(RoundUp(n, ALIGN), ALIGN)
        BY <4>1, RoundedIsWhole
      <4>4. QED
        BY <4>2, <4>3 DEF n
    <3>3. Whole(boot, ALIGN)
      <4> DEFINE n == BootBytes(job.tree) + CLUSTER + BOOT_ROOM
      <4>1. n \in Int
        BY <1>2, BootBytesIsNat, TreeAssumption
      <4>2. boot = RoundUp(n, ALIGN)
        BY DEF BootPartitionBytes
      <4> HIDE DEF n
      <4>3. QED
        BY <1>2, <4>1, <4>2, RoundedIsWhole
    <3>4. boot \in Nat
      BY <1>3
    <3> HIDE DEF boot, image
    <3>5. boot + image \in Int /\ Whole(boot + image, ALIGN)
      BY <1>2, <3>2, <3>3, <3>4, WholeSum
    <3>6. twice = (boot + image) + (boot + image) /\ twice \in Nat
      BY <3>2, <3>4
    <3>7. Whole(twice, ALIGN)
      BY <1>2, <3>5, <3>6, WholeSum
    <3> HIDE DEF twice
    <3>8. search'.pc = "grow" /\ search'.result = "none" /\ search'.fits = twice
      BY <1>1, <2>1, <2>4
    <3>9. Fit(job.drive)' = Fit(job.drive)
      BY <2>1 DEF Fit
    <3>10. QED
      BY <2>1, <2>4, <3>6, <3>7, <3>8, <3>9 DEF Halves
  <2>5. CASE Refused(Fit(job.drive))
    <3>1. Fit(job.drive) # "NeedsLargerDrive"
      BY Answers DEF Fit, TooSmall
    <3>2. QED
      BY <1>4, <2>5, <3>1
  <2>6. QED
    BY <2>2, <2>3, <2>4, <2>5
<1>8. CASE Grow
  <2>1. /\ search.pc = "grow" /\ search.result = "none" /\ UNCHANGED job
        /\ IsWindows(job.tree) /\ Fit(job.drive) \in TooSmall
        /\ search.fits \in Nat /\ Whole(search.fits, ALIGN)
    BY <1>1, <1>8 DEF Grow, Halves
  <2>2. Fit(job.drive)' = Fit(job.drive)
    BY <2>1 DEF Fit
  <2>3. \/ search' = [search EXCEPT !.fits = (2 * search.fits) % (U64 + 1)]
        \/ Fit(search.fits) = "Ok" /\ search' = [search EXCEPT !.pc = "halve", !.short = 0]
        \/ Refused(Fit(search.fits))
    BY <1>8, Zenon DEF Grow
  <2>4. CASE search' = [search EXCEPT !.fits = (2 * search.fits) % (U64 + 1)]
    <3> DEFINE old == search.fits
               new == (2 * old) % (U64 + 1)
    <3>1. search'.pc = "grow" /\ search'.result = "none" /\ search'.fits = new
      BY <1>1, <2>1, <2>4
    <3>2. old \in Nat /\ Whole(old, ALIGN)
      BY <2>1
    <3> HIDE DEF old
    <3>3. 2 * old = old + old /\ 2 * old \in Nat
      BY <3>2
    <3>4. Whole(2 * old, ALIGN)
      BY <1>2, <3>2, <3>3, WholeSum
    <3>5. U64 + 1 \in Nat \ {0} /\ Whole(U64 + 1, ALIGN)
      <4> DEFINE u == U64 + 1
      <4>1. u \in Nat \ {0} /\ u % ALIGN = 0
        BY <1>2, TreeAssumption
      <4> HIDE DEF u
      <4>2. u = (u \div ALIGN) * ALIGN /\ u \div ALIGN \in Int
        BY <1>2, <4>1, SMT
      <4>3. Whole(u, ALIGN)
        BY <4>2 DEF Whole
      <4>4. QED
        BY <4>1, <4>3 DEF u
    <3>6. new \in Nat /\ Whole(new, ALIGN)
      BY <1>2, <3>3, <3>4, <3>5, RestIsWhole
    <3> HIDE DEF new
    <3>7. QED
      BY <2>1, <2>2, <3>1, <3>6 DEF Halves
  <2>5. CASE Fit(search.fits) = "Ok" /\ search' = [search EXCEPT !.pc = "halve", !.short = 0]
    <3>1. /\ search'.pc = "halve" /\ search'.result = "none"
          /\ search'.fits = search.fits /\ search'.short = 0
      BY <1>1, <2>1, <2>5
    <3>2. search.fits # 0
      BY <1>2, <1>3, <2>5, NothingFitsOnNothing DEF Fit
    <3>3. search.fits > 0
      BY <2>1, <3>2
    <3>4. Fit(search.fits)' = "Ok"
      BY <2>1, <2>5, <3>1 DEF Fit
    <3>5. Whole(0, ALIGN)
      <4>1. 0 = 0 * ALIGN /\ 0 \in Int
        BY <1>2
      <4>2. QED
        BY <4>1, Zenon DEF Whole
    <3>6. QED
      BY <2>1, <2>2, <3>1, <3>3, <3>4, <3>5 DEF Halves
  <2>6. CASE Refused(Fit(search.fits))
    <3>1. Fit(search.fits) # "NeedsLargerDrive"
      BY Answers DEF Fit, TooSmall
    <3>2. QED
      BY <1>4, <2>6, <3>1
  <2>7. QED
    BY <2>3, <2>4, <2>5, <2>6
<1>9. CASE Halve
  <2> DEFINE fits  == search.fits
             short == search.short
             half  == (short + fits) \div 2
             mid   == RoundDown(half, ALIGN)
  <2>1. /\ search.pc = "halve" /\ search.result = "none" /\ UNCHANGED job
        /\ IsWindows(job.tree) /\ Fit(job.drive) \in TooSmall /\ Fit(fits) = "Ok"
        /\ fits \in Nat /\ Whole(fits, ALIGN) /\ short \in Nat /\ Whole(short, ALIGN)
        /\ short < fits /\ fits - short > ALIGN
        /\ short = 0 \/ Fit(short) \in TooSmall
    BY <1>1, <1>9 DEF Halve, Halves
  <2>2. Fit(job.drive)' = Fit(job.drive)
    BY <2>1 DEF Fit
  <2>3. \/ Fit(mid) \in TooSmall /\ search' = [search EXCEPT !.short = mid]
        \/ Fit(mid) = "Ok" /\ search' = [search EXCEPT !.fits = mid]
        \/ Refused(Fit(mid))
    BY <1>9, Zenon DEF Halve, Middle
  \* They are two mebibytes apart at least, so that the middle is between them.
  <2>4. mid \in Nat /\ Whole(mid, ALIGN) /\ short < mid /\ mid < fits
    <3> HIDE DEF fits, short
    <3>1. half \in Int /\ 2 * half <= short + fits /\ short + fits <= 2 * half + 1
      BY <2>1, SMT
    <3> HIDE DEF half
    <3>2. mid \in Int /\ Whole(mid, ALIGN) /\ mid <= half /\ half < mid + ALIGN
      BY <1>2, <3>1, RoundedIsWhole
    <3> HIDE DEF mid
    <3>3. short + ALIGN \in Int /\ Whole(short + ALIGN, ALIGN) /\ short + ALIGN < fits
      <4>1. ALIGN = 1 * ALIGN
        BY <1>2
      <4>2. Whole(ALIGN, ALIGN) /\ 1 \in Int
        BY <4>1 DEF Whole
      <4>3. Whole(short + ALIGN, ALIGN)
        BY <1>2, <2>1, <4>2, WholeSum
      <4>4. QED
        BY <1>2, <2>1, <4>3
    <3>4. short + ALIGN + ALIGN <= fits
      <4> DEFINE a == short + ALIGN
      <4>1. a \in Int /\ Whole(a, ALIGN) /\ a < fits /\ fits \in Int
        BY <2>1, <3>3
      <4> HIDE DEF a
      <4>2. a + ALIGN <= fits
        BY <1>2, <2>1, <4>1, WholeStep
      <4>3. QED
        BY <4>2 DEF a
    <3>5. short < mid
      BY <1>2, <2>1, <3>1, <3>2, <3>4
    <3>6. mid < fits
      BY <1>2, <2>1, <3>1, <3>2, <3>4
    <3>7. QED
      BY <2>1, <3>2, <3>5, <3>6
  <2> HIDE DEF mid, half
  <2>5. CASE Fit(mid) \in TooSmall /\ search' = [search EXCEPT !.short = mid]
    <3>1. /\ search'.pc = "halve" /\ search'.result = "none"
          /\ search'.fits = fits /\ search'.short = mid
      BY <1>1, <2>1, <2>5
    <3>2. Fit(search.fits)' = Fit(fits) /\ Fit(search.short)' = Fit(mid)
      BY <2>1, <3>1 DEF Fit
    <3> HIDE DEF fits, short
    <3>3. QED
      BY <2>1, <2>2, <2>4, <2>5, <3>1, <3>2 DEF Halves
  <2>6. CASE Fit(mid) = "Ok" /\ search' = [search EXCEPT !.fits = mid]
    <3>1. /\ search'.pc = "halve" /\ search'.result = "none"
          /\ search'.fits = mid /\ search'.short = short
      BY <1>1, <2>1, <2>6
    <3>2. Fit(search.fits)' = Fit(mid) /\ Fit(search.short)' = Fit(short)
      BY <2>1, <3>1 DEF Fit
    <3> HIDE DEF fits, short
    <3>3. QED
      BY <2>1, <2>2, <2>4, <2>6, <3>1, <3>2 DEF Halves
  <2>7. CASE Refused(Fit(mid))
    <3>1. Fit(mid) # "NeedsLargerDrive"
      BY Answers DEF Fit, TooSmall
    <3>2. QED
      BY <1>4, <2>7, <3>1
  <2>8. QED
    BY <2>3, <2>5, <2>6, <2>7
<1>10. CASE Needed
  <2>1. /\ search.pc = "halve" /\ search.fits - search.short <= ALIGN /\ UNCHANGED job
        /\ search' = [search EXCEPT !.pc = "end", !.result = "NeedsLargerDrive"]
    BY <1>10 DEF Needed, Refused
  <2>2. /\ search'.pc = "end" /\ search'.result = "NeedsLargerDrive"
        /\ search'.fits = search.fits /\ search'.short = search.short
    BY <1>1, <2>1
  <2>3. Fit(job.drive)' = Fit(job.drive) /\ Fit(search.fits)' = Fit(search.fits)
        /\ Fit(search.short)' = Fit(search.short)
    BY <2>1, <2>2 DEF Fit
  <2>4. QED
    BY <2>1, <2>2, <2>3 DEF Halves
<1>11. CASE Format \/ CopyEntry \/ Stream \/ StartRepair \/ RepairDir \/ Copied
  <2>1. UNCHANGED treeVars
    BY <1>11 DEF Format, CopyEntry, Stream, StartRepair, RepairDir, Copied, Copying
  <2>2. QED
    BY <1>5, <2>1
<1>12. CASE UNCHANGED vars
  <2>1. UNCHANGED treeVars
    BY <1>12 DEF vars, treeVars
  <2>2. QED
    BY <1>5, <2>1
<1>13. QED
  BY <1>6, <1>7, <1>8, <1>9, <1>10, <1>11, <1>12 DEF Next, TreeNext

LEMMA HalvesAreLeast == LargerDrivesHold /\ Planned /\ Halves => NeededIsLeast
<1> DEFINE fits  == search.fits
           short == search.short
<1> SUFFICES ASSUME LargerDrivesHold, Planned, Halves, search.result = "NeedsLargerDrive"
             PROVE  /\ fits > job.drive /\ fits % ALIGN = 0 /\ Fit(fits) = "Ok"
                    /\ \A k \in 0 .. (fits \div ALIGN) - 1 : Fit(k * ALIGN) # "Ok"
  BY DEF NeededIsLeast
<1>1. /\ job \in Jobs /\ job.drive \in Nat /\ job.sector \in Nat /\ ALIGN \in Nat \ {0}
      /\ job.tree \in Seq(TreeEntry)
  BY JobsAssumption, LayoutAssumption DEF Planned, TreeEntry
<1>2. /\ IsWindows(job.tree) /\ Fit(job.drive) \in TooSmall /\ Fit(fits) = "Ok"
      /\ fits \in Nat /\ Whole(fits, ALIGN) /\ short \in Nat /\ Whole(short, ALIGN)
      /\ short < fits /\ fits - short <= ALIGN
      /\ short = 0 \/ Fit(short) \in TooSmall
  BY DEF Halves
<1> HIDE DEF fits, short
<1>3. job.sector \in SECTOR_SIZES
  BY <1>2, Answers DEF Fit
<1>4. \A d \in Nat : Whole(d, ALIGN) => d % job.sector = 0
  <2> TAKE d \in Nat
  <2> HAVE Whole(d, ALIGN)
  <2>1. Whole(ALIGN, job.sector) /\ job.sector \in Nat \ {0}
    BY <1>3, AlignIsWhole
  <2>2. Whole(d, job.sector)
    BY <1>1, <2>1, WholeOfWhole
  <2>3. QED
    BY <2>1, <2>2, NoRest
<1>5. \A d, e \in Nat : d <= e /\ Whole(d, ALIGN) /\ Fit(e) \in TooSmall => Fit(d) \in TooSmall
  <2> TAKE d, e \in Nat
  <2> HAVE d <= e /\ Whole(d, ALIGN) /\ Fit(e) \in TooSmall
  <2>1. d % job.sector = 0
    BY <1>4
  <2>2. QED
    BY <1>1, <1>2, <2>1, LargerIsNotTooSmall DEF Fit
<1>6. "Ok" \notin TooSmall
  BY DEF TooSmall
<1>7. fits > job.drive
  <2> SUFFICES ASSUME fits <= job.drive PROVE FALSE
    BY <1>1, <1>2
  <2>1. Fit(fits) \in TooSmall
    BY <1>1, <1>2, <1>5
  <2>2. QED
    BY <1>2, <1>6, <2>1
<1>8. fits % ALIGN = 0
  BY <1>1, <1>2, NoRest
<1>9. \A k \in 0 .. (fits \div ALIGN) - 1 : Fit(k * ALIGN) # "Ok"
  <2> DEFINE q == fits \div ALIGN
  <2>1. q \in Int /\ q * ALIGN = fits
    BY <1>1, <1>2, Quotient, WholeQuotient
  <2> HIDE DEF q
  <2> SUFFICES ASSUME NEW k \in 0 .. q - 1 PROVE Fit(k * ALIGN) # "Ok"
    BY DEF q
  <2> DEFINE d == k * ALIGN
  <2>2. k \in Nat /\ k + 1 <= q
    BY <2>1
  <2>3. d \in Nat /\ Whole(d, ALIGN)
    <3>1. d \in Nat /\ k \in Int
      BY <1>1, <2>2
    <3>2. Whole(d, ALIGN)
      BY <3>1, Zenon DEF Whole
    <3>3. QED
      BY <3>1, <3>2
  <2>4. d + ALIGN <= fits
    <3>1. (k + 1) * ALIGN <= q * ALIGN
      BY <1>1, <2>1, <2>2, ProductGrows
    <3>2. (k + 1) * ALIGN = d + ALIGN
      BY <1>1, <2>2
    <3>3. QED
      BY <2>1, <3>1, <3>2
  <2> HIDE DEF d
  <2>5. d <= short
    BY <1>1, <1>2, <2>3, <2>4
  <2>6. CASE short = 0
    <3>1. d = 0
      BY <2>3, <2>5, <2>6
    <3>2. BootPartitionBytes(job.tree) \in Nat
      BY <1>1, BootBytesIsNat
    <3>3. Fit(d) # "Ok"
      BY <1>1, <3>1, <3>2, NothingFitsOnNothing DEF Fit
    <3>4. QED
      BY <3>3 DEF d
  <2>7. CASE Fit(short) \in TooSmall
    <3>1. Fit(d) \in TooSmall
      BY <1>2, <1>5, <2>3, <2>5, <2>7
    <3>2. QED
      BY <1>6, <3>1 DEF d
  <2>8. QED
    BY <1>2, <2>6, <2>7
<1>10. QED
  BY <1>2, <1>7, <1>8, <1>9

\* For every tree that a source can give, every drive and every sector, where one
\* mebibyte more never makes a drive too small for a tree: the drive that the error
\* names is larger than the one that was refused, it does hold the layout, and no
\* drive of fewer whole mebibytes does (WindowsTree::needed_drive_bytes).
THEOREM NeededIsLeastAlways ==
  ASSUME LargerDrivesHold
  PROVE  Spec => []NeededIsLeast
<1>1. Init => Planned /\ Halves
  BY InitPlanned, InitHalves
<1>2. Planned /\ Halves /\ [Next]_vars => Planned' /\ Halves'
  BY StepPlanned, StepHalves
<1>3. Planned /\ Halves => NeededIsLeast
  BY HalvesAreLeast
<1>4. QED
  BY <1>1, <1>2, <1>3, PTL DEF Spec

=============================================================================
