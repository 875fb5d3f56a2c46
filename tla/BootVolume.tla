---------------------------- MODULE BootVolume -----------------------------
(***************************************************************************)
(* Partition 1 of a Windows drive, once WindowsTree has a layout: how      *)
(* large its FAT32 volume is (fat32.rs), how each file comes out of the    *)
(* source (copy.rs and stream.rs), and the repair of `.` and `..`          *)
(* (dot_entries.rs).                                                       *)
(*                                                                         *)
(* fatfs is not under this repository: what it makes of a new directory is *)
(* what dot_entries.rs says it makes, with a long name for each name, and  *)
(* a directory takes one more cluster when an entry goes past its last.    *)
(***************************************************************************)
EXTENDS WindowsTree

CONSTANTS
  RESERVED_SECTORS, MIN_CLUSTERS, MAX_CLUSTER_BYTES, MAX_FAT32_FILE_BYTES,
  CHUNK_BYTES,  \* how much of a file one read takes
  SLOT_BYTES,   \* one entry of a directory
  SLOT_UNITS,   \* the UTF-16 units that one entry of a long name holds
  LabelSlots,   \* how many entries of the root the label takes: none, or one
  Short,        \* the short name that fatfs gives to a name, in upper case
  Gives         \* by how many bytes a file may differ from its size in the tree

\* The two dot entries and their long names fit in the first cluster.
ASSUME SlotAssumption ==
  /\ {SLOT_BYTES, SLOT_UNITS} \subseteq Nat \ {0} /\ LabelSlots \in {0, 1}
  /\ \A sector \in SECTOR_SIZES : 4 * SLOT_BYTES <= sector

VARIABLES
  volume,  \* the FAT32 volume: its free clusters, directories and files
  copy     \* the locals of copy_to_fat32_with and repair_dot_entries

vars == <<job, layout, search, volume, copy>>

----------------------------------------------------------------------------
(* The size of a FAT32 volume.                                             *)

\* clusters: how many clusters of per_cluster sectors a volume holds.
Fat32Clusters(sectors, sector, perCluster) ==
  LET table == DivCeil(sectors - RESERVED_SECTORS + 2 * perCluster,
                       perCluster * (sector \div 4) + 2)
  IN  (sectors - RESERVED_SECTORS - 2 * table) \div perCluster

\* cluster_bytes: the largest cluster with which the volume is FAT32, if any.
Fat32ClusterBytes(sectors, sector) ==
  LET largest == IF MAX_CLUSTER_BYTES < sector THEN sector ELSE MAX_CLUSTER_BYTES
      good    == {bytes \in {largest \div (2 ^ k) : k \in 0 .. 12} :
                    /\ bytes >= sector
                    /\ Fat32Clusters(sectors, sector, bytes \div sector) >= MIN_CLUSTERS}
  IN  {bytes \in good : \A other \in good : other <= bytes}

----------------------------------------------------------------------------
(* The clusters that a directory takes.                                    *)

\* How many entries a directory has that holds some files and directories: those
\* that format_fat32 or create_dir put there, and for each name its long name
\* and its short entry.
Slots(dir, within) ==
  (IF dir = <<>> THEN LabelSlots ELSE 4)
    + MapThenSumSet(LAMBDA e : 1 + DivCeil(UnitsOf[NameOf(e)], SLOT_UNITS), within)

\* The clusters of a directory, which has one from the start.
Chain(dir, within, bytes) ==
  LET clusters == DivCeil(SLOT_BYTES * Slots(dir, within), bytes)
  IN  IF clusters = 0 THEN 1 ELSE clusters

----------------------------------------------------------------------------
(* The copy.                                                               *)

RootCluster == 2

\* What fatfs makes of a new directory: a long-name entry before each dot
\* entry, and the cluster of the root where the format asks for zero.
NewHead(cluster, above) ==
  << [name |-> "long"], [name |-> ".", cluster |-> cluster],
     [name |-> "long"], [name |-> "..", cluster |-> above] >>

Root == [path |-> <<>>, cluster |-> RootCluster, head |-> <<>>]

Names(path, dir) == {e \in volume.dirs \cup volume.files : e.path # <<>> /\ ParentOf(e) = dir}

\* The entries of boot_source: autounattend.xml goes in by its path, which
\* does not come between a directory and what that holds.
BootSource(tree) ==
  LET boot == BootEntries(tree)
      file == [path |-> UNATTEND, dir |-> FALSE, bytes |-> UnattendBytes]
  IN  {InsertAt(boot, p, file) : p \in {q \in 1 .. Len(boot) + 1 :
                                          q = Len(boot) + 1 \/ Len(boot[q].path) = 1}}

CopyInit ==
  /\ volume = [clusterBytes |-> 0, free |-> 0, dirs |-> {}, files |-> {}]
  /\ copy = [pc |-> "format", todo |-> <<>>, file |-> <<>>, left |-> 0, result |-> "none",
             pending |-> <<>>]

Fail(why) == copy' = [copy EXCEPT !.pc = "end", !.result = why]

Copying(pc) == search.result = "Ok" /\ copy.pc = pc /\ UNCHANGED treeVars

\* format_fat32, which refuses a partition that is too small or whose sectors
\* FAT32 cannot count, and the files
\* that copy_to_fat32_with refuses before it writes.
Format ==
  /\ Copying("format")
  /\ \E plan \in layout : \E entries \in BootSource(job.tree) :
       LET sectors == plan.boot.length \div plan.sector
           size    == Fat32ClusterBytes(sectors, plan.sector)
           tooLarge == \E i \in 1 .. Len(entries) :
                         ~entries[i].dir /\ entries[i].bytes > MAX_FAT32_FILE_BYTES
       IN  \/ (size = {} \/ sectors > U32) /\ Fail("PartitionTooSmall") /\ UNCHANGED volume
           \/ \E bytes \in size :
                /\ sectors <= U32
                /\ volume' = [clusterBytes |-> bytes, dirs |-> {Root}, files |-> {},
                     free |-> Fat32Clusters(sectors, plan.sector, bytes \div plan.sector) - 1]
                /\ IF tooLarge THEN Fail("FileTooLarge")
                   ELSE copy' = [copy EXCEPT !.pc = "copy", !.todo = entries]

\* refuse_second_name: an entry of the directory has the name, or has it as its
\* short name.
SecondName(entry) ==
  \E e \in Names(entry.path, ParentOf(entry)) :
    Up[NameOf(entry)] \in {Up[NameOf(e)], Up[Short[NameOf(e)]]}

\* By how many clusters the chain of a directory grows with one more entry.
Grows(entry) ==
  LET dir    == ParentOf(entry)
      before == Names(entry.path, dir)
      chain(within) == Chain(dir, within, volume.clusterBytes)
  IN  chain(before \cup {entry}) - chain(before)

\* copy_entries, one entry: a directory, or the start of a file, whose reader
\* gives some number of bytes.  create_dir and create_file need room for the
\* entry in the directory above, and create_dir one cluster more.
CopyEntry ==
  /\ Copying("copy") /\ copy.todo # <<>>
  /\ LET e     == Head(copy.todo)
         above == {d \in volume.dirs : Fold(d.path) = Fold(ParentOf(e))}
         next  == [copy EXCEPT !.todo = Tail(@)]
         takes == Grows(e) + (IF e.dir THEN 1 ELSE 0)
         full  == takes > volume.free
         \* A number for the first cluster: later ones come after it, in order.
         new   == RootCluster + Cardinality(volume.dirs)
     IN  \/ (above = {} \/ SecondName(e)) /\ Fail("CannotCopy") /\ UNCHANGED volume
         \/ above # {} /\ ~SecondName(e) /\ full /\ Fail("Full") /\ UNCHANGED volume
         \/ /\ above # {} /\ ~SecondName(e) /\ ~full /\ e.dir
            /\ \E d \in above :
                 /\ volume' = [volume EXCEPT !.free = @ - takes, !.dirs = @ \cup
                      {[path |-> e.path, cluster |-> new, head |-> NewHead(new, d.cluster)]}]
                 /\ copy' = next
         \/ /\ above # {} /\ ~SecondName(e) /\ ~full /\ ~e.dir
            \* The answer file is in memory, and gives what it holds.
            /\ \E gives \in IF e.path = UNATTEND THEN {e.bytes}
                            ELSE {n \in {e.bytes + d : d \in Gives} : n >= 0} :
                 copy' = [next EXCEPT !.pc = "stream", !.left = gives,
                            !.file = <<[path |-> e.path, bytes |-> e.bytes, done |-> 0]>>]
            /\ volume' = [volume EXCEPT !.free = @ - takes]

Current == copy.file[1]

\* The end of a file: its digest goes into the manifest.
Keep(file) ==
  /\ volume' = [volume EXCEPT !.files = @ \cup {file}]
  /\ copy' = [copy EXCEPT !.pc = "copy", !.file = <<>>]

\* stream_file, one chunk: what fill gives, what goes to the volume, and the
\* number of bytes that the tree said.
Chunk == IF copy.left < CHUNK_BYTES THEN copy.left ELSE CHUNK_BYTES

TakesClusters(file, n) ==
  DivCeil(file.done + n, volume.clusterBytes) - DivCeil(file.done, volume.clusterBytes)

\* A mistake: a file that ends early is taken as it is.
StreamShort ==
  /\ Copying("stream")
  /\ \/ Chunk > 0 /\ Current.done + Chunk > Current.bytes /\ Fail("Source") /\ UNCHANGED volume
     \/ /\ Chunk > 0 /\ Current.done + Chunk <= Current.bytes
        /\ volume' = [volume EXCEPT !.free = @ - TakesClusters(Current, Chunk)]
        /\ copy' = [copy EXCEPT !.left = @ - Chunk, !.file[1].done = @ + Chunk]
     \/ Chunk = 0 /\ Keep(Current)

Stream ==
  /\ Copying("stream")
  /\ \/ Fail("Source") /\ UNCHANGED volume                 \* the source cannot be read
     \/ /\ Chunk > 0 /\ Current.done + Chunk > Current.bytes
        /\ Fail("Source") /\ UNCHANGED volume              \* more than the tree said
     \/ /\ Chunk > 0 /\ Current.done + Chunk <= Current.bytes
        /\ IF TakesClusters(Current, Chunk) > volume.free
           THEN Fail("Full") /\ UNCHANGED volume
           ELSE /\ volume' = [volume EXCEPT !.free = @ - TakesClusters(Current, Chunk)]
                /\ copy' = [copy EXCEPT !.left = @ - Chunk, !.file[1].done = @ + Chunk]
     \/ /\ Chunk = 0
        /\ IF Current.done # Current.bytes THEN Fail("Source") /\ UNCHANGED volume ELSE Keep(Current)

----------------------------------------------------------------------------
(* The repair of the dot entries.                                          *)

\* The last entry was copied, and the volume is unmounted.
StartRepair ==
  /\ Copying("copy") /\ copy.todo = <<>>
  /\ copy' = [copy EXCEPT !.pc = "repair",
                !.pending = <<[dir |-> RootCluster, above |-> 0]>>]
  /\ UNCHANGED volume

DirAt(cluster) == CHOOSE d \in volume.dirs : d.cluster = cluster

Subdirectories(cluster) ==
  {d \in volume.dirs : d.path # <<>> /\ ParentOf(d) = DirAt(cluster).path}

\* repair_one: the two dot entries in front, and `..` with its cluster.  The
\* long names of what fatfs makes become free entries after them.
Repaired(dir, above) ==
  LET free == [name |-> "free"]
      head == IF dir.head[1].name = "." THEN dir.head
              ELSE <<dir.head[2], dir.head[4], free, free>>
  IN  [dir EXCEPT !.head = [head EXCEPT ![2].cluster = above]]

\* A mistake: what is in a directory gets the cluster above that directory.
RepairDirUpward ==
  LET top  == Last(copy.pending)
      subs == Subdirectories(top.dir)
  IN  /\ Copying("repair") /\ copy.pending # <<>>
      /\ volume' = [volume EXCEPT !.dirs = (@ \ subs) \cup {Repaired(d, top.above) : d \in subs}]
      /\ copy' = [copy EXCEPT !.pending = Front(@) \o
                    SetToSeq({[dir |-> d.cluster, above |-> top.above] : d \in subs})]

\* One turn of repair_dot_entries: every directory that one directory holds.
RepairDir ==
  LET top  == Last(copy.pending)
      subs == Subdirectories(top.dir)
  IN  /\ Copying("repair") /\ copy.pending # <<>>
      /\ volume' = [volume EXCEPT !.dirs = (@ \ subs) \cup {Repaired(d, top.above) : d \in subs}]
      /\ copy' = [copy EXCEPT !.pending = Front(@) \o
                    SetToSeq({[dir |-> d.cluster, above |-> d.cluster] : d \in subs})]

Copied ==
  /\ Copying("repair") /\ copy.pending = <<>>
  /\ Fail("Ok")
  /\ UNCHANGED volume

Init == TreeInit /\ CopyInit

Next ==
  \/ TreeNext /\ UNCHANGED <<volume, copy>>
  \/ Format \/ CopyEntry \/ Stream \/ StartRepair \/ RepairDir \/ Copied

\* The program goes on by itself.
Spec == Init /\ [][Next]_vars /\ WF_vars(Next)

----------------------------------------------------------------------------
(* Properties                                                              *)

\* What FAT32 takes of partition 1 that boot_partition_bytes does not count one
\* by one: the tables and what lies before them and after the last cluster, the
\* root, and the clusters of each directory past its first.
Uncounted ==
  LET tree  == BootEntries(job.tree)
      paths == {<<>>} \cup {e.path : e \in {x \in ToSet(tree) : x.dir}}
      \* The answer file is counted as one cluster, and its name is in the root.
      within(dir) == {e \in ToSet(tree) : ParentOf(e) = dir}
                     \cup (IF dir = <<>> THEN {[path |-> UNATTEND]} ELSE {})
      chain(dir)  == Chain(dir, within(dir), volume.clusterBytes)
      clusters    == MapThenSumSet(LAMBDA dir : chain(dir) - 1, paths) + 1
  IN  {plan.boot.length
       - volume.clusterBytes * (Fat32Clusters(plan.boot.length \div plan.sector, plan.sector,
                                              volume.clusterBytes \div plan.sector) - clusters)
         : plan \in layout}

\* Partition 1, as the layout sizes it, is always large enough to be FAT32; and it
\* takes the whole tree unless the tables and the longer directories alone need
\* more than BOOT_ROOM.  windows.rs counts with numbers of its own, and fatfs
\* takes all of this out of the same bytes.
BootHasRoom ==
  /\ copy.result # "PartitionTooSmall"
  /\ copy.result = "Full" => \A bytes \in Uncounted : bytes > BOOT_ROOM

\* Each file that the manifest names holds just the bytes that the tree gave as
\* its size, and a copy that ends well has every file of partition 1 and the
\* answer file of Burnout, with no other of that name.
FilesAreWhole ==
  /\ \A file \in volume.files : file.done = file.bytes
  /\ copy.result = "Ok" =>
       LET files == {e \in ToSet(BootEntries(job.tree)) : ~e.dir}
       IN  /\ {f.path : f \in volume.files} = {e.path : e \in files} \cup {UNATTEND}
           /\ \A e \in files : \E f \in volume.files : f.path = e.path /\ f.done = e.bytes
           /\ Cardinality({f \in volume.files : Fold(f.path) = UNATTEND}) = 1

\* After the repair each directory starts with `.` for itself and `..` for the
\* directory above it, which is cluster 0 below the root, and has no long name
\* before them, at every depth.
DotsAreRight == copy.result = "Ok" =>
  \A d \in volume.dirs \ {Root} :
    LET above == CHOOSE a \in volume.dirs : a.path = ParentOf(d)
    IN  /\ d.head[1] = [name |-> ".", cluster |-> d.cluster]
        /\ d.head[2] = [name |-> "..", cluster |-> IF above = Root THEN 0 ELSE above.cluster]
        /\ \A k \in 3 .. 4 : d.head[k].name = "free"

=============================================================================
