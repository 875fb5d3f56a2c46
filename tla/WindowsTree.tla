---------------------------- MODULE WindowsTree ----------------------------
(***************************************************************************)
(* The tree of a Windows ISO, split onto two partitions, and the drive     *)
(* that it needs: windows.rs.                                              *)
(*                                                                         *)
(* A tree is a sequence of entries in the order of TreePath, with paths of *)
(* names; Up of ExfatPlace gives one name for all that differ in case.     *)
(***************************************************************************)
EXTENDS ExfatPlace

CONSTANTS
  BOOT_FILES,   \* the paths of the UEFI boot files, each of one architecture
  WIM, ESD,     \* the paths of the install image, either form
  UNATTEND,     \* the path of autounattend.xml
  UnattendBytes,
  CLUSTER,      \* the cluster of FAT32 that the room is counted in
  BOOT_ROOM,    \* room on partition 1 past the boot files
  U64,          \* the largest number of 64 bits
  Jobs          \* trees, and the size and the sector size of a drive for each

ASSUME TreeAssumption ==
  /\ {CLUSTER, U64} \subseteq Nat \ {0} /\ (U64 + 1) % ALIGN = 0
  /\ {BOOT_ROOM, UnattendBytes} \subseteq Nat

\* The image is in a directory, and the answer file is not.
ASSUME PathAssumption ==
  /\ \A path \in {WIM, ESD} : path \in Seq(TreeNames) /\ Len(path) > 1
  /\ \E name \in TreeNames : UNATTEND = <<name>> /\ Up[name] = name

\* A tree gives no path twice, and with each entry the directory that holds it.
ASSUME JobsAssumption == \A j \in Jobs :
  /\ j.drive \in Nat /\ j.sector \in Nat
  /\ j.tree \in Seq([path : Seq(TreeNames) \ {<<>>}, dir : BOOLEAN, bytes : Nat])
  /\ \A i, k \in 1 .. Len(j.tree) : j.tree[i].path = j.tree[k].path => i = k
  /\ \A i \in 1 .. Len(j.tree) : Len(j.tree[i].path) > 1 =>
       \E k \in 1 .. Len(j.tree) : j.tree[k].dir /\ j.tree[k].path = ParentOf(j.tree[i])

VARIABLES
  job,     \* the tree of the image, and the drive
  layout,  \* the layout that plan gives, once it gives one
  search   \* the locals of plan and needed_drive_bytes

treeVars == <<job, layout, search>>

----------------------------------------------------------------------------
(* WindowsTree::new and what the two partitions hold.                      *)

Fold(path) == [k \in DOMAIN path |-> Up[path[k]]]

\* The files of the tree at one of some paths, in any case.
FilesAt(tree, paths) == {i \in 1 .. Len(tree) : ~tree[i].dir /\ Fold(tree[i].path) \in paths}

Images(tree) == FilesAt(tree, {WIM, ESD})

\* The boot files that the tree holds: one for each architecture that it starts.
Starts(tree) == {path \in BOOT_FILES : FilesAt(tree, {path}) # {}}

IsWindows(tree) == Cardinality(Images(tree)) = 1 /\ Cardinality(Starts(tree)) = 1

ImageOf(tree) == tree[CHOOSE i \in Images(tree) : TRUE]

\* Every entry but the install image and an autounattend.xml of the tree.
BootEntries(tree) ==
  LET leftOut(e) == e.path = ImageOf(tree).path \/ (~e.dir /\ Fold(e.path) = UNATTEND)
  IN  FlattenSeq([i \in 1 .. Len(tree) |-> IF leftOut(tree[i]) THEN <<>> ELSE <<tree[i]>>])

\* install_entries: the image, and the directory that holds it.
InstallEntries(tree) ==
  << [path |-> ParentOf(ImageOf(tree)), dir |-> TRUE, bytes |-> 0], ImageOf(tree) >>

\* What the room of partition 1 is counted from.
BootBytes(tree) ==
  LET boot == BootEntries(tree)
      \* A directory takes one cluster, whatever it holds.
      size(i) == IF boot[i].dir THEN CLUSTER ELSE RoundUp(boot[i].bytes, CLUSTER)
  IN  Total([i \in 1 .. Len(boot) |-> size(i)])

\* A mistake: no room past the boot files.
BootPartitionBare(tree) == RoundUp(BootBytes(tree) + CLUSTER, ALIGN)

BootPartitionBytes(tree) == RoundUp(BootBytes(tree) + CLUSTER + BOOT_ROOM, ALIGN)

\* fitting: why a drive does not hold the layout of a tree, or "Ok".
Fitting(tree, drive, sector) ==
  LET bytes == BootPartitionBytes(tree)
      plan  == Layout(drive, sector, bytes)
  IN  IF Refusal(drive, sector, bytes) # "none" THEN Refusal(drive, sector, bytes)
      ELSE Fits(plan.install.length, sector, InstallEntries(tree), TRUE)

\* The answers that a larger drive changes.
TooSmall == {"TooSmall", "VolumeFull", "PartitionTooSmall"}

\* What a search by halves takes for granted: with one mebibyte more, up to the
\* last that the table can name, no drive comes to be too small.
LargerDrivesHold == \A j \in Jobs : IsWindows(j.tree) =>
  \A k \in 0 .. (MBR_SECTORS * j.sector) \div ALIGN - 1 :
    Fitting(j.tree, k * ALIGN, j.sector) \notin TooSmall =>
      Fitting(j.tree, (k + 1) * ALIGN, j.sector) \notin TooSmall

----------------------------------------------------------------------------
(* plan and needed_drive_bytes.                                            *)

Fit(drive) == Fitting(job.tree, drive, job.sector)

TreeInit ==
  /\ job \in Jobs
  /\ layout = {}
  /\ search = [pc |-> "split", fits |-> 0, short |-> 0, result |-> "none"]

Refused(why) == search' = [search EXCEPT !.pc = "end", !.result = why]

\* WindowsTree::new, as windows_job calls it.
Split ==
  /\ search.pc = "split"
  /\ IF IsWindows(job.tree) THEN search' = [search EXCEPT !.pc = "plan"] ELSE Refused("Source")
  /\ UNCHANGED <<job, layout>>

\* plan: the layout, or the search for the drive that the tree needs.
PlanDrive ==
  /\ search.pc = "plan"
  /\ LET fit   == Fit(job.drive)
         twice == 2 * (BootPartitionBytes(job.tree) + RoundUp(ImageOf(job.tree).bytes, ALIGN))
     IN  \/ fit = "Ok"
            /\ layout' = {Layout(job.drive, job.sector, BootPartitionBytes(job.tree))}
            /\ search' = [search EXCEPT !.pc = "end", !.result = "Ok"]
         \/ fit \in TooSmall
            /\ search' = [search EXCEPT !.pc = "grow", !.fits = twice]
            /\ UNCHANGED layout
         \/ fit \notin TooSmall \cup {"Ok"} /\ Refused(fit) /\ UNCHANGED layout
  /\ UNCHANGED job

\* The loop that doubles.  A release build keeps the low 64 bits of the product.
Grow ==
  /\ search.pc = "grow"
  /\ LET fit == Fit(search.fits)
     IN  IF fit \in TooSmall THEN search' = [search EXCEPT !.fits = (2 * @) % (U64 + 1)]
         ELSE IF fit = "Ok" THEN search' = [search EXCEPT !.pc = "halve", !.short = 0]
         ELSE Refused(fit)
  /\ UNCHANGED <<job, layout>>

\* The loop that halves, down to one mebibyte.
Middle == RoundDown((search.short + search.fits) \div 2, ALIGN)

\* A mistake: the search goes on past the middle that was too small.
HalveDown ==
  /\ search.pc = "halve" /\ search.fits - search.short > ALIGN
  /\ search' = IF Fit(Middle) \in TooSmall THEN [search EXCEPT !.short = Middle + ALIGN]
                                           ELSE [search EXCEPT !.fits = Middle]
  /\ UNCHANGED <<job, layout>>

Halve ==
  /\ search.pc = "halve" /\ search.fits - search.short > ALIGN
  /\ LET fit == Fit(Middle)
     IN  IF fit \in TooSmall THEN search' = [search EXCEPT !.short = Middle]
         ELSE IF fit = "Ok" THEN search' = [search EXCEPT !.fits = Middle]
         ELSE Refused(fit)
  /\ UNCHANGED <<job, layout>>

\* The answer, which the error names.
Needed ==
  /\ search.pc = "halve" /\ search.fits - search.short <= ALIGN
  /\ Refused("NeedsLargerDrive")
  /\ UNCHANGED <<job, layout>>

TreeNext == Split \/ PlanDrive \/ Grow \/ Halve \/ Needed

----------------------------------------------------------------------------
(* Properties                                                              *)

\* The partitions of a layout start and end on a mebibyte, do not meet, end on
\* the drive, and hold what they are for; and the table names just them, in
\* its 32 bits.
LayoutHolds == \A plan \in layout :
  LET parts == <<plan.boot, plan.install>>
  IN  /\ \A k \in 1 .. 2 : parts[k].start % ALIGN = 0 /\ parts[k].length % ALIGN = 0
                           /\ parts[k].length > 0
      /\ plan.boot.start > 0 /\ End(plan.boot) <= plan.install.start
      /\ End(plan.install) <= plan.drive
      /\ plan.boot.length >= BootBytes(job.tree) + CLUSTER
      /\ plan.install.length >= ImageOf(job.tree).bytes
      /\ \A k \in 1 .. 2 : /\ Mbr(plan)[k].first * plan.sector = parts[k].start
                           /\ Mbr(plan)[k].count * plan.sector = parts[k].length
      /\ plan.drive - End(plan.install) < plan.beyond + ALIGN

\* The drive that the error names is larger than the drive that was refused, it
\* does hold the layout, and no drive of fewer whole mebibytes does.
NeededIsLeast == search.result = "NeedsLargerDrive" =>
  /\ search.fits > job.drive
  /\ search.fits % ALIGN = 0
  /\ Fit(search.fits) = "Ok"
  /\ \A k \in 0 .. (search.fits \div ALIGN) - 1 : Fit(k * ALIGN) # "Ok"

=============================================================================
