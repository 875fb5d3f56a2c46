----------------------------- MODULE LinuxDrives -----------------------------
(***************************************************************************)
(* What the Linux layer (platform/linux/parse.rs) makes of sysfs and of     *)
(* the mount table: which devices are drives, which of them the running     *)
(* system needs, and which mounts lie on a drive.  A machine m is           *)
(*   disks    /sys/block: the attributes of each device; -1 for no size     *)
(*   above    the drive above each partition, from the device tree          *)
(*   slaves   what each mapped or mirrored device sits on                   *)
(*   mounts   the lines of mountinfo: point, number ("0" for a file system  *)
(*            with no device number, else the device that carries it),      *)
(*            source (the name below /dev, or None), and on: the device     *)
(*            that really carries it, which no line says                    *)
(*   swaps    the devices of /proc/swaps                                    *)
(*   backing  the file of each loop device, as [dir, file, on]              *)
(*   holds    the <<dir, file>> that can be read under each mount point     *)
(***************************************************************************)
EXTENDS Integers, Sequences, FiniteSets, SequencesExt, DriveOrder

CONSTANTS
  Stem,       \* the letters that each device name starts with
  SIZE_UNIT,  \* the unit of the size attribute
  U64         \* the largest count of bytes

\* No value: an absent attribute, or a source that is no path below /dev.
None == "none"

NOT_A_DRIVE == {"loop", "ram", "zram", "sr", "dm-", "md", "nbd", "fd"}

IsDriveName(n) == Stem[n] \notin NOT_A_DRIVE

\* is_listable: the kernel shows the device, and it has a size that fits.
IsListable(m, n) ==
  /\ IsDriveName(n)
  /\ ~m.disks[n].hidden
  /\ m.disks[n].size \in 1 .. U64 \div SIZE_UNIT

\* The nearer bus wins: the path of a USB drive names its SCSI host as well.
NEARNESS ==
  << <<"usb", "Usb", "External">>, <<"mmc_host", "Mmc", "External">>,
     <<"firewire", "FireWire", "External">>, <<"nvme", "Nvme", "Internal">>,
     <<"virtio", "Virtual", "Internal">>, <<"ata", "Sata", "Internal">>,
     <<"host", "Scsi", "Internal">> >>

BusOf(path) ==
  LET named == SelectSeq(NEARNESS, LAMBDA rule : rule[1] \in path)
  IN  IF named = <<>> THEN <<"Unknown", "Unknown">> ELSE <<named[1][2], named[1][3]>>

\* disk_for_dev: the device of a number, or the drive above it when it is a
\* partition; no drive when the number has no link.
DiskForDev(m, number) ==
  IF number \in DOMAIN m.above THEN {m.above[number]}
  ELSE {number} \cap DOMAIN m.disks

PartitionToDisk(m, n) == IF n \in DOMAIN m.above THEN m.above[n] ELSE n

Slaves(m, n) == IF n \in DOMAIN m.slaves THEN m.slaves[n] ELSE {}

\* What a device lies on: the part of sysfs that the walk below reads.
Devices(m) == [above |-> m.above, slaves |-> m.slaves]

Connected(d) ==
  UNION {{n} \cup Slaves(d, n) \cup {PartitionToDisk(d, s) : s \in Slaves(d, n)} : n \in DOMAIN d.slaves}

\* A mistake: the number of a partition is left on the name of a slave.
UnderByName(d, n) == Slaves(d, n)

\* The disks of the slaves of a device.
Under(d, n) == {PartitionToDisk(d, s) : s \in Slaves(d, n)}

\* One call of walk_slaves: a name is seen once, a drive ends its branch, and
\* the disks of the slaves of any other device come next.
Visit(d, walk) ==
  LET n    == Head(walk.todo)
      seen == [walk EXCEPT !.todo = Tail(@), !.seen = @ \cup {n}]
  IN  IF n \in walk.seen THEN [walk EXCEPT !.todo = Tail(@)]
      ELSE IF IsDriveName(n) THEN [seen EXCEPT !.found = @ \cup {n}]
      ELSE [seen EXCEPT !.todo = SetToSeq(Under(d, n)) \o @]

Walks(names) == [todo : Seq(names), found : SUBSET names, seen : SUBSET names]

\* walk_slaves from a device: todo is what its calls have still to visit.
WalkSlaves(d, start) ==
  LET found[walk \in Walks({start} \cup Connected(d))] ==
        IF walk.todo = <<>> THEN walk.found ELSE found[Visit(d, walk)]
  IN  found[[todo |-> <<start>>, found |-> {}, seen |-> {}]]

BaseDisks(m, n) == WalkSlaves(Devices(m), n)

\* The device that a line of mountinfo leads to, at most one: by its number,
\* or by its source where the file system has no number of its own.
Behind(m, mount) ==
  LET named == IF mount.number = "0" THEN {mount.source} \ {None} ELSE DiskForDev(m, mount.number)
  IN  {PartitionToDisk(m, n) : n \in named}

DrivesUnder(m, mount) == UNION {BaseDisks(m, n) : n \in Behind(m, mount)}

IsLoop(name) == name # None /\ Stem[name] = "loop"

\* The mounts under which the file of a loop device is found by its name.
Candidates(m, loop) ==
  {c \in m.mounts : /\ ~IsLoop(c.source)
                    /\ <<m.backing[loop].dir, m.backing[loop].file>> \in m.holds[c.point]}

\* loop_backed_disks: one device that holds the file is an answer; two are a
\* guess.  A disc counts as a device that holds it, and is no drive.
LoopBackedDisks(m) ==
  UNION {LET candidates == Candidates(m, mount.source)
             holders    == UNION {Behind(m, c) : c \in candidates}
         IN  IF Cardinality(holders) = 1 THEN UNION {DrivesUnder(m, c) : c \in candidates} ELSE {} :
           mount \in {x \in m.mounts : IsLoop(x.source) /\ x.source \in DOMAIN m.backing}}

MARKED == {"/", "/boot", "/boot/efi"}

LinuxSystem(m) ==
  (UNION {DrivesUnder(m, mount) : mount \in {x \in m.mounts : x.point \in MARKED}})
    \cup (UNION {BaseDisks(m, PartitionToDisk(m, s)) : s \in m.swaps})
    \cup LoopBackedDisks(m)

\* The mounts that the unmount of a drive takes: all that lead to it, also
\* through a mapped device.
MountPointsForDisk(m, disk) == {x.point : x \in {y \in m.mounts : disk \in DrivesUnder(m, y)}}

\* drive: one line of the list.
LinuxDrive(m, n, system) ==
  LET disk == m.disks[n]
      bus  == BusOf(disk.path)
  IN  DriveInfo(n, disk.size * SIZE_UNIT, n \in system, bus[1],
                disk.removable, bus[2] = "External", disk.ro)

LinuxDrives(m) ==
  LET system == LinuxSystem(m)
  IN  {LinuxDrive(m, n, system) : n \in {x \in DOMAIN m.disks : IsListable(m, x)}}
=============================================================================
