---------------------------- MODULE WindowsDrives ----------------------------
(***************************************************************************)
(* What the Windows layer (platform/windows/parse.rs) makes of the answers  *)
(* that host.rs brings: the drives, the ones that hold the Windows          *)
(* directory, and the volumes of a drive.  A machine m is                   *)
(*   answers  what each numbered disk answered: descriptor and geometry as *)
(*            "good", "short", "huge" or Absent; writable as "yes",         *)
(*            "protected" or "fails"; mark as "set", "clear", "short" or    *)
(*            Absent; and the policy, 0 for none                            *)
(*   volumes  each volume: the disks it sits on, whether its extents were   *)
(*            asked with success, and whether its name is one of a volume   *)
(*   windows  the volume of the Windows directory, or Absent                *)
(***************************************************************************)
EXTENDS Integers, Sequences, FiniteSets, TLC, DriveOrder

CONSTANT ROOM  \* how many extents the buffer of host.rs has room for

\* No answer.
Absent == "absent"

\* control and storage_property: a property of more than 64 KiB is no answer.
Answered(answer) == answer \notin {Absent, "huge"}

\* one_disk: a disk that gives no descriptor or no geometry is dropped.
OneDisk(disk) == /\ Answered(disk.descriptor)
                 /\ Answered(disk.geometry)

Enumerated(m) == {n \in DOMAIN m.answers : OneDisk(m.answers[n])}

\* device_descriptor and disk_geometry_ex: an answer that ends too early is an
\* error, and never a read past its end.
Readable(disk) == /\ disk.descriptor # "short"
                  /\ disk.geometry # "short"

\* write_protected: any other failure says nothing.
WriteProtected(disk) == disk.writable = "protected"

\* The extents of a volume: the control fails where they do not fit, and
\* disk_extents refuses a count that its answer has no room for.
DiskExtents(volume) ==
  IF volume.asked /\ Cardinality(volume.disks) <= ROOM THEN {volume.disks} ELSE {}

\* system_disk_numbers: every disk of the volume that holds Windows.
WindowsSystem(m) ==
  IF m.windows = Absent THEN {} ELSE UNION DiskExtents(m.volumes[m.windows])

\* volumes: only one that opens by its name is asked for its extents.
Extents(m, v) == IF m.volumes[v].named THEN DiskExtents(m.volumes[v]) ELSE {}

\* volumes_on_disk: the volumes to lock before a write.
VolumesOnDisk(m, number) == {v \in DOMAIN m.volumes : number \in UNION Extents(m, v)}

STORAGE_BUS_TYPE ==
  [n \in {1, 5, 9, 18} |-> "Scsi"] @@ [n \in {2, 3, 4} |-> "Ata"] @@ [n \in {6, 15} |-> "FireWire"]
    @@ [n \in {7, 19} |-> "Usb"] @@ [n \in {14, 16} |-> "Virtual"]
    @@ (8 :> "Raid" @@ 10 :> "Sas" @@ 11 :> "Sata" @@ 12 :> "Sd" @@ 13 :> "Mmc" @@ 17 :> "Nvme")

BusFromStorageBusType(value) ==
  IF value \in DOMAIN STORAGE_BUS_TYPE THEN STORAGE_BUS_TYPE[value] ELSE "Unknown"

\* The bus decides; the removal policy counts only where the bus is unknown.
IsExternal(bus, policy) ==
  \/ bus \in {"Usb", "Sd", "Mmc", "FireWire", "Thunderbolt"}
  \/ bus = "Unknown" /\ policy \in {2, 3}

\* A drive refuses each write when its medium does.  Windows says the same of
\* the read-only mark, which the write takes off; no word about the mark is no
\* refusal.
RefusesWrites(disk) == WriteProtected(disk) /\ disk.mark = "clear"

\* drive_from_raw, for a disk whose answers can be read.
WindowsDrive(m, number, system) ==
  LET disk == m.answers[number]
      bus  == BusFromStorageBusType(disk.busType)
  IN  DriveInfo(number, disk.size, number \in system, bus,
                disk.removable, IsExternal(bus, disk.policy), RefusesWrites(disk))

\* list_drives: a disk that answers badly, or has no size, is left out.
WindowsDrives(m) ==
  LET system == WindowsSystem(m)
  IN  {WindowsDrive(m, n, system) :
         n \in {x \in Enumerated(m) : Readable(m.answers[x]) /\ m.answers[x].size > 0}}
=============================================================================
