# Burnout, specified and proved

Burnout writes a bootable USB drive, either byte for byte (raw mode) or, for a
Windows ISO, as a partition table with a FAT32 and an exFAT volume (Windows
mode). It then reads the drive back. It erases a drive as root, so the questions
that matter are: *which* drive is erased, *what* the drive holds at the moment
where the program, the person or the plug stops the work, and *what a check that
passes has proved*.

This directory holds TLA+ models of that, translated from the Rust source under
`src/crates`, TLC configurations for them, and proofs for TLAPS.

## The system

| Part (source) | State | Operations | Who it talks to |
| --- | --- | --- | --- |
| Write command (`burnout/src/commands/write.rs`, `burnout-core/src/safety.rs`, `elevate.rs`) | the chosen drive, whether a system disk is known, the answer of the person | prepare, list, check rules, elevate, confirm, list again, unmount, open, write | image readers, host listing, sudo, person |
| Listing (`burnout-core/src/drive.rs`, `listing.rs`) | none | order of the drives, number of a drive | write and list commands |
| Raw write (`burnout-core/src/write.rs`) | how much is read, the first block kept back, the position | write blocks, first block last, sync, check | drive handle, image file |
| Windows drive (`burnout-layout/src/drive.rs`, `mbr.rs`, `fat32.rs`, `copy.rs`, `stream.rs`, `verify.rs`, `dot_entries.rs`, `exfat/write.rs`, `exfat/verify.rs`) | manifests, the open volume | write table, format, copy, repair dot entries, place, write exFAT, sync, check | windows of the drive, SectorIo |
| SectorIo (`burnout-core/src/sector_io.rs`) | cache of sectors, a waiting run | read, write, flush, drop | a target that takes whole sectors |
| Drive access (`burnout/src/platform/{linux,macos,windows}/host.rs`) | handle, volume locks, mount guard and its thread, the request with Disk Arbitration, offline and read-only marks | list, unmount, open, write, sync, close, eject | the operating system |
| Drives and system disk of each host (`platform/{linux,macos,windows}/parse.rs`, `model.rs`) | none | walk from mounts, swap, loop devices, registry nodes and extents to drives | listing |
| Stop and report (`burnout/src/stop.rs`, `lib.rs`) | `REACHED` | note an error, stop on a signal | every stage, through progress events |
| Layout (`plan.rs`, `windows.rs`, `manifest.rs`, `mbr.rs`, `exfat/geometry.rs`) | none | where partitions and volumes lie, the least drive that holds a tree | write command |
| exFAT placement and reader (`exfat/place.rs`, `exfat/entries.rs`, `exfat/read.rs`) | runs, claimed clusters | place a tree, walk a volume | exFAT write and check |
| Image readers (`burnout-iso`) | volume, directories seen | choose a mode, walk ISO 9660 and UDF, read a file | prepare, copy |

How they interact: the command calls the host by the *name* of a drive several
times (list, list again, unmount, open), and the host may rename or exchange
drives between any two of those calls. Raw mode writes through the host handle
directly. Windows mode puts a `Window` for each partition over the handle, and a
`SectorIo` over the FAT32 one. Every stage reports its start and end as progress
events. `stop.rs` keeps the last of them in `REACHED`, which a signal handler
reads at any moment. The handle that wrote is closed before the check opens
another one, and between the two the host is free to mount and to write.

What is hard here: failures part of the way through several writes; a cache that
must not lose or reorder bytes; a stop, a kill or an unplugged drive at any
moment; drives that swap names while a person reads; hosts that mount, write to,
or mark the drive at their own moments; an answer that comes after its deadline;
error paths where a second failure must not hide the first; sizes at a bound of
the table, the FAT or the heap; and images and volumes whose numbers lead back to
themselves or out of the file. `PROJECT.json` lists each of these at its line,
under `hazards`.

## The modules

```
PlainBuffer <-(implements)- SectorIo          SectorData: words of both
RawWrite        WriteCommand        WindowsWrite (uses what PlainBuffer promises)
DriveLayout <- ExfatGeometry <- ExfatPlace <- ExfatVolume
                                          <- WindowsTree <- BootVolume
DiscImage <- UdfTree, IsoTree <- ImageSource
DriveOrder <- LinuxDrives, MacosDrives, WindowsDrives <- HostAccess <- HostTruth
```

(`<-` is EXTENDS.) Each `MC` module gives one specification its small instance.

### SectorIo and PlainBuffer

`PlainBuffer` is the promise: an array of bytes in front of a target that is
sometimes behind it. `SectorIo` is the code: `io.inner`, `io.cache` and
`io.waiting` are its fields, and one action is one turn of the loop of `read` or
`write`, one `flush` (or `sync`), or one `drop`. The helpers `SendRun`, `Join`,
`SendWaitingUnder`, `WriteBack`, `Evict` and `Load` give the set of outcomes of
the call of that name, because each access to the target may be refused, and a
refused write of several sectors leaves any first part of them. `SectorData`
holds the words both share.

`ImplementsPlainBuffer` is the refinement: a read gives the last bytes written, a
flush that returns Ok has put all of them on the target, a failed call harms no
sector it did not name, and nothing else ever reaches the target.

### RawWrite

`write_raw` from the unmount to the eject, with `write_image` and `verify_image`
inside it. `work` holds their locals, `reached` is `REACHED`, and `told` is the
last line the process prints. A byte of the image is named by its position, so a
byte that lands in the wrong place is a wrong value. `drive.seen` is the drive as
the host sees it, and `drive.may` is the set of things each sector of the medium
may hold: a write joins `may` at once and settles at the next sync, which models a
cache that writes in any order. A sector in `host.lost` never takes a write, as on
a counterfeit drive. Signals, an unplugged drive, a file that shrinks, mounts,
programs that keep a volume busy and writes of the host happen at any time.

### WriteCommand

`run` of `commands/write.rs` up to the first write: `Order` is the order of its
steps. `host.at` is which drive has which name, and changes between any two steps.
`InfoOf` is what a listing says, with a mark of its own for each drive of the system
(`Marks`: those that the host can name, and any others besides), `CheckTarget` and `CheckSameDrive` are
`safety.rs`, `Plan` is `elevate.rs`. The size of a drive stands for its whole
geometry.

### WindowsWrite

`write_windows_mode` with `write_windows` and `verify_windows`. `Order` spells out
every write, flush and mount in the order of the code, and `work.at` is how far it
came. The drive is a row of parts, one for each piece that the code writes or
clears on its own. FAT32 goes through an open SectorIo, `work.mem`, of which this
module uses just what `PlainBuffer` promises: any of its bytes may reach the drive
early (`WriteBack`), all of them have when a flush returns Ok (`CloseVolume`), and
some when it does not. `work.cause` is the error that waits for the unmount and
the flush to run. Every state is one in which the process may be killed, so a
signal is no action of its own; an unplugged drive is an access that fails, and
leaves some choice from `drive.may`.

### DriveLayout, ExfatGeometry, WindowsTree and BootVolume

`DriveLayout` (`plan.rs`, `mbr.rs`, `alignment.rs`) and `ExfatGeometry`
(`exfat/geometry.rs`) are arithmetic: pure operators, with each refusal as a value.
Widths are constants (`U32`, `U64`), so that a small drive meets the case that a
drive of two tebibytes meets in the code.

`WindowsTree` is `windows.rs`: what a tree must hold, the split onto the two
partitions, `plan`, and the halving in `needed_drive_bytes`, one turn a step. `job`
is the tree and the drive, `search` the locals of the halving.

`BootVolume` goes on with partition 1 of the layout: the size of the FAT32 volume
and its clusters (`fat32.rs`), each file read in chunks out of a source that may give
a byte more or less than the tree says (`copy.rs`, `stream.rs`), a tree that FAT32
cannot hold, and the repair of `.` and `..` (`dot_entries.rs`), one directory a step.
What fatfs takes is counted: a chain grows when the entries of its directory pass a
cluster (`Chain`, `Grows`), and a copy that finds no free cluster ends as `Full`.

### ExfatPlace and ExfatVolume

`ExfatPlace` is `place.rs` with what `write.rs`, `boot.rs` and `entries.rs` make of it:
the clusters of each directory and file, their runs, and the FAT, the heap and the boot
region that go on the volume. A cluster is a sequence of pieces of one entry each, and
a piece says what it is, so an entry set keeps its fields and loses its bytes.

`ExfatVolume` starts from the volume of a tree, harms a field of it, and runs
`verify_exfat_with`: `Open`, `System`, then the walk, where `reader.stack` has one
frame for each `walk_dir` that runs, then `CheckAllocation` and `Compare`. Every
number is taken from the (harmed) volume, as the code does: where the boot sector
puts the FAT, `FatEntry` reads. Errors come in the order of the code. A checksum either
notices the change (`sealed`, `summed`) or has been made new with it. `reader.reach`
is where the last step asked to read, `reader.claimed` the bitmap of `claim`. The window of
the partition gives nothing past its end (`Readable`, `RefuseRead`).

### DiscImage, UdfTree, IsoTree and ImageSource

`DiscImage` has what `burnout-iso` shares: a read that leaves the image is refused, and
a walk from a root down in which no directory comes twice. A sector is a descriptor
to the readers that take all of it, and `SECTOR` units to those that take bytes.
`UdfTree` reads the anchor, the main and the reserve sequence, the file set, the file
entries with their extents, and the file identifiers. `IsoTree` reads the descriptors,
directory records with files of several extents, and the entries of Rock Ridge with
names in parts, continuation areas and moved directories. `ImageSource` puts `prepare`
around them (is the image whole, which mode does it ask for, which tree does it hold)
and then reads a file through `Extents`, with buffers of more than one size.

### LinuxDrives, MacosDrives, WindowsDrives, DriveOrder and HostAccess

The three `Drives` modules translate the parsers: from what the kernel, IOKit or the
volume manager answers to the list of drives, and to the drives that the running system
needs. A machine also holds what *really* lies on what, which no parser reads; the
properties compare the two. `DriveOrder` is the order of the list and the number of a
drive; a name is its runs of digits and letters. The walk over the slaves of a device is
a recursive function, `WalkSlaves`, over what sysfs says of devices, `Devices`: one
`Visit` is one call of `walk_slaves`, and `todo` is what the calls have still to visit. `HostAccess`
is one command from the first list to the end over such a machine:
`caller` is the command, `request` what is with Disk Arbitration, `refusal` the thread
that refuses mounts, its flag and its channel. Mounts, a drive that comes, goes or takes the
place of another (`Plug`), and the answers of Disk Arbitration, late ones too, happen beside
it at any time. The drives that go have no volume on them.
`HostTruth` says when a machine tells what its system lies on (`HostTells`), and when
nothing of the running system comes while the list is read (`HostIsSteady`). It models no
code: it is what the proof about the marks starts from.

`RawWrite` and `WindowsWrite` show what is written through the handle, `WriteCommand`
which drive it is on when names change hands, and `HostAccess` how the handle is
gained and given back.

## What the runs check

| Run | Instance | Shows |
| --- | --- | --- |
| `sector_io` | 3 sectors of 2 bytes, 2 values, a cache of 2, joins at 3 sectors | `SectorIo` implements `PlainBuffer`; clean slots equal the target; no sector is cached and waiting at once; the waiting run is unbroken |
| `raw_write` | an image of 9 bytes in blocks of 4 over sectors of 2, a drive with one more sector, tables in its first sector and its last two, each of three hosts, any one sector lost, 2 tries | "nothing written" is true when it is said; from the end of the write on, also after the close and the check, the medium holds the image; the table of the image comes last; on Windows no old table, at either end of the drive, stands beside a part of the image; a check proves every byte; the guards of macOS and Windows hold; no write leaves its sectors; the process ends |
| `raw_write_words` | the same | **violated**: a check that found a difference and then meets a read error says that the drive holds the whole image |
| `write_command` | 5 drives (the live medium, its mirror, a stick, a fixed drive that looks the same, a larger one), 3 names | only what the person was shown is erased; a system disk that the host marks never, and where it marks none, one only after its own words; a fixed drive only with `--force`; the drive fits; the command ends or waits for the person |
| `windows_write` | every host, any one part lost | the types; no old volume under the new table, and no half-erased one under the old; a boot region of exFAT has the whole volume behind it; a tree that does not fit leaves the partition alone; from the end of the write on both volumes are on the medium; a check proves both volumes; the first error is the one that is told |
| `windows_write_words` | the same | **violated**: a volume that the check refuses as not valid gives an Io error, and the last line says that the drive holds the whole image |
| `exfat_volume` | a partition whose heap has 9 clusters of 4 entries, 10 trees, one harm each (two for one tree) | what is placed is read back, except a root that is larger than the reader lets a directory be; nothing from past the partition is taken for a part of the volume, also where its size wraps at 64 bits; a volume that passes is sound, each cluster in one thing and the bitmap exact; the walk never goes deeper than the clusters it claimed |
| `boot_volume` | install images of 8 to 246 MiB just below, at and above each bound, sectors of 512 and 2048 bytes, drives that fit and do not; boot files that fill partition 1 to its last cluster, 14 to 16 of the longest names, tables just smaller and larger than `BOOT_ROOM` | the layout holds the tree and the table names it exactly; the least drive is the least; partition 1 is large enough to be FAT32, and takes the tree unless tables and longer directories alone need more than `BOOT_ROOM`; each file is whole; the dot entries are right at every depth |
| `image_source` | whole images of UDF, Rock Ridge, Joliet and plain ISO 9660, and each of three with a sector that holds what another held, or cut short | a whole image gives the tree that it holds; a damaged one is refused or gives a sound tree; the reader ends |
| `host_access` | 10 machines of Linux, 5 of macOS, 6 of Windows; on each a drive comes, goes or is put in for another | the list marks just the drives that the system needs; a number names the drive that was shown, unless a drive before it came or went; nothing of the drive is mounted while it is open; the command ends with no lock and no thread left |
| `mapper_root` | Linux, btrfs on an encrypted volume | **violated**: a root with no device number, whose source is below `/dev/mapper`, marks no drive |
| `two_stores` | macOS, a container of APFS on two stores | **violated**: only one of the two drives is marked |

Bounds, and why they are enough:

- `sector_io`: with three sectors there are runs that start, end and meet at a
  sector, a run next to a waiting run on either side, and a full cache with one
  sector outside it. Two bytes make a piece that is not the whole sector. To keep the
  run short, `MCSectorIo` lets a write of whole sectors put one value in both cells
  of a sector (pieces bring about every other content), leaves `reply`, which no
  action reads, out of the state (`VIEW`), and takes the values as symmetric. The
  proof removes all of this.
- `raw_write`: three blocks are a first, a middle and a last one; nine bytes end
  inside a sector and inside a block; the sixth sector is past the image. The last two
  sectors are cleared on Windows, so one of them is the image's and one is past it. Two tries are one
  retry. The host writes once after the write (`host.wrote`), and the file shrinks
  once. For the safety properties the proof removes these bounds.
- `write_command`: five drives for three names make each name change hands, a
  drive come back under another name, and a number of the list shift. Two drives of the
  system let a listing mark both, one, or none. No drive that the system starts from leaves.
- `windows_write`: the module has no constants. The parts are those that one write
  or one clear tells apart, so there is nothing to bound, except that a bad drive
  loses one part and the host writes to one.
- `exfat_volume`: the trees fill the heap to the last cluster, need one more, hold a
  directory in a directory, a name of more than one entry, two names that are one
  in upper case, a name that exFAT cannot hold, and, with a label, a root of four clusters
  where a directory has three (`MAX_DIRECTORY_BYTES`). `U64` is small, so that the size
  of a volume in bytes wraps to one that the partition has room for. One harm changes any link of the FAT to
  any cluster or word, any geometry field by one, any field of an entry; two harms
  (`MaxHarm`) pair a link with what would hide it.
- `boot_volume`: the numbers of bytes are those of the code divided by a constant
  where the code has tebibytes (`U32`, `U64`, `SmallVolume`, `MiddleVolume`), so the FAT takes
  one more mebibyte near 128 MiB, the clusters grow at 144 and 176 MiB, and the table ends
  at 256 MiB; sizes lie just below and above the mebibyte in which each answer changes.
  `BOOT_ROOM` is 512 KiB and a cluster 2048 bytes, so that the tables of a partition of about
  121 MiB need all of that room, where those of the code need their 256 MiB near 128 GiB of boot
  files. An entry of a directory is 128 bytes and holds one unit of a name, so that 16 names of 255
  units make a directory outgrow the room. A file gives one byte less, the same, or one more.
- `image_source`: `MOST`, `MOST_POINTERS`, `MOST_CONTINUATIONS`, `MOST_AREAS` and
  `DEEPEST` are as small as an image that passes the limit needs. Sectors have four
  units, so that a file ends inside one.
- `host_access`: the machines have one device of each kind that a parser tells
  apart, up to three devices between a mount and its drive, a mirror over two drives,
  live media with one and with two candidates, volumes over several disks, and one
  change during the command (`plugged`): `sdaa` after `sdb`, and `sdb` between `sda` and
  `nvme0n1`, come; `sda` and disk 3 of Windows go; both at once; `disk5` comes as `disk2` goes.

The violated properties: one sentence of `stop.rs:120` ("A check that found
a difference says what the drive holds itself") against two different paths of
the code, `parse.rs:263` of Linux ("Root on an encrypted volume or on a mirror has to
mark every drive under it") and `parse.rs:65` of macOS ("a container built on two stores
reaches both of them"). `findings` in `PROJECT.json` quotes each.

`CHECK_DEADLOCK FALSE` is in each configuration of a process that ends. `SectorIo`
never ends and is checked for deadlock.

Definitions whose comment starts with "A mistake" are variants of an operation with a
plausible bug. No specification uses them. Put in the place of the operation, each makes a run fail
on the property that `mutants` in `PROJECT.json` names.

## Fairness

- `RawWrite` and `WriteCommand` assume weak fairness of the program's own steps, and
  of nothing else: the operating system goes on running the process. The host, the
  drives and the plug promise nothing. In `WriteCommand` the steps at the prompt and
  at the password of sudo are left out of it, since nobody has to answer; `EndsOrWaits`
  says that the command ends or waits there.
- `HostAccess` assumes weak fairness of the command and of the thread that refuses
  mounts, which are both threads of the process. A deadline is a step of the command,
  since its clock runs on. Disk Arbitration may never answer, and `AccessEnds` holds
  all the same.
- `ImageSource`, `BootVolume` and the reader of `ExfatVolume` run alone; weak
  fairness of their steps says that the process is run. `ImageEnds` is then about
  the guards against numbers that lead back to themselves. `BootVolume` has safety
  properties alone, and for `ExfatVolume` the bound `WalkIsBounded` stands in
  for the end of the walk.
- `SectorIo` and `WindowsWrite` state no fairness: their control has no loop that could
  fail to end.

## What is proved

The proofs rest on the named assumptions about constants, which TLC evaluates in the
runs, and hold for every value of the constants. Four theorems state a hypothesis of
their own besides: three of `HostAccess_proofs` about the machine, which TLC evaluates on
every machine of the run `host_access`, and `NeededIsLeastAlways` about the layout, which TLC
evaluates on every job of the run `boot_volume`. The hypothesis is written in the theorem.

**`SectorIo_proofs`** (`SizesAssumption`, `LimitsAssumption`: any number of sectors,
bytes in a sector, values, capacity and merge limit).

- `SoundAlways`: the inductive invariant, which is `TypeOK`, `NeverInBoth` and
  `CleanSlotsAgree` together. None is inductive alone: that a clean slot equals the
  target survives the sending of a waiting run only because no waiting sector is
  cached, and that in turn needs the types of both maps.
- `TypeCorrect`, `NeverInBothPlaces`, `CleanSlotsAlwaysAgree`: its parts.
- `WaitingIsOneRunAlways`: the waiting run is unbroken. It is inductive beside the
  types: a run joins only at the end of the waiting one.
- `IsAPlainBuffer`: `Spec => Buffer!Spec`. Each helper has a lemma which says that
  every outcome keeps the invariant, and how `Seen` (what a read would give) and
  the target change; the steps of the refinement follow action by action.

**`WriteCommand_proofs`** (`FactsAssumption`: any drives, facts about them, number of
names, and size of the image): the type invariant and the four safety properties,
`SystemDiskIsSafeAlways`, `ErasesWhatWasShownAlways`, `FixedNeedsForceAlways`,
`HasRoomAlways`. They speak of what is erased at the end, so they rest on one
inductive invariant, `Allowed`, which follows the command step by step:

- a drive of the system keeps its name, so no other drive can take it
  (`SystemsHaveNames`); without this a name that passed the rules could later
  mean such a drive;
- the chosen drive, if it is one of the system, was not marked, and where no drive was, its
  words were asked for (`ChosenIsListed`, `AgreedTo`);
- from the second listing on, the drive of the name is the confirmed one until
  the name moves (`FoundAgain`), so the opened drive may be erased, and so may
  what was erased (`OpenedIsAllowed`, `ErasedWasAllowed`).

There is one lemma for each step of the command, and one for all steps of the drives.

**`RawWrite_proofs`** (`SizesAssumption`: any image, sector, block, drive, and place of
a table): `TypeCorrect` and the seven safety properties of the run. The inductive
invariant `IInv` is `TypeOK` with `Facts`:

- `Phases`: what the place in the program tells of `REACHED`, of the handle and of
  the pass (write or check);
- `Counted`: `work.read`, `work.first` and `work.at` go together. A block that ends
  inside a sector is the last one, or the file has shrunk; this is what keeps the next
  block from starting in the middle of a sector;
- `Fresh`: before the first write on Windows no block but the first has been read,
  so the clearing of the old tables erases nothing of the image;
- `Laid` and `Outside`: which sectors hold the image by then, and what all others hold;
- `Kept`: after the sync the medium of a good drive is what the drive shows, until the
  host writes;
- `Cleared` and `HeadBare`: on Windows nothing of the image is there before the clears and
  nothing of an old table after them, and the head is bare until the first block goes out;
- `Seen`: what the check reads is on the medium, and it has compared all it has read.

`CheckProvesAlways` needs `Seen` over the whole loop of the check,
`WrittenIsOnTheMediumAlways` needs `Laid` at the sync and `Kept` from there to the end, and
`NoTableHalfWayAlways` needs `Cleared` and `HeadBare`; none of them is inductive alone.

**`ExfatPlace_proofs`** (`LayoutAssumption`, `GeometryAssumption`, `PlaceAssumption`: any
sector, geometry and names): the arithmetic under the two volumes.

- `PartitionsHoldAlways`: whatever `plan` does not refuse has two partitions of whole
  mebibytes, apart, on the drive, the first with room for the tree;
- `TableNamesThePartitions`: the 32 bits of an entry give back the start and the length,
  also on a drive with more sectors than they count;
- `GeometryFits`: every geometry of `Geometry::new` passes the rules of the reader.
  The FAT is sized before the clusters are counted, and the proof shows that this is
  never too small nor runs into the heap. It assumes that a mebibyte has 24 sectors,
  which the largest sector of the code (4096 bytes) leaves true.

They rest on lemmas about division (`Quotient`, `QuotientIs`, `DivCeilIsEnough`). The module
also has the lemmas on sums of a sequence and on sequences put one after another that the
next two modules need: a fold that the provers cannot unfold is there replaced by the facts that
hold of it.

**`ExfatVolume_proofs`** (`VolumeAssumption`, `TreesAssumption` and those above: any
partition, trees and harms). `ReadsInsideAlways`, `WalkIsBoundedAlways` and `SoundAlways`,
from the inductive invariant `IInv`:

- `Typed`: as much of the types as the steps need; the reader trusts none of the numbers,
  so nothing is said of them but that they are numbers;
- `Opened`: behind `Open` the boot sector fits itself, and its bytes, as 64 bits count them,
  fit the partition. So every cluster and every entry of the FAT that the reader may ask for lies
  inside what the boot sector says (`AskedIsInside`), and that is inside the partition unless
  its bytes wrap (`EndIsInside`);
- `Asking`: before the end nothing was refused. Where the bytes wrap, a piece may lie past the
  partition; the window refuses it, and the reader ends there (`ReadIsInside`);
- `ReadsInside`;
- `Deep`: each directory of the walk with a piece left has claimed a cluster of its own,
  and the bitmap and the up-case table two more. `WalkIsBounded` alone says nothing of
  what the next directory adds.

`AcceptedIsSoundAlways`: a volume that the reader accepts has the names of the tree, no two of
its things share a cluster, and the bitmap marks just theirs. What is to be shown speaks of
what the *volume* gives to a thing, by its links (`Owned`), and the reader only knows what it
claimed. The invariant `Claims`, beside `IInv`, says at each place of the reader that the
two are one:

- `Held`: `claimed` is what the root, the bitmap, the table and each node found so far own,
  and no two of them share any of it (`Apart`);
- `Stacked`: each frame of the walk is pieces and a place in them (`FrameHolds`), the first
  one has just the pieces of the root, and `Scanned` says of it that a bitmap or a table that
  was passed comes before the end, where the reader has looked for them;
- `Marks` and `Only`: the two system entries that the reader took are in the root, and once
  the root has been walked they are the only ones of their type;
- `VolumeHolds` and `Distinct`: what placing and harm leave of the volume and of the names. A harm
  changes one number and keeps the shape: a heap of as many clusters as were
  formatted, each with as many pieces as it has room for. Nothing is assumed of the numbers.

A chain that the reader takes as it follows the links is the set that the links reach: both
are compared by the least number of steps at which they would differ.

**`BootVolume_proofs`** (`TreeAssumption`, `PathAssumption`, `JobsAssumption` and those of the
layout and of the volumes: any tree that a source can give, drive, sector, chunk and room on the
volume). The last two say what `tree.rs` promises of a source (no path twice, and the directory of each
entry with it) and what the constants of `windows.rs` are (the image in a directory,
the answer file at the top, in a name that has one case).

- `LayoutHoldsAlways`, from `Planned`: the layout is what `plan` computes for a tree of Windows,
  and only a plan that ends well gives one. The rest is arithmetic, with `InstallFits`: a
  volume on which the clusters of every entry fit holds the bytes of the image.
- `FilesAreWholeAlways`, from `Copies`: the files on the volume, the one under way and those still
  to come are together the files of partition 1, at every step. FAT32 takes no second name
  that differs in case alone, so the answer file is the only one of its name. What
  `FilesAreWhole` says of the end is not inductive.
- `DotsAreRightAlways`, from `Repairs`: a directory that is right waits in `pending`, or holds
  only right ones. When nothing waits, each directory is right by the length of its path: the
  root is, and one whose parent is right is right too. `Copies` gives what this needs, that
  every directory has its parent on the volume and a cluster of its own.
- `NeededIsLeastAlways`, from `Halves`: from the first doubling on, `fits` is whole mebibytes
  (the doubling wraps at 64 bits, and 2^64 is whole mebibytes); in the second loop `fits` holds the layout
  and `short` is zero or does not, and a middle lies between the two.
  What the search finds is a place where the answer changes; that it is the only one is
  `LargerDrivesHold`, the hypothesis of the theorem: with one mebibyte more no drive
  comes to be too small. It is not true of every choice of the constants of `geometry.rs`, since a
  larger volume may have larger clusters and so hold less. TLC evaluates it on the jobs of
  the run (`MCLargerDrivesHold`). From it, `EndIs` and `FittingOfEnd` (a drive counts only up to its
  last mebibyte that the table can name) give every size in bytes.

**`WindowsWrite_proofs`** (the module has no constants. At most one part of the drive is
lost when the drive goes, as in the run; no step of the induction uses that). `TypeOKAlways`, `NoOldUnderTheNewTableAlways`,
`ExfatBootComesLastAlways`, `RefusedTreeLeavesTheVolumeAlways`,
`WrittenIsOnTheMediumAlways`, `CheckProvesAlways` and the action property
`ErrorIsTheCauseAlways`. The properties speak of a drive at the moment where the process
stops, and say nothing of how it came there; the invariant follows `Order` step by step:

- `Phases`: what the place in the program tells of `REACHED`, of the open SectorIo, of
  the error that waits, and of the host;
- `Shows`: what each part of the drive shows when `Order` has come to a step, as a table
  over the 24 steps; a write that breaks off leaves a state of the step it is in;
- `MayHold`: on Windows, which steps lie behind a flush that reached the medium;
- `Buffered`: an open SectorIo never holds the head of the old volume, and holds what
  belongs there once the unmount and the repair ended with no error. Without this a
  `WriteBack` could put an old head under the new table;
- `Kept`: between the write and the check nobody but the host changes the drive;
- `Read`: the handle of the check sees the medium, and each stage that passed agreed.

**`HostAccess_proofs`** (`RunsAssumption`: a name is its runs; `MachinesAssumption`: each
machine is one of the three hosts; `NamesAssumption`: a host gives each name to one drive,
before a drive comes or goes and after it).

- `NumberNamesTheDriveAlways`. `natural_cmp` is an order in which no two names are level
  (`NamesAreOrdered`, `LevelNamesAreOne`), so `in_list_order` gives number *k* to
  the name of rank *k*, whatever the order of the host (`NumbersAreRanks`). The
  invariant, `Numbered`, keeps the rank of what was shown. A name that the host gives
  later (`GivenBefore`) sorts later (`GivenComesBefore`), and names that come or go after a drive
  leave its rank (`NamesAfterKeepTheRank`). This is the whole of what a number promises: a name
  that comes or goes *before* the drive shifts it, as `sdb` does for `nvme0n1`, since letters count
  by their length first. Then the write shows another drive than the list did, asks for
  its confirmation, and lists again; `WriteCommand`, in which a number may mean any drive, shows
  that only what is confirmed there is erased (`ErasesWhatWasShown`).
- `NothingMountedMeanwhileAlways`, from `Asking` (where a request to Disk Arbitration is),
  `Guarded` (where the locks, the handle and the thread are: the flag is set only
  at the end, so a thread that said it is there still serves) and `Freed` (what is not
  mounted at each place; on Windows every volume of the drive is still to lock or is locked).
  On macOS the answer `done` alone brings the command to the open, a deadline does not.

The same module has the marks of the list (with `LevelsAssumption`: the number of recorded
levels is a number).

- `WalkIsBeneath`: what `walk_slaves` finds from a device are the drives that the device
  really lies on, on any finite devices where a partition and a drive have no slaves. The walk
  sees each name once and stops at a drive, `Beneath` takes all that lies below at once; both
  are recursive functions. Each is solved by a closed form, the fewest names that hold
  (`ToCome`, `AllBelow`), and any other solution agrees with it: take the
  disagreement with the least left to do, and one step more is a lesser one. So the
  walk ends on devices in a circle as well (`WalkSlavesIs`).
- `ChainIsBeneath`: the record of a media holds all that the media lies on, when it reaches the top of
  the registry and each node sits on the one that IOKit gives above it.
- `MarksOfTheList`: a line of the list is marked exactly when the system needs its drive,
  on one machine for which `HostTells` holds.
- `MarksAreExactAlways`: the list that the person reads is marked so at every moment, when
  `HostTells` and `HostIsSteady` hold of each machine that a run starts on. The invariant
  `MarksHold` carries both along until a drive is chosen: a mount (`LinuxMounts`, `MacosMounts`) and
  a drive that comes or goes (`LinuxPlugs`, `MacosPlugs`) keep them, and leave what is needed of the
  drives that stay. `HostIsSteady` asks that the drives that come and go are bare.

`HostTells` is a hypothesis and no assumption of the model, since the hosts do not always
tell: the machine of `two_stores` does not, and on it the marks are not exact. On Linux it
asks that the device named by a line of a marked mount is the one that carries it (a line that names none, as
that of `mapper_root`, may stand for anything: `Needed` leaves it out and
`RootDrivesAreMarked` does not), and that each holder of the file of a loop device says where
it lies. TLC evaluates both on every machine of `host_access` (`MCMachinesTell`).

### Only model-checked

- Liveness (`Ends`, `EndsOrWaits`, `ImageEnds`, `AccessEnds`): out of this prover's reach.
- `PlacedReadsBack`: what the reader makes of a whole volume is the tree, entry by entry.
  Its one exception, a root larger than a directory may be, needs more than 256 MiB of entries
  in the root; the writer does not ask for it (`place.rs:149-168`, where every other directory is
  held to the limit), the reader does (`read.rs:175`), and the command never comes near it, since
  it places the install image and its directory only. A proof
  needs the counts and the runs of `Counts` and `Runs`, which are folds, to be followed through
  the writer and the reader at once. The soundness of whatever is accepted is proved.
- `BootHasRoom`: that partition 1 is always large enough to be FAT32 is a fact about the numbers
  of `windows.rs` and `fat32.rs`, and false for others. `BOOT_ROOM` is not enough for every tree,
  and the property does not say so: the two tables pass 256 MiB near 128 GiB of boot files, and
  directories of very many long names take clusters that `boot_partition_bytes` does not
  count. Such a copy ends with an error (`Full`) when the drive is overwritten already. No Windows
  ISO comes near.
- `TreeReadsBack`: the tree that an image holds is written beside it in `Images`, so the
  property is about those images and no others.
- `TakenTreeIsSound`: it is true of every image, and `seen` is for it what `claimed` is for
  `Claims`. Its proof would go through every structure of UDF and ISO 9660 that the readers
  parse, and is not done.
- `LargerDrivesHold`, the hypothesis of `NeededIsLeastAlways` (see above), and `HostTells` and
  `HostIsSteady`, those of the marks.

## What is not modelled, and what the abstractions leave out

- A hash is taken to tell any two byte strings apart, and a checksum or a CRC to notice a
  change, unless the model makes it new with the change.
- The open goes by name. If a drive takes the name after the second listing
  and before the open, nothing in the code can notice. `proc.stale` marks these
  behaviours, and the properties say which of them still hold there.
- `--elevated` typed by hand, an image that grows, and a system disk that is
  unplugged are left out.
- `RawWrite` treats the guard of macOS (`keep_unmounted`) as one step, and the volumes
  of a drive on Windows as one; `HostAccess` has both in full. `WindowsWrite` takes
  `open_again` as one step, since `RawWrite` has its tries.
- On Linux and macOS `flush` of the handle does nothing, so the order of the two
  volumes is an order of what the host sees. `ExfatBootComesLast` claims it of the
  medium for Windows only.
- The check of Windows mode does not read the places of a GPT, so a drive that
  loses the write which clears one passes. `CheckProves` leaves them out.
- `fatfs`, which lays out FAT32, is external: `BootVolume` takes from it what
  `dot_entries.rs` and `fat32.rs` say of it.
- Text: the encodings of names, the case table (`upcase.rs`), the byte layout of
  structures (`boot.rs`, `entries.rs`, `raw.rs`, `sums.rs`), sizes as words
  (`size.rs`), the messages of `error.rs`, reports and JSON. They have no control that a
  property could be about; where a value decides something (an upper-case name, a
  missing property) the models keep the value.
- The answer file (`unattend.rs`) is text for Windows Setup; its size is a constant of
  `BootVolume`. The unsupported host (`platform/unsupported.rs`) refuses every call
  and keeps no state. The targets for tests (`memory_target.rs`, `strict_target.rs`,
  `file_target.rs`, `testing.rs`) stand for a drive or an image that the models have as
  a variable.

## What is left

1. `PlacedReadsBack` as a theorem: the walk of a volume that was just placed. `Claims` has
   what the reader keeps of any volume; what is missing is that it takes the entries of the
   placement in their order. `TakenTreeIsSound` comes after it.
2. The composition of `WindowsWrite` with `SectorIo` itself, in place of the
   `PlainBuffer` that `SectorIo` is proved to implement.
