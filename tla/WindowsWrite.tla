---------------------------- MODULE WindowsWrite ----------------------------
(***************************************************************************)
(* Windows mode: write_windows_mode of commands/write.rs, with             *)
(* write_windows and verify_windows of burnout-layout.  A partition table, *)
(* a FAT32 volume and an exFAT volume go onto the drive in a fixed order,  *)
(* and a new handle reads them back.                                       *)
(*                                                                         *)
(* The drive is a row of parts, each as large as one write leaves it in    *)
(* one piece.  As in RawWrite, seen is what the host sees and may is what  *)
(* the medium may hold.  A stop can come after any step, so every state is *)
(* one that a stopped process leaves; an unplugged drive leaves any        *)
(* choice from may.  FAT32 goes through a SectorIo, which is here what     *)
(* PlainBuffer promises of it.                                             *)
(***************************************************************************)
EXTENDS Integers, Sequences

VARIABLES
  work,     \* the locals of write_windows_mode and of what it calls
  reached,  \* REACHED of stop.rs
  drive,    \* the drive, as the host sees it and as its medium may be
  host      \* the host

vars == <<work, reached, drive, host>>

\* The table of sector 0; a GPT and its copy; the boot region of FAT32 and the
\* rest of that volume; the boot region of exFAT, its copy, its FAT, the
\* bitmap with the case table and the root, the other entries, and those in the
\* last mebibyte of a drive that is not whole mebibytes.
FatParts   == {"fatBoot", "fatData"}
ExfatParts == {"exBoot", "exCopy", "exFat", "exRoot", "exItems", "exEnd"}
Parts      == {"mbr", "gpt", "gptCopy"} \cup FatParts \cup ExfatParts

\* What was there, zero, an empty volume, one that files go into, what belongs
\* there, a write that broke off, and what another program put there.
Contents == {"Old", "Zero", "Empty", "Part", "New", "Torn", "Other"}

Errors == {"Io", "DriveChanged", "PartitionTooSmall", "FileTooLarge", "Source", "CannotCopy",
           "VolumeFull", "VolumeDiffers"}
Closed == [p \in {} |-> "Old"]   \* no SectorIo is open

----------------------------------------------------------------------------
(* The order of the writes, as the code spells it out.                     *)

Put(parts, as, errors) == [op |-> "put", parts |-> parts, as |-> as, errors |-> errors]
Do(op)                 == [op |-> op, parts |-> <<>>, as |-> "Zero", errors |-> {"Io"}]

\* A mistake: the new table is there while the old volumes are.
WriteTableFirst ==
  << Put(<<"mbr">>, "New", {"Io"}), Put(<<"gpt">>, "Zero", {"Io"}),
     Put(<<"fatBoot">>, "Zero", {"Io"}), Put(<<"exBoot", "exCopy">>, "Zero", {"Io"}),
     Put(<<"exEnd", "gptCopy">>, "Zero", {"Io"}), Do("flush") >>

\* write_table: four areas of one mebibyte go to zero, and then the table.
WriteTable ==
  << Put(<<"mbr", "gpt">>, "Zero", {"Io"}), Put(<<"fatBoot">>, "Zero", {"Io"}),
     Put(<<"exBoot", "exCopy">>, "Zero", {"Io"}), Put(<<"exEnd", "gptCopy">>, "Zero", {"Io"}),
     Put(<<"mbr">>, "New", {"Io"}), Do("flush") >>

\* A mistake: the clusters are counted with the first SectorIo still open.
FormatFat32Open == <<Do("format"), Do("count"), Do("close")>>

\* format_fat32: one SectorIo for the format, another for the count.
FormatFat32 == <<Do("format"), Do("close"), Do("count"), Do("close")>>

\* copy_to_fat32_with, and repair_dot_entries through the same SectorIo.
CopyToFat32 == <<Do("copy"), Do("unmount"), Do("repair"), Do("close")>>

\* A mistake: the tree is placed when the FAT is already there.
WriteExfatThenPlace ==
  << Put(<<"exFat">>, "New", {"Io"}), Do("place"), Put(<<"exRoot">>, "New", {"Io"}),
     Put(<<"exItems">>, "New", {"Io", "Source", "CannotCopy"}),
     Put(<<"exEnd">>, "New", {"Io", "Source", "CannotCopy"}), Do("flush"),
     Put(<<"exCopy">>, "New", {"Io"}), Put(<<"exBoot">>, "New", {"Io"}), Do("flush") >>

\* A mistake: no flush stands between the volume and its boot regions.
WriteExfatUnflushed ==
  << Do("place"), Put(<<"exFat">>, "New", {"Io"}), Put(<<"exRoot">>, "New", {"Io"}),
     Put(<<"exItems">>, "New", {"Io", "Source", "CannotCopy"}),
     Put(<<"exEnd">>, "New", {"Io", "Source", "CannotCopy"}),
     Put(<<"exCopy">>, "New", {"Io"}), Put(<<"exBoot">>, "New", {"Io"}), Do("flush") >>

\* write_exfat_with: the boot regions last, and the copy before the first.
WriteExfat ==
  << Do("place"), Put(<<"exFat">>, "New", {"Io"}), Put(<<"exRoot">>, "New", {"Io"}),
     Put(<<"exItems">>, "New", {"Io", "Source", "CannotCopy"}),
     Put(<<"exEnd">>, "New", {"Io", "Source", "CannotCopy"}), Do("flush"),
     Put(<<"exCopy">>, "New", {"Io"}), Put(<<"exBoot">>, "New", {"Io"}), Do("flush") >>

\* write_windows.
Order == WriteTable \o FormatFat32 \o CopyToFat32 \o WriteExfat \o <<Do("sync")>>

\* The variables keep their types, and a SectorIo is open only inside the step of the
\* code that owns it: no two of them look at one volume at a time.
TypeOK ==
  /\ work \in [pc       : {"open", "write", "shut", "reopen", "table", "fat32", "exfat",
                           "eject", "end"},
               at       : 1 .. Len(Order),   \* the step of Order that comes next
               prepared : BOOLEAN,           \* WindowsDisk::prepared
               mem      : {Closed} \cup [FatParts -> Contents],  \* the open SectorIo
               cause    : Errors \cup {"none"},  \* the result that waits for a flush
               differs  : BOOLEAN,           \* the check read what was not written
               result   : Errors \cup {"none", "ok"}]
  /\ work.pc = "write" =>
       (work.mem # Closed <=> Order[work.at].op \in {"unmount", "repair", "close"})
  /\ reached \in {"Nothing", "Writing", "Written", "Checking", "Checked"}
  /\ drive \in [seen : [Parts -> Contents], may : [Parts -> SUBSET Contents]]
  /\ host \in [kind     : {"linux", "macos", "windows"},
               lost     : SUBSET Parts,   \* the parts that a bad drive loses
               held     : BOOLEAN,        \* the process has the drive open
               readOnly : BOOLEAN,        \* Windows marked it read-only
               wrote    : BOOLEAN]        \* the host wrote, after the write closed

----------------------------------------------------------------------------
(* The drive and the errors.                                               *)

\* The drive after writes of these parts, which the medium takes now or later.
Wrote(data) ==
  [seen |-> [p \in Parts |-> IF p \in DOMAIN data THEN data[p] ELSE drive.seen[p]],
   may  |-> [p \in Parts |-> IF p \in DOMAIN data \ host.lost
                             THEN drive.may[p] \cup {data[p]} ELSE drive.may[p]]]

\* The medium holds what the host sees, where it does not lose it.
Settled(d) ==
  [d EXCEPT !.may = [p \in Parts |-> IF p \in host.lost THEN @[p] ELSE {d.seen[p]}]]

\* flush of the open drive: FlushFileBuffers on Windows, and nothing elsewhere.
Flushed(d) == IF host.kind = "windows" THEN Settled(d) ELSE d

As(parts, content) == [p \in {parts[i] : i \in DOMAIN parts} |-> content]

\* What a write_all over these parts may leave that fails: the first of them,
\* and perhaps a piece of the next.  A part of which a piece is zero counts as
\* Zero, or still as Old: its head decides what a host makes of it.
Broken(parts, as) ==
  {Wrote(As(SubSeq(parts, 1, n), as)) : n \in 0 .. Len(parts)} \cup
  {Wrote([p \in {parts[i] : i \in 1 .. n} |-> IF p = parts[n] THEN "Torn" ELSE as]) :
     n \in IF as = "Zero" THEN {} ELSE 1 .. Len(parts)}

Fail(e) == work' = [work EXCEPT !.pc = "end", !.result = e]

\* note of stop.rs, for an error that ends the process now.
Note ==
  CASE work.result \in Errors \ {"VolumeDiffers"} /\ reached = "Writing" -> "part"
    [] work.result \in Errors \ {"VolumeDiffers"} /\ reached \in {"Written", "Checking"}
         -> "unchecked"
    [] OTHER -> "none"

----------------------------------------------------------------------------
(* The write.                                                              *)

Init ==
  /\ work = [pc |-> "open", at |-> 1, prepared |-> FALSE, mem |-> Closed, cause |-> "none",
             differs |-> FALSE, result |-> "none"]
  /\ reached = "Nothing"
  /\ drive = [seen |-> [p \in Parts |-> "Old"], may |-> [p \in Parts |-> {"Old"}]]
  /\ host \in [kind : {"linux", "macos", "windows"}, lost : {{}} \cup {{p} : p \in Parts},
               held : {FALSE}, readOnly : BOOLEAN, wrote : {FALSE}]
  /\ host.readOnly => host.kind = "windows"   \* the mark of an earlier write

\* open, same_geometry, and the start of the write: no access in between.
Open ==
  /\ work.pc = "open"
  /\ UNCHANGED drive
  /\ \/ /\ work' = [work EXCEPT !.pc = "write"]
        /\ reached' = "Writing"
        /\ host' = [host EXCEPT !.held = TRUE]
     \/ (\E e \in {"Io", "DriveChanged"} : Fail(e)) /\ UNCHANGED <<reached, host>>

\* The next step of Order, where it is `op`.
Step     == Order[work.at]
At(op)   == work.pc = "write" /\ Step.op = op
Advance  == [work EXCEPT !.at = @ + 1]

\* The first write through a handle on Windows takes the drive offline and the
\* old table off it: go_offline and clear_table.
Unprepared == host.kind = "windows" /\ ~work.prepared

Prepare ==
  /\ At("put") /\ Unprepared
  /\ UNCHANGED reached
  /\ host' = [host EXCEPT !.readOnly = FALSE]
  /\ LET areas == <<"mbr", "gpt", "gptCopy">>
     IN  \/ drive' = Wrote(As(areas, "Zero")) /\ work' = [work EXCEPT !.prepared = TRUE]
         \/ drive' \in Broken(areas, "Zero") /\ Fail("Io")

WriteParts ==
  /\ At("put") /\ ~Unprepared
  /\ UNCHANGED <<reached, host>>
  /\ \/ drive' = Wrote(As(Step.parts, Step.as)) /\ work' = Advance
     \/ drive' \in Broken(Step.parts, Step.as) /\ \E e \in Step.errors : Fail(e)

Flush ==
  /\ At("flush")
  /\ UNCHANGED <<reached, host>>
  /\ \/ drive' = Flushed(drive) /\ work' = Advance
     \/ UNCHANGED drive /\ Fail("Io")

\* fatfs::format_volume and record_first_sector, over a new SectorIo, unless
\* the partition is too small for FAT32.
Format ==
  /\ At("format")
  /\ UNCHANGED <<reached, drive, host>>
  /\ \/ work' = [Advance EXCEPT !.mem = [p \in FatParts |-> "Empty"]]
     \/ \E done \in SUBSET FatParts :
          work' = [Advance EXCEPT !.cause = "Io",
                     !.mem = [p \in FatParts |-> IF p \in done THEN "Empty" ELSE drive.seen[p]]]
     \/ Fail("PartitionTooSmall")

\* Mount the new volume once, for the count of its free clusters.
Count ==
  /\ At("count")
  /\ UNCHANGED <<reached, drive, host>>
  /\ \E e \in {"none", "Io"} :
       work' = [Advance EXCEPT !.mem = [p \in FatParts |-> drive.seen[p]], !.cause = e]

\* copy_to_fat32_with: the tree is listed, a file that FAT32 cannot hold is
\* refused, and then copy_entries puts every entry into the volume.
Copy ==
  /\ At("copy")
  /\ UNCHANGED <<reached, drive, host>>
  /\ \/ \E e \in {"none", "Io", "Source", "CannotCopy"} :
          work' = [Advance EXCEPT !.mem = [p \in FatParts |-> "Part"], !.cause = e]
     \/ \E e \in {"Source", "FileTooLarge"} : Fail(e)

\* A mistake: an unmount that fails takes the place of the error before it.
UnmountReported ==
  /\ At("unmount")
  /\ UNCHANGED <<reached, drive, host>>
  /\ \/ work' = [Advance EXCEPT !.mem["fatBoot"] = "New"]
     \/ work' = [Advance EXCEPT !.cause = "Io"]

\* The unmount runs whatever copy_entries gave, and its error comes second.
Unmount ==
  /\ At("unmount")
  /\ UNCHANGED <<reached, drive, host>>
  /\ \/ work' = [Advance EXCEPT !.mem["fatBoot"] = "New"]
     \/ work' = [Advance EXCEPT !.cause = IF @ = "none" THEN "Io" ELSE @]

\* repair_dot_entries, which only runs on a volume that holds everything.
Repair ==
  /\ At("repair")
  /\ UNCHANGED <<reached, drive, host>>
  /\ \/ work.cause = "none" /\ work' = [Advance EXCEPT !.mem["fatData"] = "New"]
     \/ work.cause = "none" /\ work' = [Advance EXCEPT !.cause = "Io"]
     \/ work.cause # "none" /\ work' = Advance

\* A SectorIo puts any of its bytes on the drive when it needs the room.
WriteBack ==
  /\ work.mem # Closed
  /\ \E p \in FatParts : drive' = Wrote([q \in {p} |-> work.mem[q]])
  /\ UNCHANGED <<work, reached, host>>

\* A mistake: the flush is left to the drop, which reports nothing.
CloseVolumeUnreported ==
  /\ At("close")
  /\ UNCHANGED <<reached, host>>
  /\ \E done \in SUBSET FatParts : drive' = Wrote([p \in done |-> work.mem[p]])
  /\ IF work.cause = "none" THEN work' = [Advance EXCEPT !.mem = Closed] ELSE Fail(work.cause)

\* over_sectors ends: a flush, whatever the work gave, and then the error of
\* the work before that of the flush.  The drop may write what is left.
CloseVolume ==
  /\ At("close")
  /\ UNCHANGED <<reached, host>>
  /\ \/ /\ drive' = Flushed(Wrote(work.mem))
        /\ IF work.cause = "none" THEN work' = [Advance EXCEPT !.mem = Closed] ELSE Fail(work.cause)
     \/ /\ \E done \in SUBSET FatParts : drive' = Wrote([p \in done |-> work.mem[p]])
        /\ Fail(IF work.cause = "none" THEN "Io" ELSE work.cause)

\* place: the whole tree has its place before a byte of exFAT goes out.
Place ==
  /\ At("place")
  /\ UNCHANGED <<reached, drive, host>>
  /\ work' = Advance \/ \E e \in {"Source", "PartitionTooSmall", "VolumeFull"} : Fail(e)

\* The sync of the drive, and only then the end of the write.
Sync ==
  /\ At("sync")
  /\ UNCHANGED host
  /\ \/ drive' = Settled(drive) /\ reached' = "Written" /\ work' = [work EXCEPT !.pc = "shut"]
     \/ UNCHANGED <<drive, reached>> /\ Fail("Io")

\* The drop of the handle that wrote.
Shut ==
  /\ work.pc = "shut"
  /\ work' = [work EXCEPT !.pc = "reopen"]
  /\ host' \in {[host EXCEPT !.held = FALSE, !.readOnly = mark] :
                  mark \in IF work.prepared THEN BOOLEAN ELSE {FALSE}}
  /\ UNCHANGED <<reached, drive>>

----------------------------------------------------------------------------
(* The check.                                                              *)

\* A mistake: the check reads what the host kept of the write.
ReopenCached ==
  /\ work.pc = "reopen"
  /\ work' = [work EXCEPT !.pc = "table", !.prepared = FALSE]
  /\ host' = [host EXCEPT !.held = TRUE]
  /\ UNCHANGED <<reached, drive>>

\* open_again (its tries are in RawWrite).  The close put the cache of the host
\* aside, so from here on the host sees what the medium holds.
Reopen ==
  /\ work.pc = "reopen"
  /\ UNCHANGED reached
  /\ \/ /\ work' = [work EXCEPT !.pc = "table", !.prepared = FALSE]
        /\ host' = [host EXCEPT !.held = TRUE]
        /\ drive' = LET medium == [p \in Parts |-> IF p \in host.lost THEN "Old" ELSE drive.seen[p]]
                    IN  [seen |-> medium, may |-> [p \in Parts |-> {medium[p]}]]
     \/ Fail("Io") /\ UNCHANGED <<drive, host>>

\* A part that the check reads.  Of a boot region of FAT32, and of a FAT of
\* exFAT, it does not read every byte, so it may miss what another program did.
Agrees(p) == drive.seen[p] = "New" \/ (p \in {"fatBoot", "exFat"} /\ drive.seen[p] = "Other")
Wrong(p)  == drive.seen[p] # "New"

\* One stage of the check, over the parts it reads: it goes on, it finds a
\* difference and says so as one of `errors`, or a read fails.
Stage(parts, next, errors) ==
  \/ (\A p \in parts : Agrees(p)) /\ work' = [work EXCEPT !.pc = next]
  \/ /\ \E p \in parts : Wrong(p)
     /\ \E e \in errors : work' = [work EXCEPT !.pc = "end", !.result = e, !.differs = TRUE]
  \/ Fail("Io")

\* The table is compared before the start of the check is reported.
CheckTable ==
  /\ work.pc = "table"
  /\ Stage({"mbr"}, "fat32", {"VolumeDiffers"})
  /\ reached' = IF work'.pc = "fat32" THEN "Checking" ELSE reached
  /\ UNCHANGED <<drive, host>>

\* verify_fat32_with: a mount, a walk, and the digest of each file.  A volume
\* that cannot be mounted or walked is an Io error.
CheckFat32 ==
  /\ work.pc = "fat32"
  /\ Stage(FatParts, "exfat", {"VolumeDiffers", "Io"})
  /\ UNCHANGED <<reached, drive, host>>

\* verify_exfat_with: Volume::open, the walk, the bitmap and each file.  A
\* volume that is not valid is an Io error.
CheckExfat ==
  /\ work.pc = "exfat"
  /\ Stage(ExfatParts, "eject", {"VolumeDiffers", "Io"})
  /\ reached' = IF work'.pc = "eject" THEN "Checked" ELSE reached
  /\ UNCHANGED <<drive, host>>

Eject ==
  /\ work.pc = "eject"
  /\ work' = [work EXCEPT !.pc = "end", !.result = "ok"]
  /\ host' = [host EXCEPT !.held = FALSE]
  /\ UNCHANGED <<reached, drive>>

\* Between the two handles the host may mount the volumes and write, except
\* where the guard of macOS or the mark of Windows holds.
HostWrites ==
  /\ work.pc = "reopen" /\ ~host.wrote
  /\ host.kind = "linux" \/ (host.kind = "windows" /\ ~host.readOnly)
  /\ host' = [host EXCEPT !.wrote = TRUE]
  /\ \E p \in Parts : drive' = Wrote([q \in {p} |-> "Other"])
  /\ UNCHANGED <<work, reached>>

Next ==
  \/ Open \/ Prepare \/ WriteParts \/ Flush \/ Format \/ Count \/ Copy \/ Unmount
  \/ Repair \/ WriteBack \/ CloseVolume \/ Place \/ Sync \/ Shut \/ Reopen
  \/ CheckTable \/ CheckFat32 \/ CheckExfat \/ Eject \/ HostWrites

Spec == Init /\ [][Next]_vars

----------------------------------------------------------------------------
(* Properties                                                              *)

\* Where a process that stopped, or failed, leaves the new table, nothing that a
\* host could take for the old drive is left: neither a GPT nor its copy, nor
\* the head of an old volume (mbr.rs: "The table itself goes last").  And while
\* the old table is there, so is the old drive.
NoOldUnderTheNewTable ==
  ~host.wrote /\ ~work.differs /\ reached \in {"Nothing", "Writing"} =>
    /\ drive.seen["mbr"] = "New" =>
         \A p \in {"gpt", "gptCopy", "fatBoot", "exBoot", "exCopy"} : drive.seen[p] # "Old"
    /\ drive.seen["mbr"] = "Old" => \A p \in Parts : drive.seen[p] = "Old"

\* A boot region of exFAT that is there at all has its copy and the whole volume
\* behind it, whenever the process stops; and on Windows, where a flush reaches
\* the medium, also whenever the drive is unplugged.
ExfatBootComesLast ==
  LET rest == {"exFat", "exRoot", "exItems", "exEnd"}
  IN  reached \in {"Nothing", "Writing"} =>
        /\ drive.seen["exBoot"] \in {"Torn", "New"} =>
             \A p \in rest \cup {"exCopy"} : drive.seen[p] = "New"
        /\ host.kind = "windows" /\ host.lost = {} =>
             \A b \in {"exBoot", "exCopy"} : drive.may[b] \cap {"Torn", "New"} # {} =>
               \A p \in rest : drive.may[p] = {"New"}

\* A tree that does not fit, or cannot be listed, when exFAT is to be written
\* leaves the partition as write_table left it.
RefusedTreeLeavesTheVolume ==
  work.result = "VolumeFull" =>
    \A p \in ExfatParts :
      drive.seen[p] = IF p \in {"exBoot", "exCopy", "exEnd"} THEN "Zero" ELSE "Old"

\* From the end of the write on, the medium of a good drive holds both volumes
\* and the table, and no GPT: nothing of what a SectorIo held is missing, and
\* no zero of the last mebibyte lies over the end of the exFAT volume.
WrittenIsOnTheMedium ==
  reached = "Written" /\ work.pc \in {"shut", "reopen", "end"} /\ ~host.wrote /\ host.lost = {}
    /\ ~work.differs =>
    \A p \in Parts : drive.may[p] = {IF p \in {"gpt", "gptCopy"} THEN "Zero" ELSE "New"}

\* A check that ends well has read the table, both volumes and every file from
\* the medium, whatever the drive lost and whatever the host wrote.
CheckProves ==
  reached = "Checked" =>
    \A p \in Parts \ {"gpt", "gptCopy"} :
      drive.may[p] \subseteq {"New"} \cup {x \in {"Other"} : p \in {"fatBoot", "exFat"}}

\* The error that the person reads is the first one: an unmount or a flush that
\* fails after it does not take its place (fat32.rs: "because it is the cause").
ErrorIsTheCause ==
  [][work.cause # "none" =>
       work'.cause = work.cause /\ work'.result \in {"none", work.cause}]_vars

\* stop.rs: "A check that found a difference says what the drive holds itself",
\* so no line says that the whole image is there over what the check refused.
WholeIsNotSaidOfABadVolume ==
  Note = "unchecked" => ~work.differs

=============================================================================
