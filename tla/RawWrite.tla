------------------------------ MODULE RawWrite ------------------------------
(***************************************************************************)
(* Raw mode: write_raw of commands/write.rs from the unmount to the eject, *)
(* with write_image and verify_image of burnout-core, the host and the     *)
(* drive round them, and what stop.rs tells a person when the work ends.   *)
(*                                                                         *)
(* A byte of the image is named by its position in it, so a byte that      *)
(* lands in the wrong place shows.  The drive is what the host sees of it  *)
(* (seen) and what its medium may hold (may): a write reaches the medium   *)
(* some time before the next sync, in any order.  A byte count, a hash and *)
(* the events that only draw a line are left out.                          *)
(***************************************************************************)
EXTENDS Integers, FiniteSets

CONSTANTS
  ImageBytes,    \* the length of the image file
  SectorBytes,   \* the bytes of a sector
  BlockSectors,  \* BLOCK_BYTES, in sectors
  DriveSectors,  \* the length of the drive, in sectors
  HeadSectors,   \* where a table can sit at the start of the drive
  TailSectors,   \* and at its end: table_areas of windows/parse.rs
  OpenTries      \* OPEN_TRIES

ASSUME SizesAssumption ==
  /\ {ImageBytes, SectorBytes, BlockSectors, DriveSectors, OpenTries} \subseteq Nat \ {0}
  /\ {HeadSectors, TailSectors} \subseteq Nat
  /\ ImageBytes <= DriveSectors * SectorBytes

VARIABLES
  work,     \* the locals of write_raw, write_image and verify_image
  reached,  \* REACHED of stop.rs
  told,     \* the last words of the process
  drive,    \* the drive, as the host sees it and as its medium may be
  host      \* the host, the image file and the plug

vars == <<work, reached, told, drive, host>>

Sectors    == 0 .. DriveSectors - 1
Cells      == 0 .. SectorBytes - 1
BlockBytes == BlockSectors * SectorBytes

\* What a byte of the drive can hold: a byte of the image, what was there
\* before, the zero of a pad or of a cleared table, or a byte of the host.
Old   == -1
Zero  == -2
Other == -3
Bytes == 0 .. ImageBytes - 1 \cup {Old, Zero, Other}
All(byte) == [c \in Cells |-> byte]

Least(a, b)        == IF a < b THEN a ELSE b
SectorCount(bytes) == (bytes + SectorBytes - 1) \div SectorBytes

Steps == {"unmount", "open", "start", "first", "block", "write", "sync", "close",
          "check", "compare", "eject", "end"}
Errors == {"Io", "InUse", "ImageEnded", "DriveEnded", "VerifyFailed"}

TypeOK ==
  /\ work \in [pc       : Steps,
               checks   : BOOLEAN,          \* whether the drive opens for the check
               size     : 0 .. ImageBytes,  \* image_bytes, as the work measured it
               first    : 0 .. BlockBytes,  \* first_got
               read     : 0 .. ImageBytes,  \* how much of the image is read
               out      : [from : 0 .. ImageBytes, got : 0 .. BlockBytes],  \* block
               at       : 0 .. DriveSectors,  \* the position in the target
               prepared : BOOLEAN,          \* WindowsDisk::prepared
               differs  : BOOLEAN,          \* first_difference is some byte
               left     : 0 .. OpenTries,   \* the tries that open_again has left
               result   : Errors \cup {"none", "ok", "stopped"}]
  /\ reached \in {"Nothing", "Writing", "Written", "Checking", "Checked"}
  /\ told \in {"none", "nothing", "part", "unchecked", "checked", "report"}
  /\ drive \in [seen : [Sectors -> [Cells -> Bytes]],
                may  : [Sectors -> SUBSET [Cells -> Bytes]]]
  /\ host \in [kind     : {"linux", "macos", "windows"},
               source   : 0 .. ImageBytes,    \* the length of the image file now
               lost     : SUBSET Sectors,     \* the sectors that a bad drive loses
               plugged  : BOOLEAN,
               held     : BOOLEAN,            \* the process has the drive open
               mounted  : BOOLEAN,            \* a volume of the drive is mounted
               busy     : BOOLEAN,            \* and a program uses it
               guarded  : BOOLEAN,            \* keep_unmounted stops its mounts
               offline  : BOOLEAN,            \* Windows has the drive offline
               readOnly : BOOLEAN,            \* and marked read-only
               wrote    : BOOLEAN]            \* the host wrote, after the write closed

----------------------------------------------------------------------------
(* The drive.                                                              *)

\* A mistake: the pad fills the block, and not only its last sector.
BlockPadded(from, got, at) ==
  [s \in at .. at + BlockSectors - 1 |->
     [c \in Cells |-> LET i == (s - at) * SectorBytes + c
                      IN  IF i < got THEN from + i ELSE Zero]]

\* A block that was read from byte `from` of the image, padded with zero to
\* whole sectors, as it lies from sector `at` on.
Block(from, got, at) ==
  [s \in at .. at + SectorCount(got) - 1 |->
     [c \in Cells |-> LET i == (s - at) * SectorBytes + c
                      IN  IF i < got THEN from + i ELSE Zero]]

Below(data, m) == [s \in {x \in DOMAIN data : x < m} |-> data[s]]

\* The drive after a write of these sectors.  The medium may take them now or
\* later, and a sector that it loses never gets there.
Wrote(data) ==
  [seen |-> [s \in Sectors |-> IF s \in DOMAIN data THEN data[s] ELSE drive.seen[s]],
   may  |-> [s \in Sectors |-> IF s \in DOMAIN data \ host.lost
                               THEN drive.may[s] \cup {data[s]} ELSE drive.may[s]]]

\* The medium holds what the host sees, where it does not lose it.
Settled(seen) ==
  [seen |-> seen,
   may  |-> [s \in Sectors |-> IF s \in host.lost THEN drive.may[s] ELSE {seen[s]}]]

\* Where Windows looks for a table: table_areas of windows/parse.rs.
TableAreas == {s \in Sectors : s < HeadSectors \/ s >= DriveSectors - TailSectors}

----------------------------------------------------------------------------
(* How the process ends.                                                   *)

\* note of stop.rs: the line after the error.
Note(r, e) ==
  CASE e = "VerifyFailed"             -> "none"
    [] e # "VerifyFailed" /\ r = "Writing" -> "part"
    [] e # "VerifyFailed" /\ r \in {"Written", "Checking"} -> "unchecked"
    [] OTHER -> "none"

\* stopped of stop.rs: the line of a stop by a signal.
Stopped(r) ==
  CASE r = "Nothing"  -> "nothing"
    [] r = "Writing"  -> "part"
    [] r \in {"Written", "Checking"} -> "unchecked"
    [] r = "Checked"  -> "checked"

\* An error returns through the drops of the target, and ends the process.
Fail(e) ==
  /\ work' = [work EXCEPT !.pc = "end", !.result = e]
  /\ told' = Note(reached, e)

----------------------------------------------------------------------------
(* The steps of the work.                                                  *)

Init ==
  /\ work = [pc |-> "unmount", checks |-> FALSE, size |-> 0, first |-> 0, read |-> 0,
             out |-> [from |-> 0, got |-> 0], at |-> 0, prepared |-> FALSE,
             differs |-> FALSE, left |-> OpenTries, result |-> "none"]
  /\ reached = "Nothing"
  /\ told = "none"
  /\ drive = [seen |-> [s \in Sectors |-> All(Old)], may |-> [s \in Sectors |-> {All(Old)}]]
  /\ host \in [kind : {"linux", "macos", "windows"}, source : {ImageBytes},
               lost : {{}} \cup {{s} : s \in Sectors}, plugged : {TRUE}, held : {FALSE},
               mounted : BOOLEAN, busy : {FALSE}, guarded : BOOLEAN,
               offline : BOOLEAN, readOnly : BOOLEAN, wrote : {FALSE}]
  /\ host.guarded = (host.kind = "macos")
  \* An earlier write on Windows leaves both marks until the drive goes.
  /\ host.offline = host.readOnly
  /\ host.offline => host.kind = "windows" /\ ~host.mounted

\* A mistake: the tries are not counted.
BusyForEver ==
  IF work.checks
  THEN work' = [work EXCEPT !.pc = "unmount"] /\ UNCHANGED told
  ELSE Fail("InUse")

\* A busy drive gets another try, but only where the check opens it.
Busy ==
  IF work.checks /\ work.left > 1
  THEN work' = [work EXCEPT !.pc = "unmount", !.left = @ - 1] /\ UNCHANGED told
  ELSE Fail("InUse")

\* unmount_volumes.  It finds no volume on a drive that is gone, and that is no
\* error.  On Windows it does nothing, and open takes the volumes.
Unmount ==
  /\ work.pc = "unmount"
  /\ UNCHANGED <<reached, drive>>
  /\ \/ /\ host.busy => host.kind = "windows"
        /\ host' = IF host.kind = "windows" THEN host ELSE [host EXCEPT !.mounted = FALSE]
        /\ work' = [work EXCEPT !.pc = "open"]
        /\ UNCHANGED told
     \/ /\ host.busy /\ host.kind # "windows"
        /\ Busy
        /\ UNCHANGED host
     \/ Fail("Io") /\ UNCHANGED host

\* open takes the drive for this process alone.  The close before it put the
\* cache of the host aside, so the check reads what the medium holds.
Open ==
  /\ work.pc = "open"
  /\ UNCHANGED reached
  /\ \/ /\ host.plugged
        /\ IF host.kind = "windows" THEN ~host.busy ELSE ~host.mounted
        /\ host' = [host EXCEPT !.held = TRUE, !.mounted = FALSE]
        /\ work' = [work EXCEPT !.pc = IF work.checks THEN "check" ELSE "start",
                                 !.at = 0, !.prepared = FALSE]
        /\ drive' = Settled([s \in Sectors |-> IF s \in host.lost THEN All(Old) ELSE drive.seen[s]])
        /\ UNCHANGED told
     \/ /\ IF host.kind = "windows" THEN host.busy ELSE host.mounted
        /\ Busy
        /\ UNCHANGED <<drive, host>>
     \/ Fail("Io") /\ UNCHANGED <<drive, host>>

\* fill: how much of `want` bytes the file gives from byte `from` on.
Filled(from, want) == IF host.source > from THEN Least(want, host.source - from) ELSE 0

\* A mistake: the start of the write is not reported.
StartWriteUntold ==
  /\ work.pc = "start"
  /\ UNCHANGED <<drive, host>>
  /\ \/ /\ reached' = reached
        /\ work' = [work EXCEPT !.pc = "first", !.size = host.source]
        /\ UNCHANGED told
     \/ Fail("Io") /\ UNCHANGED reached

\* write_image up to its first read: the length of the file, and the start.
StartWrite ==
  /\ work.pc = "start"
  /\ UNCHANGED <<drive, host>>
  /\ \/ /\ reached' = "Writing"
        /\ work' = [work EXCEPT !.pc = "first", !.size = host.source]
        /\ UNCHANGED told
     \/ Fail("Io") /\ UNCHANGED reached

\* next_block: how many bytes of the image come next, and how it may fail.
NextBlock == Filled(work.read, Least(BlockBytes, work.size - work.read))
NextBlockErrors ==
  {"Io"} \cup {e \in {"ImageEnded"} : NextBlock = 0 /\ work.read < work.size}

\* A mistake: the target stays at its start.
ReadFirstInPlace ==
  /\ work.pc = "first"
  /\ \/ /\ NextBlock > 0 \/ work.size = 0
        /\ work' = [work EXCEPT !.pc = "block", !.first = NextBlock, !.read = NextBlock]
        /\ UNCHANGED told
     \/ \E e \in NextBlockErrors : Fail(e)
  /\ UNCHANGED <<reached, drive, host>>

\* The first block is read, and stays in memory: the drive is past it.
ReadFirst ==
  /\ work.pc = "first"
  /\ \/ /\ NextBlock > 0 \/ work.size = 0
        /\ work' = [work EXCEPT !.pc = "block", !.first = NextBlock, !.read = NextBlock,
                                !.at = SectorCount(NextBlock)]
        /\ UNCHANGED told
     \/ \E e \in NextBlockErrors : Fail(e)
  /\ UNCHANGED <<reached, drive, host>>

\* One turn of the loop reads one more block.
ReadBlock ==
  /\ work.pc = "block"
  /\ work.read < work.size
  /\ \/ /\ NextBlock > 0
        /\ work' = [work EXCEPT !.pc = "write", !.read = @ + NextBlock,
                                !.out = [from |-> work.read, got |-> NextBlock]]
        /\ UNCHANGED told
     \/ \E e \in NextBlockErrors : Fail(e)
  /\ UNCHANGED <<reached, drive, host>>

\* The first block goes on the drive last, because it holds the table.
SeekFirst ==
  /\ work.pc = "block"
  /\ work.read = work.size
  /\ work' = [work EXCEPT !.pc = "write", !.out = [from |-> 0, got |-> work.first], !.at = 0]
  /\ UNCHANGED <<reached, told, drive, host>>

\* The first write through a handle on Windows takes the drive offline, and the
\* old table off it, before it writes.  write_all calls no write for no bytes.
MustPrepare == host.kind = "windows" /\ ~work.prepared /\ work.out.got > 0

\* A mistake: the drive goes offline with its table.
PrepareKeepsTable ==
  /\ work.pc = "write"
  /\ MustPrepare
  /\ UNCHANGED <<reached, drive>>
  /\ \/ /\ host.plugged
        /\ host' = [host EXCEPT !.offline = TRUE, !.readOnly = FALSE]
        /\ work' = [work EXCEPT !.prepared = TRUE]
        /\ UNCHANGED told
     \/ Fail("Io") /\ UNCHANGED host

Prepare ==
  /\ work.pc = "write"
  /\ MustPrepare
  /\ UNCHANGED reached
  /\ LET cleared == [s \in TableAreas |-> All(Zero)]
         taken   == [host EXCEPT !.offline = TRUE, !.readOnly = FALSE]
     IN  \/ /\ host.plugged
            /\ host' = taken
            /\ drive' = Wrote(cleared)
            /\ work' = [work EXCEPT !.prepared = TRUE]
            /\ UNCHANGED told
         \/ \E m \in TableAreas :
              host' = taken /\ drive' = Wrote(Below(cleared, m)) /\ Fail("Io")
         \/ Fail("Io") /\ UNCHANGED <<drive, host>>

\* write_all of one block: all of it, or what lies below some sector.
WriteBlock ==
  /\ work.pc = "write"
  /\ ~MustPrepare
  /\ UNCHANGED <<reached, host>>
  /\ LET data == Block(work.out.from, work.out.got, work.at)
     IN  \/ /\ host.plugged \/ work.out.got = 0
            /\ drive' = Wrote(data)
            /\ work' = [work EXCEPT !.pc = IF work.out.from = 0 THEN "sync" ELSE "block",
                                    !.at = @ + SectorCount(work.out.got)]
            /\ UNCHANGED told
         \/ \E m \in DOMAIN data : drive' = Wrote(Below(data, m)) /\ Fail("Io")

\* A mistake: the end is reported with the sync still to come.
SyncLater ==
  /\ work.pc = "sync"
  /\ UNCHANGED <<drive, host>>
  /\ \/ /\ host.plugged
        /\ reached' = "Written"
        /\ work' = [work EXCEPT !.pc = "close"]
        /\ UNCHANGED told
     \/ Fail("Io") /\ UNCHANGED reached

\* The sync, and only then the end of the write.
Sync ==
  /\ work.pc = "sync"
  /\ UNCHANGED host
  /\ \/ /\ host.plugged
        /\ drive' = Settled(drive.seen)
        /\ reached' = "Written"
        /\ work' = [work EXCEPT !.pc = "close"]
        /\ UNCHANGED told
     \/ Fail("Io") /\ UNCHANGED <<drive, reached>>

\* A mistake: the guard lives no longer than the handle that wrote.
CloseAndLetMount ==
  /\ work.pc = "close"
  /\ host' = [host EXCEPT !.held = FALSE, !.readOnly = @ \/ work.prepared, !.guarded = FALSE]
  /\ work' = [work EXCEPT !.pc = "unmount", !.checks = TRUE]
  /\ UNCHANGED <<reached, told, drive>>

\* The drop of the handle that wrote.  On Windows it marks the drive read-only,
\* and says nothing when it cannot.
Close ==
  /\ work.pc = "close"
  /\ host' \in {[host EXCEPT !.held = FALSE, !.readOnly = @ \/ mark] :
                  mark \in IF work.prepared THEN BOOLEAN ELSE {FALSE}}
  /\ work' = [work EXCEPT !.pc = "unmount", !.checks = TRUE]
  /\ UNCHANGED <<reached, told, drive>>

\* verify_image up to its loop: it measures the file again.
StartCheck ==
  /\ work.pc = "check"
  /\ UNCHANGED <<drive, host>>
  /\ \/ /\ reached' = "Checking"
        /\ work' = [work EXCEPT !.pc = "compare", !.size = host.source, !.read = 0]
        /\ UNCHANGED told
     \/ Fail("Io") /\ UNCHANGED reached

\* The byte of the drive where byte i of the image belongs.
SeenByte(i) == drive.seen[i \div SectorBytes][i % SectorBytes]

\* A mistake: each block takes the place of the difference that was found.
CompareForgets ==
  /\ work.pc = "compare"
  /\ work.read < work.size
  /\ UNCHANGED <<reached, drive, host>>
  /\ LET got == Filled(work.read, Least(BlockBytes, work.size - work.read))
     IN  \/ got = 0 /\ Fail("ImageEnded")
         \/ /\ got > 0 /\ host.plugged
            /\ work' = [work EXCEPT
                 !.read = @ + got,
                 !.differs = \E i \in work.read .. work.read + got - 1 : SeenByte(i) # i]
            /\ UNCHANGED told

\* One turn of the loop of verify_image.  A difference does not end it.
Compare ==
  /\ work.pc = "compare"
  /\ work.read < work.size
  /\ UNCHANGED <<reached, drive, host>>
  /\ LET got == Filled(work.read, Least(BlockBytes, work.size - work.read))
     IN  \/ got = 0 /\ Fail("ImageEnded")
         \/ /\ got > 0 /\ host.plugged
            /\ work' = [work EXCEPT
                 !.read = @ + got,
                 !.differs = @ \/ \E i \in work.read .. work.read + got - 1 : SeenByte(i) # i]
            /\ UNCHANGED told
         \/ got > 0 /\ \E e \in {"DriveEnded", "Io"} : Fail(e)

\* The two hashes, at the end of the loop.
FinishCheck ==
  /\ work.pc = "compare"
  /\ work.read = work.size
  /\ UNCHANGED <<drive, host>>
  /\ IF work.differs
     THEN Fail("VerifyFailed") /\ UNCHANGED reached
     ELSE /\ reached' = "Checked"
          /\ work' = [work EXCEPT !.pc = "eject"]
          /\ UNCHANGED told

\* The drop of the handle that read, the eject, which may fail, and the report.
Eject ==
  /\ work.pc = "eject"
  /\ work' = [work EXCEPT !.pc = "end", !.result = "ok"]
  /\ told' = "report"
  /\ host' = [host EXCEPT !.held = FALSE]
  /\ UNCHANGED <<reached, drive>>

Program ==
  \/ Unmount \/ Open \/ StartWrite \/ ReadFirst \/ ReadBlock \/ SeekFirst \/ Prepare
  \/ WriteBlock \/ Sync \/ Close \/ StartCheck \/ Compare \/ FinishCheck \/ Eject

----------------------------------------------------------------------------
(* What happens round the work, at any time.                               *)

Running == work.pc # "end"

\* Ctrl-C, a kill, or a terminal that closes: the handler of on_stop.
Signal ==
  /\ Running
  /\ work' = [work EXCEPT !.pc = "end", !.result = "stopped"]
  /\ told' = Stopped(reached)
  /\ UNCHANGED <<reached, drive, host>>

Unplug ==
  /\ Running /\ host.plugged
  /\ host' = [host EXCEPT !.plugged = FALSE, !.mounted = FALSE, !.busy = FALSE]
  /\ UNCHANGED <<work, reached, told, drive>>

\* Another program cuts the image file short, once.
Shrink ==
  /\ Running /\ host.source = ImageBytes
  /\ \E n \in 0 .. host.source - 1 : host' = [host EXCEPT !.source = n]
  /\ UNCHANGED <<work, reached, told, drive>>

\* A host mounts the volumes of a drive that nothing holds, unless the guard
\* of keep_unmounted stops it.  Windows mounts nothing that is offline.
HostMounts ==
  /\ Running /\ host.plugged /\ ~host.held /\ ~host.mounted
  /\ ~host.guarded /\ ~host.offline
  /\ host' = [host EXCEPT !.mounted = TRUE]
  /\ UNCHANGED <<work, reached, told, drive>>

HostUses ==
  /\ Running /\ host.mounted
  /\ host' = [host EXCEPT !.busy = ~@]
  /\ UNCHANGED <<work, reached, told, drive>>

\* The host changes a sector after the write, once: through a mounted volume, or as
\* Windows does to the table of a drive that is not marked read-only.
HostWrites ==
  /\ Running /\ work.checks /\ ~host.held /\ host.plugged /\ ~host.wrote
  /\ host.mounted \/ (host.kind = "windows" /\ ~host.readOnly)
  /\ host' = [host EXCEPT !.wrote = TRUE]
  /\ \E s \in Sectors : drive' = Wrote([x \in {s} |-> All(Other)])
  /\ UNCHANGED <<work, reached, told>>

Around == Signal \/ Unplug \/ Shrink \/ HostMounts \/ HostUses \/ HostWrites

Next == Program \/ Around

\* The process runs on until it ends; nothing is promised of the rest.
Spec == Init /\ [][Next]_vars /\ WF_vars(Program)

----------------------------------------------------------------------------
(* Properties                                                              *)

\* The sectors of an image of n bytes, and what they hold when it is written.
ImageSectors(n) == 0 .. SectorCount(n) - 1
Image(n)        == Block(0, n, 0)
TableBlock      == ImageSectors(work.first)

\* "Burnout wrote nothing to the drive" is true at every moment at which a
\* stop says it: no byte changed, neither as the host sees it nor below.
NothingIsNothing ==
  reached = "Nothing" => \A s \in Sectors : drive.may[s] = {All(Old)} /\ drive.seen[s] = All(Old)

\* From the end of the write on, through the close, the check and after it,
\* the medium of a good drive holds the whole image and its pad until the host
\* writes there, whatever is unplugged: no write is still on its way.  The file
\* may have been longer when the write measured it than when the check did.
WrittenIsOnTheMedium ==
  reached \in {"Written", "Checking", "Checked"} /\ host.lost = {} /\ ~host.wrote =>
    \E n \in work.size .. ImageBytes :
      /\ reached = "Written" => n = work.size
      /\ \A s \in ImageSectors(n) : drive.may[s] = {Image(n)[s]}

\* While the table of the image is on the drive, so is all of the rest of it:
\* no host can act on a new table over parts that are still to come.
TableComesLast ==
  ~work.checks /\ (\E s \in TableBlock : \E c \in Cells : drive.seen[s][c] >= 0) =>
    \A s \in ImageSectors(work.size) \ TableBlock : drive.seen[s] = Image(work.size)[s]

\* Until the write on Windows ends, an old table, at either end of the drive,
\* never stands beside a byte of the image.  A clear that fails half-way leaves
\* the drive as a stop in it does, and then nothing of the image is there.  The
\* head holds no table at all from the clears on until the first block goes out.
\* What the image has at the tail of the drive is the image's own.
NoTableHalfWay ==
  host.kind = "windows" /\ ~work.checks =>
    /\ \/ \A s \in Sectors : \A c \in Cells : drive.seen[s][c] < 0
       \/ \A s \in TableAreas : \A c \in Cells : drive.seen[s][c] # Old
    /\ work.prepared /\ work.pc \in {"block", "write"} =>
         \A s \in TableAreas \cap TableBlock : drive.seen[s] = All(Zero)

\* A check that ends well has seen every byte of the image on the medium, also
\* where the drive loses writes or the host wrote before the check.
CheckProves ==
  reached = "Checked" /\ host.held =>
    \A i \in 0 .. work.size - 1 :
      \A content \in drive.may[i \div SectorBytes] : content[i % SectorBytes] = i

\* Where the guard of macOS or the mark of Windows holds, the check of a good
\* drive finds no difference: nothing but the write put a byte there.
GuardsHold ==
  work.differs => host.lost # {} \/ (host.wrote /\ host.kind # "macos")

\* The write stays in the sectors of the image and, on Windows, in the areas
\* of a table, also when a block comes short because the file shrank.
StaysInItsSectors ==
  ~host.wrote =>
    \A s \in Sectors \ ImageSectors(work.size) :
      reached \in {"Writing", "Written"} =>
        drive.may[s] \subseteq {All(Old)} \cup {All(Zero) : x \in TableAreas \cap {s}}

\* A drive that stays busy, a host that mounts again and again, an error or an
\* unplugged drive: the process always ends.
Ends == <>(work.pc = "end")

\* stop.rs: "A check that found a difference says what the drive holds
\* itself", so no last word calls the image whole once a difference is known.
WholeIsNotSaidOfADifference ==
  work.result \in Errors /\ told = "unchecked" => ~work.differs

=============================================================================
