---------------------------- MODULE DriveLayout ----------------------------
(***************************************************************************)
(* Where the two partitions of a Windows drive are, and how the table      *)
(* names them: plan.rs, mbr.rs and alignment.rs.  Arithmetic and nothing   *)
(* else.                                                                   *)
(***************************************************************************)
EXTENDS Integers

CONSTANTS
  ALIGN,         \* one mebibyte: what each partition starts and ends on
  SECTOR_SIZES,  \* the sector sizes that Burnout writes
  U32            \* the largest number of 32 bits

ASSUME LayoutAssumption ==
  /\ ALIGN \in Nat \ {0}
  /\ SECTOR_SIZES \subseteq Nat \ {0}
  /\ \A sector \in SECTOR_SIZES : ALIGN % sector = 0
  /\ U32 \in Nat

\* An MBR counts sectors in 32 bits, for the start and for the length.
MBR_SECTORS == U32 + 1

DivCeil(a, b) == (a + b - 1) \div b

RoundUp(value, unit)   == DivCeil(value, unit) * unit
RoundDown(value, unit) == (value \div unit) * unit

End(extent) == extent.start + extent.length

\* plan: partition 1 of at least that many bytes, and partition 2 behind it, down
\* to the last mebibyte of the drive or of what the table can name.
BootPart(bytes) ==
  [start |-> ALIGN, length |-> RoundUp(IF bytes = 0 THEN 1 ELSE bytes, ALIGN)]

\* A mistake: the table is taken to name every byte of the drive.
InstallEndFar(drive, sector) == RoundDown(drive, ALIGN)

InstallEnd(drive, sector) ==
  RoundDown(IF drive < MBR_SECTORS * sector THEN drive ELSE MBR_SECTORS * sector, ALIGN)

\* Why plan refuses a drive, or "none".
Refusal(drive, sector, bytes) ==
  IF sector \notin SECTOR_SIZES THEN "SectorSize"
  ELSE IF drive % sector # 0 THEN "Unaligned"
  ELSE IF InstallEnd(drive, sector) < End(BootPart(bytes)) + ALIGN THEN "TooSmall"
  ELSE "none"

\* The layout of a drive that plan does not refuse.
Layout(drive, sector, bytes) ==
  LET boot  == BootPart(bytes)
      limit == MBR_SECTORS * sector
  IN  [sector |-> sector, drive |-> drive, boot |-> boot,
       install |-> [start |-> End(boot), length |-> InstallEnd(drive, sector) - End(boot)],
       beyond |-> IF drive > limit THEN drive - limit ELSE 0]

\* chs: cylinder, head and sector of a made-up drive, or the largest of them.
Chs(lba) ==
  IF lba \div (255 * 63) > 1023 THEN <<1023, 254, 63>>
  ELSE <<lba \div (255 * 63), (lba \div 63) % 255, (lba % 63) + 1>>

\* entry: the first sector and the count, in the 32 bits that the table has.
Entry(layout, extent, active) ==
  LET first == extent.start \div layout.sector
      count == extent.length \div layout.sector
  IN  [active |-> active, from |-> Chs(first), to |-> Chs(first + count - 1),
       first |-> first % MBR_SECTORS, count |-> count % MBR_SECTORS]

\* mbr_bytes: partition 1, which a BIOS would start from, and partition 2.
Mbr(layout) == <<Entry(layout, layout.boot, TRUE), Entry(layout, layout.install, FALSE)>>

=============================================================================
