---------------------------- MODULE MCBootVolume ---------------------------
(***************************************************************************)
(* Trees whose install image leads to a volume just below and above each   *)
(* bound: where the FAT takes one more mebibyte, where the clusters grow,  *)
(* and where the table ends; and trees that leave partition 1 no room or   *)
(* just room enough, with their tables or with the names in a directory.   *)
(***************************************************************************)
EXTENDS BootVolume

MiB == 1048576

\* Names as long as a name can be.
LongName(k) == "name" \o ToString(k)
MCUnits == [n \in {LongName(k) : k \in 1 .. 16} |-> 255] @@ [n \in {"efi", "boot", "bootx64.efi", "bootaa64.efi", "sources", "boot.wim",
                   "install.wim", "INSTALL.WIM", "install.esd", "autounattend.xml",
                   "AutoUnattend.xml", "EFI", "long name", "LONGNA~1"} |-> 12]
MCUp == [n \in DOMAIN MCUnits |-> CASE n = "INSTALL.WIM" -> "install.wim"
                                    [] n = "AutoUnattend.xml" -> "autounattend.xml"
                                    [] n = "EFI" -> "efi"
                                    [] OTHER -> n]

\* A file that is as long as the tree says, or a byte shorter or longer.
MCGives == {-1, 0, 1}

MCShort == [n \in DOMAIN MCUnits |-> IF n = "long name" THEN "LONGNA~1" ELSE n]

Dir(path)         == [path |-> path, dir |-> TRUE, bytes |-> 0]
Plain(path, bytes) == [path |-> path, dir |-> FALSE, bytes |-> bytes]

MCWim      == <<"sources", "install.wim">>
MCEsd      == <<"sources", "install.esd">>
MCUnattend == <<"autounattend.xml">>
X64        == <<"efi", "boot", "bootx64.efi">>
Aa64       == <<"efi", "boot", "bootaa64.efi">>
MCStarts   == {X64, Aa64}

\* A tree with one install image of a size.
Tree(image, bytes) ==
  << Dir(<<"efi">>), Dir(<<"efi", "boot">>), Plain(X64, 2 * MiB + 1), Dir(<<"sources">>),
     Plain(<<"sources", "boot.wim">>, MiB), Plain(image, bytes) >>

\* Trees that are not of Windows, or are of two.
Others ==
  { <<Dir(<<"sources">>), Plain(MCWim, 1)>>,
    <<Dir(<<"efi">>), Dir(<<"efi", "boot">>), Plain(X64, 1)>>,
    Tree(MCEsd, 1) \o <<Plain(MCWim, 1)>>,
    Tree(<<"sources", "INSTALL.WIM">>, 1) \o <<Plain(MCWim, 1)>>,
    <<Dir(<<"efi">>), Dir(<<"efi", "boot">>), Plain(Aa64, 1)>> \o SubSeq(Tree(MCWim, 1), 3, 6) }

\* Sizes of the image, in mebibytes, and a little less or more.
Mebibytes == {8, 127, 128, 129, 143, 175, 246}
Sizes     == {n * MiB + d : n \in Mebibytes, d \in {-24000, 0, 1}}

Drives == {0, 32 * MiB + 1, 48 * MiB, 135 * MiB + 4096}

\* A tree with a boot file of some bytes, which makes partition 1 end where the
\* room that windows.rs counts ends, and some names in the root or below it.
Filled(bytes, names) ==
  << Dir(<<"efi">>), Dir(<<"efi", "boot">>), Plain(X64, bytes) >> \o names \o
  << Dir(<<"sources">>), Plain(MCWim, 1) >>

\* Boot files that end where a mebibyte ends, with nothing past them.
Brim == Filled(MiB - 4 * CLUSTER, <<>>)

\* So many names, of empty files, leave clusters over or do not.
Named(above, n) == [k \in 1 .. n |-> Plain(above \o <<LongName(k)>>, 0)]
OfNames == {Filled(MiB - BOOT_ROOM - 4 * CLUSTER, Named(above, n)) :
              above \in {<<>>, <<"efi">>}, n \in {14, 15, 16}}

\* A tree for which partition 1 has so many mebibytes: the tables of 120 have room,
\* and those of 122 do not.
OfTables(n) ==
  Filled(n * MiB - BOOT_ROOM - 3 * 32 * MiB - CLUSTER,
         << Plain(<<"boot">>, 32 * MiB - CLUSTER), Plain(<<"boot.wim">>, 32 * MiB - CLUSTER),
            Plain(<<"bootx64.efi">>, 32 * MiB - CLUSTER) >>)

\* Trees of Windows that FAT32 does not take: a name in two cases, a name that is
\* the short name of another, and a file that is too large.
NotFat32 ==
  { <<Dir(<<"EFI">>)>> \o Tree(MCWim, 1),
    <<Plain(<<"long name">>, 1), Plain(<<"LONGNA~1">>, 1)>> \o Tree(MCWim, 1),
    <<Plain(<<"boot.wim">>, 32 * MiB)>> \o Tree(MCWim, 1) }

MCJobs ==
  [tree : {Tree(MCWim, n) : n \in Sizes}, drive : {12 * MiB + 2048, 300 * MiB}, sector : {512, 2048}]
  \cup [tree : {Tree(MCWim, 128 * MiB)}, drive : Drives, sector : {512}]
  \cup [tree : {<<Plain(<<"AutoUnattend.xml">>, 9)>> \o Tree(<<"sources", "INSTALL.WIM">>, 5)},
        drive : Drives, sector : {512}]
  \cup [tree : NotFat32, drive : {64 * MiB}, sector : {512}]
  \cup [tree : OfNames \cup {Brim}, drive : {48 * MiB}, sector : {512}]
  \cup [tree : {OfTables(120), OfTables(122)}, drive : {150 * MiB}, sector : {2048}]
  \cup [tree : Others, drive : {48 * MiB}, sector : {512}]
  \cup [tree : {Tree(MCWim, 1)}, drive : Drives, sector : {1024}]

ASSUME MCLargerDrivesHold == LargerDrivesHold

=============================================================================
