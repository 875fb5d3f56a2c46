--------------------------- MODULE MCImageSource ---------------------------
(***************************************************************************)
(* Small images, four units to a sector: Windows ISOs with UDF, trees of   *)
(* ISO 9660 with the names of Rock Ridge, of Joliet and of neither, and    *)
(* each of them with one sector that holds what another held.              *)
(***************************************************************************)
EXTENDS ImageSource

Zero       == [u |-> "zero"]
Blank      == [desc |-> [id |-> "zero"], units |-> <<Zero, Zero, Zero, Zero>>]
Pad(units) == [k \in 1 .. 4 |-> IF k <= Len(units) THEN units[k] ELSE Zero]
Units(us)  == [desc |-> [id |-> "none"], units |-> Pad(us)]
Desc(d)    == [desc |-> d, units |-> <<Zero, Zero, Zero, Zero>>]
Content4(of) == Units([k \in 1 .. 4 |-> [u |-> "byte", of |-> of, k |-> k]])

\* The sectors of an image that is whole, with its tree.
ImageOf(sectors, tree) ==
  [path |-> "file", koly |-> FALSE, length |-> 4 * Len(sectors), holds |-> {tree},
   disc |-> [n \in 0 .. Len(sectors) - 1 |-> sectors[n + 1]]]

Held(path, kind, bytes) == [path |-> path, kind |-> kind, bytes |-> bytes]
Take(of, n) == SubSeq(Content4(of).units, 1, n)

Volume(type, root, blocks) ==
  Desc([id |-> "CD001", type |-> type, block |-> 4, blocks |-> blocks, root |-> root])
Terminator == Volume("terminator", [extent |-> 0, length |-> 0], 0)

----------------------------------------------------------------------------
(* UDF.                                                                    *)

At(block) == [block |-> block, partition |-> 0]
Run(block, length)  == [kind |-> "run", length |-> length, address |-> At(block)]
Unwritten(length)   == [kind |-> "unwritten", length |-> length]
MoreAt(block)       == [kind |-> "more", length |-> 4, address |-> At(block)]

Fid(name, length, at, icb, dir) ==
  <<[u |-> "fid", name |-> name, length |-> length, location |-> at, icb |-> At(icb),
     dir |-> dir, parent |-> FALSE, deleted |-> FALSE]>>
  \o [k \in 1 .. length - 1 |-> [u |-> "rest", of |-> name]]

Entry(at, type, size, ads) ==
  [desc |-> [id |-> "entry", location |-> at, strategy |-> 4, type |-> type, size |-> size,
             form |-> "runs", ads |-> ads], units |-> <<Zero, Zero, Zero, Zero>>]
Inside(at, type, units) ==
  [desc |-> [id |-> "entry", location |-> at, strategy |-> 4, type |-> type, size |-> Len(units),
             form |-> "inside", inside |-> Len(units)], units |-> Pad(units)]

Partition(at, number, start) ==
  Desc([id |-> "partition", location |-> at, number |-> number, part |-> 7, contents |-> "NSR",
        start |-> start, length |-> 12])
Logical(at) ==
  Desc([id |-> "logical", location |-> at, number |-> 1, block |-> 4, fileSet |-> At(0),
        maps |-> <<[type |-> 1, part |-> 7]>>])
End(at) == Desc([id |-> "terminating", location |-> at])
PointerTo(at, extent) == Desc([id |-> "pointer", location |-> at, next |-> extent])
Extent(location, sectors) == [location |-> location, length |-> 4 * sectors]
AnchorTo(at, main, reserve) ==
  Desc([id |-> "anchor", location |-> at, main |-> main, reserve |-> reserve])

RootFids ==
  LET parent == [Fid("..", 1, 2, 1, TRUE)[1] EXCEPT !.parent = TRUE]
      gone   == [Fid("sources", 1, 2, 9, FALSE)[1] EXCEPT !.deleted = TRUE]
  IN  <<parent, gone>> \o Fid("sources", 3, 2, 3, TRUE) \o Fid("link", 1, 4, 9, FALSE)
      \o Fid("device", 1, 4, 10, FALSE)

\* The twelve blocks of the partition.
Blocks ==
  << Desc([id |-> "fileset", location |-> 0, root |-> At(1)]),
     Entry(1, "dir", 7, <<Run(2, 4), Run(4, 4)>>),
     Units(SubSeq(RootFids, 1, 4)),
     Inside(3, "dir", Fid("Install.wim", 2, 3, 5, FALSE)),
     Units(SubSeq(RootFids, 5, 7)),
     Entry(5, "file", 9, <<Run(6, 4), Unwritten(2), MoreAt(7)>>),
     Content4("a"),
     Desc([id |-> "extents", location |-> 7, ads |-> <<Run(8, 4), Run(11, 0), Run(50, 4)>>]),
     Content4("b"),
     Inside(9, "link", <<Zero>>),
     Inside(10, "fifo", <<>>),
     Blank >>

UdfHolds ==
  { Held(<<"sources">>, "dir", <<>>), Held(<<"link">>, "link", <<>>),
    Held(<<"sources", "Install.wim">>, "file", Take("a", 4) \o <<Zero, Zero>> \o Take("b", 3)) }

UdfImage(anchor, main, reserve, last) ==
  ImageOf(<<Blank, Volume("primary", [extent |-> 11, length |-> 4], 24), Terminator,
            Desc([id |-> "NSR"]), anchor>> \o main \o reserve \o Blocks \o <<last>>, UdfHolds)

Anchored(at) == AnchorTo(at, Extent(5, 3), Extent(8, 3))
SequenceAt(at) == <<Partition(at, 1, 11), Logical(at + 1), End(at + 2)>>

UdfWhole == UdfImage(Anchored(4), SequenceAt(5), SequenceAt(8), Anchored(23))

\* The anchor in its last place, and a main sequence that is one pointer.
UdfPointer ==
  UdfImage(Blank, <<PointerTo(5, Extent(8, 3)), Blank, Blank>>, SequenceAt(8), Anchored(23))

\* A main sequence with an older partition before the newer, and no reserve copy.
UdfTwice ==
  UdfImage(Anchored(4), <<Partition(5, 1, 3), Partition(6, 2, 11), Logical(7)>>,
           <<Blank, Blank, Blank>>, Blank)

\* A main sequence of no use.
UdfReserve ==
  UdfImage(Anchored(4), <<Logical(5), End(6), Blank>>, SequenceAt(8), Blank)

----------------------------------------------------------------------------
(* ISO 9660.                                                               *)

Record(id, extent, bytes, use) ==
  [u |-> "record", id |-> id, length |-> 1, extent |-> extent, bytes |-> bytes, use |-> use,
   dir |-> FALSE, associated |-> FALSE, more |-> FALSE, interleaved |-> FALSE]
DirOf(record)  == [record EXCEPT !.dir = TRUE]
MoreOf(record) == [record EXCEPT !.more = TRUE]
Dots(extent, above, bytes, use) ==
  <<DirOf(Record("self", extent, bytes, use)), DirOf(Record("parent", above, bytes, <<>>))>>

Susp(sig)  == [u |-> "susp", sig |-> sig]
Nm(part)   == [u |-> "susp", sig |-> "NM", dots |-> FALSE, part |-> part]
Px(kind)   == [u |-> "susp", sig |-> "PX", kind |-> kind]
Ce(block, offset, length) ==
  [u |-> "susp", sig |-> "CE", block |-> block, offset |-> offset, length |-> length]
Cl(block)  == [u |-> "susp", sig |-> "CL", block |-> block]
Skip       == [u |-> "susp", sig |-> "SP", skip |-> 1]
Skipped    == Susp("torn")

\* Rock Ridge: a name in parts and areas, a file in two extents, a directory that
\* moved, a link and a device.  Two sectors for the root.
RockRidgeSectors(joliet, named) ==
  LET Nms(part) == IF named THEN <<Skipped, Nm(part)>> ELSE <<Skipped, Susp("TF")>>
  IN  << Blank, Volume("primary", [extent |-> 4, length |-> 7], 14), joliet, Terminator,
         Units(Dots(4, 4, 7, <<Skip, Susp("ER")>>) \o <<DirOf(Record("SOURCES", 6, 4, Nms("sources")))>>),
         Units(<< Record("A.;1", 9, 2, IF named THEN <<Skipped, Nm("in"), Ce(10, 1, 2)>> ELSE Nms("")),
                  DirOf(Record("MOVED", 8, 3, Nms("moved") \o <<Susp("RE")>>)),
                  Record("DEV", 0, 0, Nms("dev") \o <<Px("fifo")>>) >>),
         Units(Dots(6, 4, 4, <<Susp("pad")>>) \o
               << MoreOf(Record("INSTALL.WIM;1", 11, 4, Nms("install.wim"))),
                  Record("INSTALL.WIM;1", 12, 3, <<>>) >>),
         Units(<< >>),
         Units(Dots(8, 6, 3, <<>>) \o <<Record("LINK", 0, 0, Nms("link") \o <<Susp("SL")>>)>>),
         Content4("a"),
         Units(<<Zero, Nm("it"), Ce(10, 3, 1), Susp("PX") @@ [kind |-> "file"]>>),
         Content4("b"), Content4("c"), Blank >>

RockRidgeHolds ==
  { Held(<<"sources">>, "dir", <<>>), Held(<<"init">>, "file", Take("a", 2)),
    Held(<<"sources", "install.wim">>, "file", Take("b", 4) \o Take("c", 3)) }

PlainHolds ==
  { Held(<<"SOURCES">>, "dir", <<>>), Held(<<"A">>, "file", Take("a", 2)),
    Held(<<"SOURCES", "INSTALL.WIM">>, "file", Take("b", 4) \o Take("c", 3)) }

NoJoliet == Volume("boot", [extent |-> 0, length |-> 0], 0)
RockRidgeWhole == ImageOf(RockRidgeSectors(NoJoliet, TRUE), RockRidgeHolds)

\* Modes and times of Rock Ridge, and no names: the short names, or Joliet.
RockRidgeUnnamed == ImageOf(RockRidgeSectors(NoJoliet, FALSE),
  PlainHolds)

JolietSectors ==
  [[k \in 1 .. 14 |-> RockRidgeSectors(Volume("joliet", [extent |-> 13, length |-> 3], 14), FALSE)[k]]
   EXCEPT ![14] = Units(Dots(13, 13, 3, <<>>) \o <<Record("Sources", 9, 3, <<>>)>>)]
JolietWhole == ImageOf(JolietSectors, {Held(<<"Sources">>, "file", Take("a", 3))})

\* A tree with a directory that Rock Ridge moved to the root.
MovedSectors ==
  [RockRidgeSectors(NoJoliet, TRUE) EXCEPT
     ![8] = Units(<< Record("CL", 0, 0, <<Skipped, Nm("deep"), Cl(8)>>) >>),
     ![7] = Units(Dots(6, 4, 8, <<>>)),
     ![5] = Units(Dots(4, 4, 7, <<Skip, Susp("ER")>>) \o
                  <<DirOf(Record("SOURCES", 6, 8, <<Skipped, Nm("sources")>>))>>)]
MovedWhole == ImageOf(MovedSectors,
  { Held(<<"sources">>, "dir", <<>>), Held(<<"init">>, "file", Take("a", 2)),
    Held(<<"sources", "deep">>, "dir", <<>>), Held(<<"sources", "deep", "link">>, "link", <<>>) })

----------------------------------------------------------------------------
(* Damage.                                                                 *)

Whole == {UdfWhole, UdfPointer, UdfTwice, UdfReserve, RockRidgeWhole, RockRidgeUnnamed,
          JolietWhole, MovedWhole}

\* What sector t holds, written as of sector s: with the block of s in its tags.
Written(sector, s) ==
  LET tag(d) == IF d.id \in {"anchor", "pointer", "logical", "partition", "terminating"}
                THEN [d EXCEPT !.location = s]
                ELSE IF d.id \in {"fileset", "entry", "extents"} THEN [d EXCEPT !.location = s - 11]
                ELSE d
      unit(x) == IF x.u = "fid" THEN [x EXCEPT !.location = s - 11] ELSE x
  IN  [desc |-> tag(sector.desc), units |-> [k \in 1 .. 4 |-> unit(sector.units[k])]]

Damaged(img) ==
  {[img EXCEPT !.holds = {}, !.disc[s] = Written(img.disc[t], s)] : s, t \in DOMAIN img.disc}
  \cup {[img EXCEPT !.holds = {}, !.length = n] : n \in 0 .. img.length - 1}

\* A partition that reaches past the image, a file that does, and a file of more
\* bytes than its extents; a record of a file that the image does not hold.
Loose ==
  LET long == [UdfWhole EXCEPT !.holds = {}, !.disc[5].desc.length = 99]
  IN  {[long EXCEPT !.disc[16].desc.ads = <<Run(b, n)>>] : b \in {6, 12, 13, 90}, n \in {4, 8, 9}}
      \cup {[RockRidgeWhole EXCEPT !.holds = {}, !.disc[6].units[3].extent = e] : e \in {12, 13, 14}}

\* Sequences that go on past the image or start there, a type that no tree has, a block of two
\* sectors, a name that ends before its file does, another record in between, and
\* a file that is compressed.
Odd ==
  LET rr == [RockRidgeWhole EXCEPT !.holds = {}]
  IN  { [UdfPointer EXCEPT !.holds = {}, !.disc[5].desc.next = Extent(30, 2)],
        [UdfWhole EXCEPT !.disc[4].desc.main = Extent(30, 2)],
        [UdfWhole EXCEPT !.holds = {}, !.disc[21].desc.type = "realtime"],
        [rr EXCEPT !.disc[1].desc.block = 8, !.disc[1].desc.blocks = 7],
        [rr EXCEPT !.disc[6].units[4] = Zero],
        [rr EXCEPT !.disc[6].units[4].id = "OTHER"],
        [rr EXCEPT !.disc[5].units[1].use = Append(@, Susp("ZF"))] }

\* Files that are no image, and what comes before the tree.
Special ==
  LET first(id) == [UdfWhole EXCEPT !.holds = {}, !.disc[0].desc.id = id]
      app == [RockRidgeWhole EXCEPT !.holds = {}, !.disc[4].units[3].use[2].part = "x.app"]
  IN  {first("xar"), first("table"), app, [UdfWhole EXCEPT !.holds = {}, !.koly = TRUE],
       [UdfWhole EXCEPT !.holds = {}, !.path = "dir"], [UdfWhole EXCEPT !.holds = {}, !.path = "app"]}

MCImages == Whole \cup Loose \cup Odd \cup Special
  \cup UNION {Damaged(img) : img \in {UdfPointer, RockRidgeWhole, MovedWhole}}

MCArgs == [mode : {"none", "raw"}, options : {FALSE}] \cup [mode : {"raw", "windows"}, options : {TRUE}]

MCInstalls == {<<"sources", "install.wim">>, <<"sources", "install.esd">>}
MCPlain == [n \in {"SOURCES", "A.;1", "MOVED", "DEV", "INSTALL.WIM;1", "LINK", "CL", "Sources"} |->
              CASE n = "A.;1" -> "A" [] n = "INSTALL.WIM;1" -> "INSTALL.WIM" [] OTHER -> n]
MCLower == [n \in {"SOURCES", "Sources", "INSTALL.WIM", "Install.wim"} |->
              IF n \in {"SOURCES", "Sources"} THEN "sources" ELSE "install.wim"]

=============================================================================
