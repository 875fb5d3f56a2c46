------------------------------ MODULE IsoTree ------------------------------
(***************************************************************************)
(* The tree of ISO 9660: its descriptors (descriptors.rs), the records of  *)
(* a directory (directory.rs), the entries of Rock Ridge (rock_ridge.rs)   *)
(* and the walk (walk.rs).                                                 *)
(***************************************************************************)
EXTENDS DiscImage

CONSTANTS
  MOST,         \* descriptors that are looked at for a terminator
  MOST_AREAS,   \* continuation areas of one record
  Plain         \* what plain_name and joliet_name make of an identifier

ASSUME IsoAssumption == {MOST, MOST_AREAS} \subseteq Nat

VARIABLE iso   \* the locals of read_descriptors, and which names the tree keeps

IsoInit == iso = [at |-> FIRST, primary |-> {}, joliet |-> {}, names |-> "plain", skip |-> 0]

----------------------------------------------------------------------------
(* The descriptors.                                                        *)

IsIso(number) == Descriptor(number).id = "CD001"

StartIso ==
  /\ pc = "iso"
  /\ IF SectorIn(FIRST) /\ IsIso(FIRST) THEN pc' = "descriptors" /\ UNCHANGED result
                                        ELSE pc' = "built" /\ result' = "NoTree"
  /\ UNCHANGED <<image, walk, iso>>

\* One descriptor.  Of two primary or two Joliet descriptors the first counts.
ReadDescriptor ==
  LET d      == Descriptor(iso.at)
      past   == [iso EXCEPT !.at = @ + 1]
      wanted == d.type \in {"primary", "joliet"} /\ iso[d.type] = {}
  IN  /\ pc = "descriptors"
      /\ IF iso.at = FIRST + MOST \/ ~SectorIn(iso.at) \/ ~IsIso(iso.at)
         THEN Fault("Image") /\ UNCHANGED iso
         ELSE \/ /\ wanted /\ d.block = SECTOR
                 /\ iso' = [past EXCEPT ![d.type] = {d.root}] /\ UNCHANGED <<pc, result>>
              \/ wanted /\ d.block # SECTOR /\ Fault("Image") /\ UNCHANGED iso
              \/ /\ d.type = "terminator" /\ UNCHANGED iso
                 /\ IF iso.primary = {} THEN Fault("Image") ELSE pc' = "detect" /\ UNCHANGED result
              \/ /\ ~wanted /\ d.type # "terminator"
                 /\ iso' = past /\ UNCHANGED <<pc, result>>
      /\ UNCHANGED <<image, walk>>

----------------------------------------------------------------------------
(* The records of a directory.                                             *)

\* records: each record of some whole sectors, if each one fits its sector.  A
\* zero where a record starts leaves the rest of its sector.
Records(bytes) ==
  LET fits(at) == LET r == bytes[at + 1]
                  IN  /\ r.u = "record" /\ ~r.interleaved
                      /\ (at % SECTOR) + r.length <= SECTOR /\ at + r.length <= Len(bytes)
      from[at \in 0 .. Len(bytes) + SECTOR] ==
        IF at >= Len(bytes) THEN {<<>>}
        ELSE IF bytes[at + 1].u = "zero" THEN from[((at \div SECTOR) + 1) * SECTOR]
        ELSE IF fits(at) THEN {<<bytes[at + 1]>> \o rest : rest \in from[at + bytes[at + 1].length]}
        ELSE {}
  IN  from[0]

\* The bytes of a directory, in whole sectors.
DirectoryAt(root) ==
  IF InImage(root.extent * SECTOR, Sectors(root.length) * SECTOR)
  THEN Records(Bytes(root.extent * SECTOR, Sectors(root.length) * SECTOR)) ELSE {}

\* The first sector of a directory, alone.
FirstOf(block) == IF SectorIn(block) THEN Records(Bytes(block * SECTOR, SECTOR)) ELSE {}

IsSelf(r)   == r.id = "self"
IsParent(r) == r.id = "parent"

----------------------------------------------------------------------------
(* Rock Ridge.                                                             *)

\* The signature of an entry; a zero where one starts is padding, and what is no
\* entry does not fit.
SigOf(e) == CASE e.u = "susp" -> e.sig [] e.u = "zero" -> "pad" [] OTHER -> "torn"

\* feed, up to the end of an area: ST, padding, or its last entry.
Fed(area) ==
  LET end == [u |-> "susp", sig |-> "ST"]
  IN  SubSeq(area, 1, SelectInSeq(Append(area, end), LAMBDA e : SigOf(e) \in {"ST", "pad"}) - 1)

Of(entries, sig) == SelectSeq(entries, LAMBDA e : SigOf(e) = sig)

\* read_entries: the entries of a record after the bytes to skip, with each
\* continuation area that it chains, if none of them has a fault.
EntriesOf(use, skip) ==
  LET chain(area) == Of(Fed(area), "CE")
      areas[k \in 0 .. MOST_AREAS] ==
        IF k = 0 THEN {<<SubSeq(use, skip + 1, Len(use))>>}
        ELSE UNION {LET ce == chain(Last(list))
                        at == Last(ce).block * SECTOR + Last(ce).offset
                    IN  IF ce = <<>> THEN {list}
                        ELSE IF \/ Last(ce).offset + Last(ce).length > SECTOR
                                \/ ~InImage(at, Last(ce).length) THEN {}
                        ELSE {Append(list, Bytes(at, Last(ce).length))} : list \in areas[k - 1]}
      all(list) == FlattenSeq([k \in 1 .. Len(list) |-> Fed(list[k])])
      sound == {list \in areas[MOST_AREAS] :
                  chain(Last(list)) = <<>> /\ Of(all(list), "torn") = <<>>}
  IN  {all(list) : list \in sound}

\* What the entries of a record say.
RockRidgeSigs == {"NM", "SL", "PX", "TF", "RR", "PN", "PL", "ER"}

IsRockRidge(e) == \E k \in 1 .. Len(e) : SigOf(e[k]) \in RockRidgeSigs
Says(e, sig)   == Of(e, sig) # <<>>
SkipOf(e)      == IF Says(e, "SP") THEN {Last(Of(e, "SP")).skip} ELSE {}

\* The parts of a name, put together.
NamesOf(e) == SelectSeq(e, LAMBDA x : SigOf(x) = "NM" /\ ~x.dots)
RrName(e)  == FoldLeft(LAMBDA name, x : name \o x.part, "", NamesOf(e))

KindOf(e) == IF Says(e, "PX") THEN Last(Of(e, "PX")).kind ELSE "none"

\* detect: the bytes to skip, and whether the records of the root give names.
Detected(root) ==
  LET selfOf(rs)  == SelectSeq(rs, IsSelf)
      others(rs)  == SelectSeq(rs, LAMBDA r : ~IsSelf(r) /\ ~IsParent(r))
      none        == [ok |-> TRUE, rr |-> {}]
      \* The records up to the first that gives a name, each read.
      Names(rs, skip) ==
        LET e(k)   == EntriesOf(others(rs)[k].use, skip)
            named  == {k \in 1 .. Len(others(rs)) : \E x \in e(k) : NamesOf(x) # <<>>}
            bad    == {k \in 1 .. Len(others(rs)) : e(k) = {}}
        IN  IF \E k \in bad : \A n \in named : k < n THEN [ok |-> FALSE]
            ELSE [ok |-> TRUE, rr |-> {[skip |-> skip, names |-> named # {}]}]
      Dot(rs) == EntriesOf(selfOf(rs)[1].use, 0)
  IN  IF FirstOf(root.extent) = {} THEN [ok |-> FALSE]
      ELSE LET rs == CHOOSE x \in FirstOf(root.extent) : TRUE
           IN  IF selfOf(rs) = <<>> THEN none
               ELSE IF Dot(rs) = {} THEN [ok |-> FALSE]
               ELSE LET e == CHOOSE x \in Dot(rs) : TRUE
                    IN  IF SkipOf(e) = {} \/ ~IsRockRidge(e) THEN none
                        ELSE Names(rs, CHOOSE s \in SkipOf(e) : TRUE)

----------------------------------------------------------------------------
(* The walk.                                                               *)

IsoFrames(root, above) ==
  {[above |-> above, records |-> rs, taken |-> {}, pending |-> <<>>] : rs \in DirectoryAt(root)}

\* IsoSource::new, where the tree of ISO 9660 is chosen: Rock Ridge before Joliet,
\* where it gives names or there is no Joliet; then the short names.
ChooseTree ==
  /\ pc = "detect"
  /\ \E primary \in iso.primary :
       LET d      == Detected(primary)
           usable == {r \in d.rr : r.names \/ iso.joliet = {}}
       IN  IF ~d.ok THEN Fault("Image") /\ UNCHANGED <<iso, walk>>
           ELSE \/ \E r \in usable :
                     /\ iso' = [iso EXCEPT !.names = "rockridge", !.skip = r.skip]
                     /\ Enter(walk, primary.extent, IsoFrames(primary, <<>>))
                \/ /\ usable = {} /\ iso' = [iso EXCEPT !.names = "joliet"]
                   /\ \E j \in iso.joliet : Enter(walk, j.extent, IsoFrames(j, <<>>))
                \/ /\ usable = {} /\ iso.joliet = {} /\ iso' = iso
                   /\ Enter(walk, primary.extent, IsoFrames(primary, <<>>))
  /\ UNCHANGED image

IsoIn == pc = "walk" /\ DOMAIN Top = {"above", "records", "taken", "pending"}
         /\ UNCHANGED <<image, iso>>

\* push_extent: the file with the extent of a record more, if the image holds it.
PushExtent(node, r) ==
  LET at == r.extent * SECTOR
  IN  IF r.bytes = 0 THEN {node}
      ELSE IF ~InImage(at, r.bytes) THEN {}
      ELSE {[node EXCEPT !.size = @ + r.bytes,
               !.extents = Append(@, [at |-> at, length |-> r.bytes, zero |-> FALSE])]}

\* moved_dir: where the first record of a directory says that it is.
MovedDir(block) ==
  UNION {{[extent |-> rs[k].extent, length |-> rs[k].bytes] :
            k \in {i \in 1 .. Len(rs) : IsSelf(rs[i]) /\ \A j \in 1 .. i - 1 : ~IsSelf(rs[j])}}
         : rs \in FirstOf(block)}

\* One more record of a file of several extents.
MoreOfFile(r, past) ==
  \E p \in ToSet(Top.pending) :
    IF p.id # r.id \/ PushExtent(p.node, r) = {} THEN Fault("Image") /\ UNCHANGED walk
    ELSE \E node \in PushExtent(p.node, r) :
      /\ walk' = IF r.more THEN OnTop([past EXCEPT !.pending = <<[id |-> r.id, node |-> node]>>])
                 ELSE With(OnTop([past EXCEPT !.pending = <<>>]), {node})
      /\ UNCHANGED <<pc, result>>

\* A record that stands for an entry of the tree, with the entries of Rock Ridge.
TakeRecord(r, e, past) ==
  LET name  == IF NamesOf(e) # <<>> THEN RrName(e) ELSE Plain[r.id]
      path  == Append(Top.above, name)
      taken == OnTop([past EXCEPT !.taken = @ \cup {name}])
      dirs  == With(taken, {Node(path, "dir", 0, <<>>)})
      file  == PushExtent(Node(path, "file", 0, <<>>), r)
  IN  IF name \in BadNames \/ name \in Top.taken THEN Fault("Image") /\ UNCHANGED walk
      ELSE IF Says(e, "SL")
      THEN walk' = With(taken, {Node(path, "link", 0, <<>>)}) /\ UNCHANGED <<pc, result>>
      ELSE IF Says(e, "CL")
      THEN LET moved == MovedDir(Last(Of(e, "CL")).block)
           IN  IF moved = {} THEN Fault("Image") /\ UNCHANGED walk
               ELSE \E root \in moved : Enter(dirs, root.extent, IsoFrames(root, path))
      ELSE IF ~r.dir /\ (Says(e, "ZF") \/ Says(e, "SF")) THEN Fault("Image") /\ UNCHANGED walk
      ELSE IF r.dir
      THEN LET root == [extent |-> r.extent, length |-> r.bytes]
           IN  Enter(dirs, root.extent, IsoFrames(root, path))
      ELSE IF file = {} THEN Fault("Image") /\ UNCHANGED walk
      ELSE \E node \in file :
        /\ walk' = IF r.more
                   THEN OnTop([past EXCEPT !.taken = @ \cup {name},
                                           !.pending = <<[id |-> r.id, node |-> node]>>])
                   ELSE With(taken, {node})
        /\ UNCHANGED <<pc, result>>

\* One record of walk_dir.  A directory that Rock Ridge moved belongs where its
\* child link is, and a device is nothing that a drive holds.
IsoRecord ==
  /\ IsoIn /\ Top.records # <<>>
  /\ LET r    == Head(Top.records)
         past == [Top EXCEPT !.records = Tail(@)]
         use  == IF iso.names = "rockridge" THEN EntriesOf(r.use, iso.skip) ELSE {<<>>}
         kinds == {"none", "dir", "file", "link"}
     IN  IF IsSelf(r) \/ IsParent(r) \/ r.associated
         THEN walk' = OnTop(past) /\ UNCHANGED <<pc, result>>
         ELSE IF Top.pending # <<>> THEN MoreOfFile(r, past)
         ELSE IF use = {} THEN Fault("Image") /\ UNCHANGED walk
         ELSE \E e \in use :
                IF Says(e, "RE") \/ KindOf(e) \notin kinds
                THEN walk' = OnTop(past) /\ UNCHANGED <<pc, result>>
                ELSE TakeRecord(r, e, past)

IsoLeave ==
  /\ IsoIn /\ Top.records = <<>>
  /\ IF Top.pending # <<>> THEN Fault("Image") /\ UNCHANGED walk ELSE Leave

IsoNext == StartIso \/ ReadDescriptor \/ ChooseTree \/ IsoRecord \/ IsoLeave

=============================================================================
