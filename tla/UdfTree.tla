------------------------------ MODULE UdfTree ------------------------------
(***************************************************************************)
(* The tree of UDF: its volume (volume.rs), the tag of each descriptor     *)
(* (tag.rs), the file entries (entry.rs) and the walk (walk.rs).           *)
(***************************************************************************)
EXTENDS DiscImage

CONSTANTS
  ANCHOR_BLOCK,
  MOST_POINTERS,       \* volume descriptor pointers in one sequence
  MOST_CONTINUATIONS   \* areas of allocation descriptors of one entry

ASSUME UdfAssumption == {ANCHOR_BLOCK, MOST_POINTERS, MOST_CONTINUATIONS} \subseteq Nat

VARIABLE udf   \* the locals of find_volume and sequence, and the volume

NoVolume == [partitions |-> <<>>, fileSet |-> [block |-> 0, partition |-> 0]]

UdfInit == udf = [extent |-> [location |-> 0, length |-> 0], n |-> 0, pointers |-> 0,
                  logical |-> {}, partitions |-> {}, reserve |-> {}, volume |-> NoVolume]

\* The descriptors that start with a tag.
TAGGED == {"anchor", "pointer", "partition", "logical", "terminating", "fileset", "entry", "extents", "other"}

\* read_tag: the descriptor of that kind, written for that block.
Tagged(desc, ids, location) == desc.id \in ids /\ desc.location = location

----------------------------------------------------------------------------
(* The volume.                                                             *)

\* recognized: NSR02 or NSR03 before the sequence ends.
Recognized == \E at \in FIRST .. ANCHOR_BLOCK - 1 :
  /\ SectorIn(at) /\ Descriptor(at).id = "NSR"
  /\ \A before \in FIRST .. at - 1 : Descriptor(before).id \in {"CD001", "BEA01", "BOOT2", "CDW02"}

Recognize ==
  /\ pc = "tree"
  /\ pc' = IF Recognized THEN "anchor" ELSE "iso"
  /\ UNCHANGED <<image, result, walk, udf>>

\* The anchors that are valid, in the order in which they are tried.
Anchors ==
  LET sectors   == image.length \div SECTOR
      Valid(at) == at >= 0 /\ SectorIn(at) /\ Tagged(Descriptor(at), {"anchor"}, at)
  IN  SelectSeq(<<ANCHOR_BLOCK, sectors - 1, sectors - 1 - ANCHOR_BLOCK>>, Valid)

Sequence(extent, reserve) ==
  /\ udf' = [udf EXCEPT !.extent = extent, !.n = 0, !.pointers = 0, !.logical = {},
                        !.partitions = {}, !.reserve = reserve]
  /\ pc' = "sequence" /\ UNCHANGED result

Anchor ==
  /\ pc = "anchor"
  /\ IF Anchors = <<>> THEN Fault("Image") /\ UNCHANGED udf
     ELSE LET d == Descriptor(Head(Anchors)) IN Sequence(d.main, {d.reserve})
  /\ UNCHANGED <<image, walk>>

\* A mistake: the descriptor that came first stays.
KeepFirst(kept, desc) == IF kept # {} THEN kept ELSE {desc}

\* keep: of two descriptors of one thing the higher number prevails.
Keep(kept, desc) == IF \E d \in kept : d.number > desc.number THEN kept ELSE {desc}

\* The partitions that a sequence describes, by their numbers.
KeepPartition(kept, desc) ==
  LET same == {d \in kept : d.part = desc.part} IN (kept \ same) \cup Keep(same, desc)

\* volume: the partitions that the maps name.
VolumeOf(logical, partitions) ==
  LET named(k) == {d \in partitions : d.part = logical.maps[k].part}
      sound    == /\ logical.block = SECTOR /\ logical.fileSet.partition < Len(logical.maps)
                  /\ \A k \in 1 .. Len(logical.maps) :
                       /\ logical.maps[k].type = 1 /\ named(k) # {}
                       /\ \A d \in named(k) : d.contents = "NSR"
      At(d)    == [start |-> d.start, length |-> d.length]
  IN  IF ~sound THEN {}
      ELSE {[fileSet |-> logical.fileSet, partitions |->
             [k \in 1 .. Len(logical.maps) |-> At(CHOOSE d \in named(k) : TRUE)]]}

\* The main sequence gave no volume: its reserve copy is next.
NoSequence ==
  IF udf.reserve = {} THEN Fault("Image") /\ UNCHANGED udf
  ELSE \E extent \in udf.reserve : Sequence(extent, {})

EndSequence ==
  LET volumes == UNION {VolumeOf(d, udf.partitions) : d \in udf.logical}
  IN  IF volumes = {} THEN NoSequence
      ELSE \E v \in volumes : /\ udf' = [udf EXCEPT !.volume = v]
                              /\ pc' = "fileset" /\ UNCHANGED result

\* A mistake: the pointers that a sequence chains are not counted.
ChainUncounted(d) == [udf EXCEPT !.extent = d.next, !.n = 0]

\* A pointer leads the sequence to another extent.
Chain(d) == [udf EXCEPT !.pointers = @ + 1, !.extent = d.next, !.n = 0]

\* One sector of sequence: every other descriptor whose tag is right is skipped.
NextSector ==
  LET at == udf.extent.location + udf.n
      d  == Descriptor(at)
      on == udf' = [udf EXCEPT !.n = @ + 1] /\ UNCHANGED <<pc, result>>
  IN  /\ pc = "sequence"
      /\ IF udf.n >= udf.extent.length \div SECTOR THEN EndSequence
         ELSE IF ~SectorIn(at) THEN NoSequence
         ELSE IF d.id = "zero" \/ Tagged(d, {"terminating"}, at) THEN EndSequence
         ELSE \/ ~Tagged(d, TAGGED, at) /\ NoSequence
              \/ /\ Tagged(d, {"pointer"}, at)
                 /\ IF udf.pointers = MOST_POINTERS THEN NoSequence
                    ELSE udf' = Chain(d) /\ UNCHANGED <<pc, result>>
              \/ /\ Tagged(d, {"logical"}, at)
                 /\ udf' = [udf EXCEPT !.logical = Keep(@, d), !.n = @ + 1]
                 /\ UNCHANGED <<pc, result>>
              \/ /\ Tagged(d, {"partition"}, at)
                 /\ udf' = [udf EXCEPT !.partitions = KeepPartition(@, d), !.n = @ + 1]
                 /\ UNCHANGED <<pc, result>>
              \/ Tagged(d, TAGGED \ {"pointer", "logical", "partition"}, at) /\ on
      /\ UNCHANGED <<image, walk>>

----------------------------------------------------------------------------
(* File entries.                                                           *)

\* locate: the byte of the image, if the partition holds them all.
Locate(at, length) ==
  LET parts == udf.volume.partitions
  IN  IF /\ at.partition < Len(parts)
         /\ at.block + Sectors(length) <= parts[at.partition + 1].length
      THEN {(parts[at.partition + 1].start + at.block) * SECTOR} ELSE {}

\* The descriptor of one kind that the block at an address holds.
DescriptorAt(address, id) ==
  {Descriptor(byte \div SECTOR) : byte \in
     {b \in Locate(address, SECTOR) :
        InImage(b, SECTOR) /\ Tagged(Descriptor(b \div SECTOR), {id}, address.block)}}

\* The run of one allocation descriptor, if the image holds it.
RunOf(ad) ==
  IF ad.kind = "unwritten"
  THEN {[at |-> 0, length |-> ad.length, zero |-> TRUE, address |-> {}]}
  ELSE {[at |-> byte, length |-> ad.length, zero |-> FALSE, address |-> {ad.address}] :
          byte \in {b \in Locate(ad.address, ad.length) : InImage(b, ad.length)}}

\* read_runs: the runs of an area up to a length of zero or the address of more
\* descriptors, and of each area that the list chains.
Runs(first) ==
  LET stop(area) == SelectInSeq(area \o <<[kind |-> "run", length |-> 0]>>,
                      LAMBDA ad : ad.length = 0 \/ ad.kind = "more")
      taken(area) == SubSeq(area, 1, stop(area) - 1)
      goesOn(area) == stop(area) <= Len(area) /\ area[stop(area)].length > 0
      \* The areas of the list after k continuations, or none where one fails.
      areas[k \in 0 .. MOST_CONTINUATIONS] ==
        IF k = 0 THEN {<<first>>}
        ELSE LET before == areas[k - 1]
             IN  UNION {IF ~goesOn(Last(list)) THEN {list}
                        ELSE {Append(list, d.ads) : d \in DescriptorAt(
                                Last(list)[stop(Last(list))].address, "extents")} : list \in before}
      ads(list) == FlattenSeq([k \in 1 .. Len(list) |-> taken(list[k])])
      sound == {list \in areas[MOST_CONTINUATIONS] :
                  /\ ~goesOn(Last(list))
                  /\ \A k \in 1 .. Len(ads(list)) : RunOf(ads(list)[k]) # {}}
  IN  {[k \in 1 .. Len(ads(list)) |-> CHOOSE run \in RunOf(ads(list)[k]) : TRUE] : list \in sound}

\* cut: the runs, cut to the size, if they hold as much.
CutRuns(runs, size) ==
  LET before[k \in 0 .. Len(runs)] == IF k = 0 THEN 0 ELSE before[k - 1] + runs[k].length
      needed == {k \in 1 .. Len(runs) : before[k - 1] < size}
      Part(k) == [runs[k] EXCEPT !.length = IF before[k] > size THEN size - before[k - 1] ELSE @]
  IN  IF before[Len(runs)] < size THEN {} ELSE {[k \in 1 .. Cardinality(needed) |-> Part(k)]}

\* read_entry.  An entry may keep its data in itself, from its first unit on.
EntryAt(icb) ==
  UNION {LET runs == IF e.form = "inside"
                     THEN IF e.size > e.inside THEN {}
                          ELSE {<<[at |-> byte, length |-> e.size, zero |-> FALSE,
                                   address |-> {icb}]>> : byte \in Locate(icb, SECTOR)}
                     ELSE UNION {CutRuns(all, e.size) : all \in Runs(e.ads)}
         IN  {[type |-> e.type, size |-> e.size, runs |-> r] : r \in runs}
         : e \in {d \in DescriptorAt(icb, "entry") : d.strategy = 4}}

----------------------------------------------------------------------------
(* The walk.                                                               *)

ExtentsOf(entry) ==
  [k \in 1 .. Len(entry.runs) |->
     [at |-> entry.runs[k].at, length |-> entry.runs[k].length, zero |-> entry.runs[k].zero]]

\* data: the bytes of an entry, if the image holds them.
DataOf(entry) ==
  LET zeros(run) == [k \in 1 .. run.length |-> [u |-> "zero"]]
      part(run)  == IF run.zero THEN zeros(run) ELSE Bytes(run.at, run.length)
  IN  IF \E k \in DOMAIN entry.runs : ~entry.runs[k].zero
                                       /\ ~InImage(entry.runs[k].at, entry.runs[k].length)
      THEN {} ELSE {FlattenSeq([k \in 1 .. Len(entry.runs) |-> part(entry.runs[k])])}

\* block_of: the block that a byte of an entry is in, if it was ever written.
BlockOf(runs, offset) ==
  LET before[k \in 0 .. Len(runs)] == IF k = 0 THEN 0 ELSE before[k - 1] + runs[k].length
      at == {k \in 1 .. Len(runs) : before[k - 1] <= offset /\ offset < before[k]}
  IN  UNION {{a.block + ((offset - before[k - 1]) \div SECTOR) : a \in runs[k].address} : k \in at}

\* identifier: the file identifier descriptor at an offset, which may cross the
\* end of a block or of a run.
IdentifierAt(frame) ==
  {d \in {frame.bytes[frame.at + 1]} :
     /\ d.u = "fid" /\ frame.at + d.length <= Len(frame.bytes)
     /\ d.location \in BlockOf(frame.runs, frame.at)
     /\ \A k \in 1 .. d.length - 1 : frame.bytes[frame.at + 1 + k] = [u |-> "rest", of |-> d.name]}

UdfFrames(entry, above) ==
  {[above |-> above, bytes |-> bytes, at |-> 0, runs |-> entry.runs, taken |-> {}] :
     bytes \in DataOf(entry)}

\* root, and the start of walk.
UdfRoot ==
  /\ pc = "fileset"
  /\ LET roots   == {d.root : d \in DescriptorAt(udf.volume.fileSet, "fileset")}
         entries == UNION {{[icb |-> r, e |-> e] : e \in EntryAt(r)} : r \in roots}
     IN  IF \E x \in entries : x.e.type = "dir"
         THEN \E x \in entries : Enter(walk, x.icb, UdfFrames(x.e, <<>>))
         ELSE Fault("Image") /\ UNCHANGED walk
  /\ UNCHANGED <<image, udf>>

Devices == {"block", "character", "fifo", "socket"}

UdfIn == pc = "walk" /\ DOMAIN Top = {"above", "bytes", "at", "runs", "taken"}
         /\ UNCHANGED <<image, udf>>

\* One identifier of Walk::dir.
UdfEntry ==
  /\ UdfIn /\ Top.at < Len(Top.bytes)
  /\ IF IdentifierAt(Top) = {} THEN Fault("Image") /\ UNCHANGED walk
     ELSE \E fid \in IdentifierAt(Top) :
       LET past  == [Top EXCEPT !.at = @ + fid.length]
           taken == OnTop([past EXCEPT !.taken = @ \cup {fid.name}])
           path  == Append(Top.above, fid.name)
           child == EntryAt(fid.icb)
       IN  IF fid.parent \/ fid.deleted
           THEN walk' = OnTop(past) /\ UNCHANGED <<pc, result>>
           ELSE IF \/ fid.name \in BadNames \/ fid.name \in Top.taken
                   \/ child = {} \/ \E e \in child : fid.dir # (e.type = "dir")
           THEN Fault("Image") /\ UNCHANGED walk
           ELSE \E e \in child :
             \/ /\ e.type = "dir"
                /\ Enter(With(taken, {Node(path, "dir", 0, <<>>)}), fid.icb, UdfFrames(e, path))
             \/ /\ e.type = "file"
                /\ walk' = With(taken, {Node(path, "file", e.size, ExtentsOf(e))})
                /\ UNCHANGED <<pc, result>>
             \/ /\ e.type = "link"
                /\ IF DataOf(e) = {} THEN Fault("Image") /\ UNCHANGED walk
                   ELSE /\ walk' = With(taken, {Node(path, "link", 0, <<>>)})
                        /\ UNCHANGED <<pc, result>>
             \/ e.type \in Devices /\ walk' = taken /\ UNCHANGED <<pc, result>>
             \/ /\ e.type \notin {"dir", "file", "link"} \cup Devices
                /\ Fault("Image") /\ UNCHANGED walk

UdfLeave == UdfIn /\ Top.at >= Len(Top.bytes) /\ Leave

UdfNext == Recognize \/ Anchor \/ NextSector \/ UdfRoot \/ UdfEntry \/ UdfLeave

=============================================================================
